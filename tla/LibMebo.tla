------------------------------ MODULE LibMebo ------------------------------
(***************************************************************************)
(* The API front (src/lib/libmebo.c): controllers that own an engine and   *)
(* forward every call to it, driven by one client with several controllers *)
(* at once.  The heap matters here: a new controller's handler is whatever *)
(* malloc left there, which may be null, wild, or the address of an        *)
(* engine.  Engines are known by what BrcEngine promises of them.          *)
(***************************************************************************)
EXTENDS Integers

CONSTANTS
  Controllers,          (* names the client has for its controllers           *)
  Engines,              (* addresses malloc can return for an engine          *)
  Null, Wild,           (* pointers to no object: free skips the first only   *)
  Backends,             (* codecs with an entry in algo_impl_map              *)
  SingleLayer,          (* backends that accept one layer only                *)
  NullRefused,          (* backends whose filter level checks the handler    *)
  MaxQuantizer,         (* 63 in the public configuration                     *)
  MaxQ,                 (* backend -> its coarsest quantizer index            *)
  Qindex,               (* backend -> public quantizer -> quantizer index     *)
  Configs               (* configurations the client passes                   *)

Unknown == "unknown"
Default == "default"
Codecs     == Backends \cup {Unknown}
Algorithms == Backends \cup {Default, Unknown}
Pointers   == Engines \cup {Null, Wild}
Quantizers == 0 .. MaxQuantizer
Qindices   == {0} \cup UNION {0 .. MaxQ[b] : b \in Backends}

Config == [range : Quantizers \X Quantizers, layers : 1 .. 2]

ASSUME HeapAssumption ==
  /\ MaxQuantizer \in Nat
  /\ Configs \subseteq Config
  /\ SingleLayer \subseteq Backends
  /\ Unknown \notin Backends /\ Default \notin Backends
  /\ Null \notin Engines /\ Wild \notin Engines

\* A coarser public quantizer is no finer on the scale of the codec.
ASSUME TranslationAssumption ==
  /\ MaxQ \in [Backends -> Nat]
  /\ Qindex \in [Backends -> [Quantizers -> Nat]]
  /\ \A b \in Backends : \A p, q \in Quantizers :
       /\ Qindex[b][q] <= MaxQ[b]
       /\ p <= q => Qindex[b][p] <= Qindex[b][q]

VARIABLES
  controller,           \* name -> backend and handler, the fields of priv
  engine,               \* address -> the engine there
  client,               \* name -> how far the client is, and what it knows
  misused,              \* a call other than init went to a controller whose
                        \* init never succeeded
  fault                 \* "none", or what ended the process

vars == <<controller, engine, client, misused, fault>>

Live(e) == engine[e].status # "none"

handler(r) == controller[r].handler
Handled(r) == engine[handler(r)]

\* The handler is an engine of the controller's interface.
Bound(r) ==
  handler(r) \in Engines /\ Live(handler(r)) /\ Handled(r).backend = controller[r].backend

Open(r)        == client[r].step # "none"
Initialized(r) == client[r].step \in {"ready", "computed", "retrieved"}

NoController == [backend |-> Unknown, handler |-> Null]
NoEngine     == [status |-> "none", backend |-> Unknown, range |-> <<0, 0>>, qp |-> 0]
NoClient     == [step |-> "none", wanted |-> <<0, 0>>, got |-> 0]

-----------------------------------------------------------------------------
(* What the front and the validations of its backends decide. *)

\* get_backend_impl: the codec counts only when the algorithm is the default.
GetBackendImpl(codec, algo) ==
  LET id == IF algo = Default THEN codec ELSE algo
  IN  IF id \in Backends THEN id ELSE Unknown

Validate(backend, c) ==
  /\ c.range[1] <= c.range[2]
  /\ backend \in SingleLayer => c.layers = 1

\* Mutant of Translated: the public numbers are stored as they came.
TranslatedUnscaled(backend, range) == range

\* A public range on the codec's own scale, as the engine stores it: q_trans
\* in VP8, quantizer_to_qindex in VP9 and AV1.
Translated(backend, range) ==
  <<Qindex[backend][range[1]], Qindex[backend][range[2]]>>

\* The indices an engine may answer; an inverted range promises nothing.
Answers(backend, range) ==
  IF range[1] <= range[2] THEN range[1] .. range[2] ELSE 0 .. MaxQ[backend]

-----------------------------------------------------------------------------
(* The API. *)

\* Mutant of New: a missing backend is not refused.
NewUnrefused(r, codec, algo) ==
  /\ fault = "none" /\ ~Open(r)
  /\ \E garbage \in Pointers :
       controller' = [controller EXCEPT ![r] =
         [backend |-> GetBackendImpl(codec, algo), handler |-> garbage]]
  /\ client' = [client EXCEPT ![r].step = "new"]
  /\ UNCHANGED <<engine, misused, fault>>

\* libmebo_rate_controller_new, refused when there is no backend or no memory.
\* It sets the interface and leaves the handler as malloc returned it.
New(r, codec, algo) ==
  /\ fault = "none" /\ ~Open(r)
  /\ GetBackendImpl(codec, algo) # Unknown
  /\ \E garbage \in Pointers :
       controller' = [controller EXCEPT ![r] =
         [backend |-> GetBackendImpl(codec, algo), handler |-> garbage]]
  /\ client' = [client EXCEPT ![r].step = "new"]
  /\ UNCHANGED <<engine, misused, fault>>

\* Mutant of InitSucceeds: an engine the handler points to is used again, so
\* that a second init leaks nothing.
InitSucceedsReusing(r, c) ==
  /\ Validate(controller[r].backend, c)
  /\ \E e \in Engines :
       /\ IF Bound(r) THEN e = handler(r) ELSE ~Live(e)
       /\ engine' = [engine EXCEPT ![e] =
            [status |-> "ready", backend |-> controller[r].backend,
             range |-> Translated(controller[r].backend, c.range), qp |-> 0]]
       /\ controller' = [controller EXCEPT ![r].handler = e]
  /\ client' = [client EXCEPT ![r].step = "ready", ![r].wanted = c.range]

\* libmebo_rate_controller_init: the handler is written only on success, and
\* an engine it pointed to before stays allocated.
InitSucceeds(r, c) ==
  /\ Validate(controller[r].backend, c)
  /\ \E e \in Engines :
       /\ ~Live(e)
       /\ engine' = [engine EXCEPT ![e] =
            [status |-> "ready", backend |-> controller[r].backend,
             range |-> Translated(controller[r].backend, c.range), qp |-> 0]]
       /\ controller' = [controller EXCEPT ![r].handler = e]
  /\ client' = [client EXCEPT ![r].step = "ready", ![r].wanted = c.range]

\* A rejected configuration, or no memory for the engine.
InitFails(r) ==
  /\ client' = [client EXCEPT ![r].step = IF Initialized(r) THEN @ ELSE "failed"]
  /\ UNCHANGED <<controller, engine>>

InitController(r, c) ==
  /\ fault = "none" /\ Open(r)
  /\ InitSucceeds(r, c) \/ InitFails(r)
  /\ UNCHANGED <<misused, fault>>

\* Every other call goes through the handler: it reaches the engine there, the
\* controller's own or not, or the process is lost.
Call(r) ==
  /\ fault = "none" /\ Open(r)
  /\ misused' = (misused \/ ~Initialized(r))
  /\ UNCHANGED controller

Reached(r, step) ==
  /\ Bound(r)
  /\ client' = [client EXCEPT ![r].step = IF Initialized(r) THEN step ELSE @]
  /\ fault' = fault

Lost(r) ==
  /\ ~Bound(r)
  /\ fault' = "bad_handler"
  /\ UNCHANGED <<engine, client>>

\* Mutant of UpdateConfig: success is returned and nothing forwarded.
UpdateConfigSwallowed(r, c) ==
  /\ Call(r)
  /\ client' = [client EXCEPT ![r].wanted = c.range]
  /\ UNCHANGED <<engine, fault>>

\* libmebo_rate_controller_update_config: no validation on the way.
UpdateConfig(r, c) ==
  /\ Call(r)
  /\ \/ /\ Bound(r)
        /\ engine' = [engine EXCEPT ![handler(r)].range =
             Translated(controller[r].backend, c.range)]
        /\ client' = [client EXCEPT ![r].wanted = c.range]
        /\ fault' = fault
     \/ Lost(r)

\* libmebo_rate_controller_compute_qp
ComputeQp(r) ==
  /\ Call(r)
  /\ \/ /\ Reached(r, "computed")
        /\ \E q \in Answers(controller[r].backend, Handled(r).range) :
             engine' = [engine EXCEPT ![handler(r)].status = "computed",
                                      ![handler(r)].qp = q]
     \/ Lost(r)

\* libmebo_rate_controller_get_qp
GetQp(r) ==
  /\ Call(r)
  /\ \/ /\ Bound(r)
        /\ client' = [client EXCEPT ![r].step = IF Initialized(r) THEN "retrieved" ELSE @,
                                    ![r].got = Handled(r).qp]
        /\ UNCHANGED <<engine, fault>>
     \/ Lost(r)

\* libmebo_rate_controller_get_loop_filter_level: VP8 and AV1 refuse a null
\* handler here, where VP9 goes through it as in every other call.
GetLoopFilterLevel(r) ==
  /\ Call(r)
  /\ UNCHANGED <<engine, client>>
  /\ \/ /\ \/ Bound(r)
           \/ handler(r) = Null /\ controller[r].backend \in NullRefused
        /\ fault' = fault
     \/ /\ handler(r) = Null => controller[r].backend \notin NullRefused
        /\ Lost(r)

\* Mutant of PostEncodeUpdate: the engine never hears of the encoded frame.
PostEncodeUpdateSwallowed(r) ==
  /\ Call(r)
  /\ Reached(r, "ready")
  /\ UNCHANGED engine

\* libmebo_rate_controller_post_encode_update
PostEncodeUpdate(r) ==
  /\ Call(r)
  /\ \/ /\ Reached(r, "ready")
        /\ engine' = [engine EXCEPT ![handler(r)].status = "ready"]
     \/ Lost(r)

\* Mutant of Free: the engine is not freed with its controller.
FreeLeaking(r) ==
  /\ fault = "none" /\ Open(r)
  /\ misused' = (misused \/ ~Initialized(r))
  /\ controller' = [controller EXCEPT ![r] = NoController]
  /\ client' = [client EXCEPT ![r] = NoClient]
  /\ UNCHANGED <<engine, fault>>

\* libmebo_rate_controller_free: the backend skips a null handler and frees
\* an engine whoever else uses it; the client drops the controller.
Free(r) ==
  /\ fault = "none" /\ Open(r)
  /\ misused' = (misused \/ ~Initialized(r))
  /\ \/ /\ handler(r) = Null
        /\ UNCHANGED <<engine, fault>>
     \/ /\ handler(r) \in Engines /\ Live(handler(r))
        /\ engine' = [engine EXCEPT ![handler(r)] = NoEngine]
        /\ UNCHANGED fault
     \/ /\ handler(r) # Null
        /\ handler(r) \in Engines => ~Live(handler(r))
        /\ fault' = "bad_free"
        /\ UNCHANGED engine
  /\ controller' = [controller EXCEPT ![r] = NoController]
  /\ client' = [client EXCEPT ![r] = NoClient]

-----------------------------------------------------------------------------
(* The client of libmebo.h initializes once, retries a failed init or gives *)
(* the controller up, updates with valid configurations between frames and  *)
(* frees what it initialized.  Any other client calls what it likes.        *)

Init ==
  /\ controller = [r \in Controllers |-> NoController]
  /\ engine = [e \in Engines |-> NoEngine]
  /\ client = [r \in Controllers |-> NoClient]
  /\ misused = FALSE
  /\ fault = "none"

Loop(r) ==
  \/ \E codec \in Codecs, algo \in Algorithms : New(r, codec, algo)
  \/ /\ client[r].step \in {"new", "failed"}
     /\ \E c \in Configs : InitController(r, c)
  \/ /\ client[r].step = "ready"
     /\ \/ \E c \in Configs : Validate(controller[r].backend, c) /\ UpdateConfig(r, c)
        \/ ComputeQp(r)
        \/ Free(r)
  \/ client[r].step = "computed" /\ GetQp(r)
  \/ /\ client[r].step = "retrieved"
     /\ GetLoopFilterLevel(r) \/ PostEncodeUpdate(r)

Next == \E r \in Controllers : Loop(r)

\* The same client, which also frees a controller whose init failed.
FreeingNext ==
  \/ Next
  \/ \E r \in Controllers : client[r].step = "failed" /\ Free(r)

AnyNext ==
  \E r \in Controllers :
    \/ \E codec \in Codecs, algo \in Algorithms : New(r, codec, algo)
    \/ \E c \in Configs : InitController(r, c)
    \/ \E c \in Configs : UpdateConfig(r, c)
    \/ ComputeQp(r)
    \/ GetQp(r)
    \/ GetLoopFilterLevel(r)
    \/ PostEncodeUpdate(r)
    \/ Free(r)

Spec        == Init /\ [][Next]_vars
FreeingSpec == Init /\ [][FreeingNext]_vars
AnySpec     == Init /\ [][AnyNext]_vars

-----------------------------------------------------------------------------
(* Properties. *)

Steps == {"none", "new", "failed", "ready", "computed", "retrieved"}

ControllerRecord == [backend : Codecs, handler : Pointers]
EngineRecord == [status : {"none", "ready", "computed"}, backend : Codecs,
                 range : Qindices \X Qindices, qp : Qindices]
ClientRecord == [step : Steps, wanted : Quantizers \X Quantizers, got : Qindices]

\* Every structure keeps its type, and an open controller has a backend of
\* the map, so that no call goes through an empty interface.
TypeOK ==
  /\ controller \in [Controllers -> ControllerRecord]
  /\ engine \in [Engines -> EngineRecord]
  /\ client \in [Controllers -> ClientRecord]
  /\ misused \in BOOLEAN
  /\ fault \in {"none", "bad_handler", "bad_free"}
  /\ \A r \in Controllers : Open(r) => controller[r].backend \in Backends

\* Until a controller is used before its init succeeded, whatever else the
\* client does, in any order: every initialized controller has an engine of
\* its own backend to itself, and no call is lost.  Init again, failed or
\* not, and the reuse of a freed engine's address do not break it.
EnginesNotShared ==
  ~misused =>
    /\ fault = "none"
    /\ \A r \in Controllers : Initialized(r) => Bound(r)
    /\ \A r, s \in Controllers :
         Initialized(r) /\ Initialized(s) /\ r # s => handler(r) # handler(s)

\* The documented client never loses a call and leaks no engine: every live
\* engine belongs to a controller it will free.
NothingLeaks ==
  /\ fault = "none"
  /\ \A e \in Engines :
       Live(e) => \E r \in Controllers : Initialized(r) /\ handler(r) = e

\* The index the client retrieves for a frame is within the quantizers it
\* configured last for that very controller, on the scale of that controller's
\* codec, however the calls to several controllers of several codecs interleave.
RetrievedAsConfigured ==
  \A r \in Controllers :
    client[r].step = "retrieved" =>
      LET scale == Qindex[controller[r].backend] IN
      client[r].got \in scale[client[r].wanted[1]] .. scale[client[r].wanted[2]]

EngineAt(e) == INSTANCE BrcEngine WITH
  Quantizers <- Qindices,
  status <- engine[e].status, range <- engine[e].range, qp <- engine[e].qp

\* The front and the documented client drive every engine only in the ways
\* BrcEngine allows, the order in which the engine models are checked.
ContractKept ==
  /\ \A e \in Engines : EngineAt(e)!Init
  /\ [][\A e \in Engines : [EngineAt(e)!Next]_(EngineAt(e)!vars)]_vars

\* What libmebo.c:385 says of new, that its result should be freed after use,
\* whatever init answered: freeing it never goes through a bad pointer.
FreeIsSafe == fault # "bad_free"

=============================================================================
