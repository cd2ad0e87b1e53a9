--------------------------- MODULE LibMebo_proofs ---------------------------
(***************************************************************************)
(* Proofs about LibMebo, for any number of controllers, engine addresses,  *)
(* backends and configurations.                                            *)
(***************************************************************************)
EXTENDS LibMebo, TLAPS

LEMMA ConfigTyped ==
  ASSUME NEW c \in Configs
  PROVE  c.range \in Quantizers \X Quantizers
  BY HeapAssumption DEF Config

\* The scale of every codec starts at 0 and is among the indices.
LEMMA ScaleTyped ==
  ASSUME NEW b \in Backends
  PROVE  MaxQ[b] \in Nat /\ 0 .. MaxQ[b] \subseteq Qindices
  BY TranslationAssumption DEF Qindices

\* Whatever scale a range is on, the indices between its ends are indices.
LEMMA BetweenTyped ==
  ASSUME NEW lo \in Qindices, NEW hi \in Qindices
  PROVE  lo .. hi \subseteq Qindices
<1>1. lo \in Nat /\ hi \in Nat
  BY TranslationAssumption DEF Qindices
<1>2. CASE hi = 0
  <2>1. lo .. hi \subseteq {0}
    BY <1>1, <1>2
  <2>2. QED
    BY <2>1 DEF Qindices
<1>3. CASE hi # 0
  <2>1. PICK b \in Backends : hi \in 0 .. MaxQ[b]
    BY <1>3 DEF Qindices
  <2>2. MaxQ[b] \in Nat /\ 0 .. MaxQ[b] \subseteq Qindices
    BY <2>1, ScaleTyped
  <2>3. lo .. hi \subseteq 0 .. MaxQ[b]
    BY <1>1, <2>1, <2>2
  <2>4. QED
    BY <2>2, <2>3
<1>4. QED
  BY <1>2, <1>3

LEMMA AnswersTyped ==
  ASSUME NEW b \in Backends, NEW rg \in Qindices \X Qindices
  PROVE  Answers(b, rg) \subseteq Qindices
<1>1. rg[1] .. rg[2] \subseteq Qindices
  BY BetweenTyped
<1>2. QED
  BY <1>1, ScaleTyped DEF Answers

\* A translated range is on the codec's scale, and ordered as the public one.
LEMMA TranslatedTyped ==
  ASSUME NEW b \in Backends, NEW rg \in Quantizers \X Quantizers
  PROVE  /\ Translated(b, rg) \in Qindices \X Qindices
         /\ rg[1] <= rg[2] => Translated(b, rg)[1] <= Translated(b, rg)[2]
<1>1. rg[1] \in Quantizers /\ rg[2] \in Quantizers
  OBVIOUS
<1>2. \A q \in Quantizers : Qindex[b][q] \in 0 .. MaxQ[b]
  BY TranslationAssumption
<1>3. Qindex[b][rg[1]] \in Qindices /\ Qindex[b][rg[2]] \in Qindices
  BY <1>1, <1>2, ScaleTyped
<1>4. rg[1] <= rg[2] => Qindex[b][rg[1]] <= Qindex[b][rg[2]]
  BY <1>1, TranslationAssumption
<1>5. QED
  BY <1>3, <1>4 DEF Translated

LEMMA BackendTyped ==
  ASSUME NEW codec, NEW algo, GetBackendImpl(codec, algo) # Unknown
  PROVE  GetBackendImpl(codec, algo) \in Backends
  BY DEF GetBackendImpl

LEMMA FreshTyped ==
  /\ NoController \in ControllerRecord /\ NoEngine \in EngineRecord
  /\ NoClient \in ClientRecord /\ NoClient.step = "none" /\ NoEngine.status = "none"
<1>1. 0 \in Quantizers /\ 0 \in Qindices
  BY HeapAssumption DEF Quantizers, Qindices
<1>2. NoController \in ControllerRecord
  BY DEF NoController, ControllerRecord, Codecs, Pointers
<1>3. NoEngine \in EngineRecord /\ NoEngine.status = "none"
  BY <1>1 DEF NoEngine, EngineRecord, Codecs
<1>4. NoClient \in ClientRecord /\ NoClient.step = "none"
  BY <1>1 DEF NoClient, ClientRecord, Steps
<1>5. QED
  BY <1>2, <1>3, <1>4

-----------------------------------------------------------------------------
(* Types, for any client. *)

Tables ==
  /\ controller \in [Controllers -> ControllerRecord]
  /\ engine \in [Engines -> EngineRecord]
  /\ client \in [Controllers -> ClientRecord]

\* What a step may change and keep the types: it opens a controller only with
\* a backend of the map.
LEMMA TablesTypeOK ==
  ASSUME TypeOK, Tables', misused' \in BOOLEAN,
         fault' \in {"none", "bad_handler", "bad_free"},
         \A r \in Controllers :
           \/ client'[r].step = "none"
           \/ controller'[r].backend \in Backends
           \/ Open(r) /\ controller'[r] = controller[r]
  PROVE  TypeOK'
  BY DEF TypeOK, Tables, Open

LEMMA InitTypeOK == Init => TypeOK
<1> SUFFICES ASSUME Init PROVE TypeOK
  OBVIOUS
<1>1. controller \in [Controllers -> ControllerRecord]
  BY FreshTyped DEF Init
<1>2. engine \in [Engines -> EngineRecord]
  BY FreshTyped DEF Init
<1>3. client \in [Controllers -> ClientRecord]
  BY FreshTyped DEF Init
<1>4. \A r \in Controllers : ~Open(r)
  BY FreshTyped DEF Init, Open
<1>5. QED
  BY <1>1, <1>2, <1>3, <1>4 DEF Init, TypeOK

LEMMA NewTypeOK ==
  ASSUME TypeOK, NEW r \in Controllers, NEW codec, NEW algo, New(r, codec, algo)
  PROVE  TypeOK'
<1>1. GetBackendImpl(codec, algo) \in Backends
  BY BackendTyped DEF New
<1>2. PICK garbage \in Pointers :
        controller' = [controller EXCEPT ![r] =
          [backend |-> GetBackendImpl(codec, algo), handler |-> garbage]]
  BY DEF New
<1>3. /\ client' = [client EXCEPT ![r].step = "new"]
      /\ UNCHANGED <<engine, misused, fault>>
  BY DEF New
<1>4. controller' \in [Controllers -> ControllerRecord]
  BY <1>1, <1>2 DEF TypeOK, Codecs, ControllerRecord
<1>5. client' \in [Controllers -> ClientRecord]
  BY <1>3 DEF TypeOK, Steps, ClientRecord
<1>6. \A s \in Controllers :
        \/ client'[s].step = "none"
        \/ controller'[s].backend \in Backends
        \/ Open(s) /\ controller'[s] = controller[s]
  BY <1>1, <1>2, <1>3 DEF TypeOK, Open
<1>7. QED
  BY <1>3, <1>4, <1>5, <1>6, TablesTypeOK DEF TypeOK, Tables

LEMMA InitControllerTypeOK ==
  ASSUME TypeOK, NEW r \in Controllers, NEW c \in Configs, InitController(r, c)
  PROVE  TypeOK'
<1>1. Open(r) /\ UNCHANGED <<misused, fault>> /\ controller[r].backend \in Backends
  BY DEF InitController, TypeOK
<1>2. CASE InitSucceeds(r, c)
  <2>1. PICK e \in Engines :
          /\ engine' = [engine EXCEPT ![e] =
               [status |-> "ready", backend |-> controller[r].backend,
                range |-> Translated(controller[r].backend, c.range), qp |-> 0]]
          /\ controller' = [controller EXCEPT ![r].handler = e]
    BY <1>2 DEF InitSucceeds
  <2>2. client' = [client EXCEPT ![r].step = "ready", ![r].wanted = c.range]
    BY <1>2 DEF InitSucceeds
  <2>3. /\ c.range \in Quantizers \X Quantizers /\ 0 \in Qindices
        /\ Translated(controller[r].backend, c.range) \in Qindices \X Qindices
    BY <1>1, ConfigTyped, TranslatedTyped DEF Qindices
  <2>4. engine' \in [Engines -> EngineRecord]
    BY <1>1, <2>1, <2>3 DEF TypeOK, EngineRecord, Codecs
  <2>5. controller' \in [Controllers -> ControllerRecord]
    BY <2>1 DEF TypeOK, ControllerRecord, Pointers
  <2>6. client' \in [Controllers -> ClientRecord]
    BY <2>2, <2>3, ZenonT(60) DEF TypeOK, ClientRecord, Steps
  <2>7. \A s \in Controllers : s # r =>
          controller'[s] = controller[s] /\ client'[s] = client[s]
    BY <2>1, <2>2 DEF TypeOK
  <2>8. controller'[r].backend \in Backends
    BY <1>1, <2>1 DEF TypeOK, ControllerRecord
  <2>9. QED
    BY <1>1, <2>4, <2>5, <2>6, <2>7, <2>8, TablesTypeOK DEF TypeOK, Tables, Open
<1>3. CASE InitFails(r)
  <2>1. client' \in [Controllers -> ClientRecord]
    BY <1>3 DEF InitFails, TypeOK, ClientRecord, Steps
  <2>2. \A s \in Controllers : s # r => client'[s] = client[s]
    BY <1>3 DEF InitFails, TypeOK
  <2>3. QED
    BY <1>1, <1>3, <2>1, <2>2, TablesTypeOK DEF InitFails, TypeOK, Tables, Open
<1>4. QED
  BY <1>2, <1>3 DEF InitController

\* A call that reaches an engine, whatever it stores there, or is lost.
LEMMA CallTypeOK ==
  ASSUME TypeOK, NEW r \in Controllers, Call(r),
         engine' \in [Engines -> EngineRecord], client' \in [Controllers -> ClientRecord],
         fault' \in {fault, "bad_handler"},
         \A s \in Controllers : s # r => client'[s] = client[s]
  PROVE  TypeOK'
<1>1. Open(r) /\ UNCHANGED controller /\ misused' \in BOOLEAN
  BY DEF Call, TypeOK
<1>2. QED
  BY <1>1, TablesTypeOK DEF TypeOK, Tables, Open

LEMMA UpdateConfigTypeOK ==
  ASSUME TypeOK, NEW r \in Controllers, NEW c \in Configs, UpdateConfig(r, c)
  PROVE  TypeOK'
<1>1. CASE /\ Bound(r)
           /\ engine' = [engine EXCEPT ![handler(r)].range =
                Translated(controller[r].backend, c.range)]
           /\ client' = [client EXCEPT ![r].wanted = c.range]
           /\ fault' = fault
  <2>1. /\ handler(r) \in Engines /\ c.range \in Quantizers \X Quantizers
        /\ Translated(controller[r].backend, c.range) \in Qindices \X Qindices
    <3>1. controller[r].backend \in Backends
      BY DEF UpdateConfig, Call, TypeOK
    <3>2. QED
      BY <1>1, <3>1, ConfigTyped, TranslatedTyped DEF Bound
  <2>2. engine' \in [Engines -> EngineRecord]
    BY <1>1, <2>1 DEF TypeOK, EngineRecord
  <2>3. client' \in [Controllers -> ClientRecord]
    BY <1>1, <2>1 DEF TypeOK, ClientRecord
  <2>4. \A s \in Controllers : s # r => client'[s] = client[s]
    BY <1>1 DEF TypeOK
  <2>5. QED
    BY <1>1, <2>2, <2>3, <2>4, CallTypeOK DEF UpdateConfig
<1>2. CASE Lost(r)
  BY <1>2, CallTypeOK DEF UpdateConfig, Lost, TypeOK
<1>3. QED
  BY <1>1, <1>2 DEF UpdateConfig

\* The client's note of how far it is.
LEMMA StepTyped ==
  ASSUME TypeOK, NEW r \in Controllers, NEW step \in Steps,
         client' = [client EXCEPT ![r].step = step]
  PROVE  /\ client' \in [Controllers -> ClientRecord] /\ client'[r].step = step
         /\ \A s \in Controllers : s # r => client'[s] = client[s]
  BY DEF TypeOK, ClientRecord

LEMMA ReachedTyped ==
  ASSUME TypeOK, NEW r \in Controllers, NEW step \in Steps, Reached(r, step)
  PROVE  /\ client' \in [Controllers -> ClientRecord]
         /\ \A s \in Controllers : s # r => client'[s] = client[s]
         /\ handler(r) \in Engines /\ engine[handler(r)] \in EngineRecord
<1>1. client[r].step \in Steps
  BY DEF TypeOK, ClientRecord
<1>2. PICK new \in Steps : client' = [client EXCEPT ![r].step = new]
  BY <1>1 DEF Reached, TypeOK, ClientRecord
<1>3. handler(r) \in Engines
  BY DEF Reached, Bound
<1>4. QED
  BY <1>2, <1>3, StepTyped DEF TypeOK

LEMMA ComputeQpTypeOK ==
  ASSUME TypeOK, NEW r \in Controllers, ComputeQp(r)
  PROVE  TypeOK'
<1>1. CASE Lost(r)
  BY <1>1, CallTypeOK DEF ComputeQp, Lost, TypeOK
<1>2. CASE ~Lost(r)
  <2>1. Reached(r, "computed")
    BY <1>2 DEF ComputeQp
  <2>2. PICK q \in Answers(controller[r].backend, Handled(r).range) :
          engine' = [engine EXCEPT ![handler(r)].status = "computed",
                                   ![handler(r)].qp = q]
    BY <1>2 DEF ComputeQp
  <2>3. /\ client' \in [Controllers -> ClientRecord]
        /\ \A s \in Controllers : s # r => client'[s] = client[s]
        /\ handler(r) \in Engines /\ engine[handler(r)] \in EngineRecord
    BY <2>1, ReachedTyped DEF Steps
  <2>4. q \in Qindices
    <3>1. Handled(r).range \in Qindices \X Qindices
      BY <2>3 DEF EngineRecord, Handled
    <3>2. controller[r].backend \in Backends
      BY DEF ComputeQp, Call, TypeOK
    <3>3. QED
      BY <2>2, <3>1, <3>2, AnswersTyped
  <2>5. engine' \in [Engines -> EngineRecord]
    BY <2>2, <2>3, <2>4 DEF TypeOK, EngineRecord
  <2>6. QED
    BY <2>1, <2>3, <2>5, CallTypeOK DEF ComputeQp, Reached
<1>3. QED
  BY <1>1, <1>2

LEMMA GetQpTypeOK ==
  ASSUME TypeOK, NEW r \in Controllers, GetQp(r)
  PROVE  TypeOK'
<1>1. CASE Lost(r)
  BY <1>1, CallTypeOK DEF GetQp, Lost, TypeOK
<1>2. CASE ~Lost(r)
  <2>1. /\ Bound(r) /\ UNCHANGED <<engine, fault>>
        /\ client' = [client EXCEPT ![r].step = IF Initialized(r) THEN "retrieved" ELSE @,
                                    ![r].got = Handled(r).qp]
    BY <1>2 DEF GetQp
  <2>2. Handled(r).qp \in Qindices
    BY <2>1 DEF Bound, Handled, TypeOK, EngineRecord
  <2>3. client' \in [Controllers -> ClientRecord]
    <3>1. client[r].step \in Steps
      BY DEF TypeOK, ClientRecord
    <3>2. PICK new \in Steps :
            client' = [client EXCEPT ![r].step = new, ![r].got = Handled(r).qp]
      <4>1. CASE Initialized(r)
        BY <2>1, <4>1 DEF Steps
      <4>2. CASE ~Initialized(r)
        BY <2>1, <3>1, <4>2
      <4>3. QED
        BY <4>1, <4>2
    <3>3. QED
      BY <2>2, <3>2 DEF TypeOK, ClientRecord
  <2>4. \A s \in Controllers : s # r => client'[s] = client[s]
    BY <2>1 DEF TypeOK
  <2>5. QED
    BY <2>1, <2>3, <2>4, CallTypeOK DEF GetQp, TypeOK
<1>3. QED
  BY <1>1, <1>2

LEMMA GetLoopFilterLevelTypeOK ==
  ASSUME TypeOK, NEW r \in Controllers, GetLoopFilterLevel(r)
  PROVE  TypeOK'
<1>1. /\ UNCHANGED <<engine, client>>
      /\ fault' \in {"none", "bad_handler", "bad_free"}
  BY DEF GetLoopFilterLevel, Lost, TypeOK
<1>2. UNCHANGED <<engine, client, controller>> /\ misused' \in BOOLEAN
  <2>1. Call(r)
    BY DEF GetLoopFilterLevel
  <2>2. QED
    BY <1>1, <2>1 DEF Call, TypeOK
<1>3. QED
  BY <1>1, <1>2 DEF TypeOK, Open

LEMMA PostEncodeUpdateTypeOK ==
  ASSUME TypeOK, NEW r \in Controllers, PostEncodeUpdate(r)
  PROVE  TypeOK'
<1>1. CASE Lost(r)
  BY <1>1, CallTypeOK DEF PostEncodeUpdate, Lost, TypeOK
<1>2. CASE ~Lost(r)
  <2>1. /\ Reached(r, "ready")
        /\ engine' = [engine EXCEPT ![handler(r)].status = "ready"]
    BY <1>2 DEF PostEncodeUpdate
  <2>2. /\ client' \in [Controllers -> ClientRecord]
        /\ \A s \in Controllers : s # r => client'[s] = client[s]
        /\ handler(r) \in Engines
    BY <2>1, ReachedTyped DEF Steps
  <2>3. engine' \in [Engines -> EngineRecord]
    BY <2>1, <2>2 DEF TypeOK, EngineRecord
  <2>4. QED
    BY <2>1, <2>2, <2>3, CallTypeOK DEF PostEncodeUpdate, Reached
<1>3. QED
  BY <1>1, <1>2

LEMMA FreeTypeOK ==
  ASSUME TypeOK, NEW r \in Controllers, Free(r)
  PROVE  TypeOK'
<1>1. /\ controller' = [controller EXCEPT ![r] = NoController]
      /\ client' = [client EXCEPT ![r] = NoClient]
      /\ misused' \in BOOLEAN /\ fault' \in {fault, "bad_free"}
      /\ \/ UNCHANGED engine
         \/ handler(r) \in Engines /\ engine' = [engine EXCEPT ![handler(r)] = NoEngine]
  BY DEF Free, TypeOK
<1>2. controller' \in [Controllers -> ControllerRecord]
  BY <1>1, FreshTyped DEF TypeOK
<1>3. client' \in [Controllers -> ClientRecord] /\ client'[r].step = "none"
  BY <1>1, FreshTyped DEF TypeOK
<1>4. engine' \in [Engines -> EngineRecord]
  BY <1>1, FreshTyped DEF TypeOK
<1>5. \A s \in Controllers : s # r =>
        controller'[s] = controller[s] /\ client'[s] = client[s]
  BY <1>1 DEF TypeOK
<1>6. QED
  BY <1>1, <1>2, <1>3, <1>4, <1>5, TablesTypeOK DEF TypeOK, Tables, Open

LEMMA NextTypeOK == TypeOK /\ [AnyNext]_vars => TypeOK'
<1> SUFFICES ASSUME TypeOK, [AnyNext]_vars PROVE TypeOK'
  OBVIOUS
<1>1. CASE UNCHANGED vars
  BY <1>1 DEF vars, TypeOK, Open
<1>2. CASE AnyNext
  BY <1>2, NewTypeOK, InitControllerTypeOK, UpdateConfigTypeOK, ComputeQpTypeOK,
     GetQpTypeOK, GetLoopFilterLevelTypeOK, PostEncodeUpdateTypeOK, FreeTypeOK DEF AnyNext
<1>3. QED
  BY <1>1, <1>2

\* Whatever the client calls, and whatever malloc leaves in a new controller,
\* an open controller has a backend of the map.
THEOREM TypeCorrect == AnySpec => []TypeOK
  BY InitTypeOK, NextTypeOK, PTL DEF AnySpec

-----------------------------------------------------------------------------
(* Engines are not shared, for any client that misuses no controller. *)

\* A step through the handler of an initialized controller keeps every engine
\* live and of its backend, and initializes no other controller.
LEMMA KeepsNotShared ==
  ASSUME TypeOK, EnginesNotShared, ~misused, UNCHANGED <<controller, fault>>,
         \A s \in Controllers : Initialized(s)' => Initialized(s),
         \A e \in Engines : Live(e) => Live(e)' /\ engine'[e].backend = engine[e].backend
  PROVE  EnginesNotShared'
<1>1. \A s \in Controllers : Initialized(s) => Bound(s)
  BY DEF EnginesNotShared
<1>2. \A s \in Controllers : Bound(s) => Bound(s)'
  BY DEF Bound, handler, Handled
<1>3. \A s, t \in Controllers :
        Initialized(s)' /\ Initialized(t)' /\ s # t => handler(s)' # handler(t)'
  BY DEF EnginesNotShared, handler
<1>4. QED
  BY <1>1, <1>2, <1>3 DEF EnginesNotShared

LEMMA CallNotShared ==
  ASSUME TypeOK, EnginesNotShared, NEW r \in Controllers, Call(r), ~misused',
         \/ UNCHANGED engine
         \/ \E c : engine' = [engine EXCEPT ![handler(r)].range = c]
         \/ \E st \in {"ready", "computed"} :
              engine' = [engine EXCEPT ![handler(r)].status = st]
         \/ \E q : engine' = [engine EXCEPT ![handler(r)].status = "computed",
                                            ![handler(r)].qp = q],
         fault' = fault,
         \A s \in Controllers : Initialized(s)' => Initialized(s)
  PROVE  EnginesNotShared'
<1>1. ~misused /\ Initialized(r) /\ UNCHANGED controller
  BY DEF Call, TypeOK
<1>2. handler(r) \in Engines /\ Live(handler(r))
  BY <1>1 DEF EnginesNotShared, Bound
<1>3. \A e \in Engines : Live(e) => Live(e)' /\ engine'[e].backend = engine[e].backend
  BY <1>2 DEF TypeOK, EngineRecord, Live
<1>4. QED
  BY <1>1, <1>3, KeepsNotShared

LEMMA CallsNotShared ==
  ASSUME TypeOK, EnginesNotShared, NEW r \in Controllers, ~misused',
         \/ \E c \in Configs : UpdateConfig(r, c)
         \/ ComputeQp(r) \/ GetQp(r) \/ GetLoopFilterLevel(r) \/ PostEncodeUpdate(r)
  PROVE  EnginesNotShared'
<1>1. Call(r) /\ ~misused /\ Initialized(r)
  BY DEF UpdateConfig, ComputeQp, GetQp, GetLoopFilterLevel, PostEncodeUpdate, Call, TypeOK
<1>2. ~Lost(r)
  BY <1>1 DEF EnginesNotShared, Lost
<1>3. \A s \in Controllers : Initialized(s)' => Initialized(s)
  <2>1. \A s \in Controllers : s # r => client'[s].step = client[s].step
    BY <1>2 DEF UpdateConfig, ComputeQp, GetQp, GetLoopFilterLevel, PostEncodeUpdate,
       Reached, TypeOK, ClientRecord
  <2>2. QED
    BY <1>1, <2>1 DEF Initialized
<1>4. QED
  BY <1>1, <1>2, <1>3, CallNotShared
     DEF UpdateConfig, ComputeQp, GetQp, GetLoopFilterLevel, PostEncodeUpdate, Reached

\* A fresh engine is nobody's, and no failed init touches a handler.
LEMMA InitControllerNotShared ==
  ASSUME TypeOK, EnginesNotShared, NEW r \in Controllers, NEW c \in Configs,
         InitController(r, c), ~misused
  PROVE  EnginesNotShared'
<1>1. fault' = fault /\ controller \in [Controllers -> ControllerRecord]
  BY DEF InitController, TypeOK
<1>2. CASE InitSucceeds(r, c)
  <2>1. PICK e \in Engines :
          /\ ~Live(e)
          /\ engine' = [engine EXCEPT ![e] =
               [status |-> "ready", backend |-> controller[r].backend,
                range |-> Translated(controller[r].backend, c.range), qp |-> 0]]
          /\ controller' = [controller EXCEPT ![r].handler = e]
    BY <1>2 DEF InitSucceeds
  <2>2. client' = [client EXCEPT ![r].step = "ready", ![r].wanted = c.range]
    BY <1>2 DEF InitSucceeds
  <2>3. /\ handler(r)' = e /\ Live(e)' /\ Bound(r)'
        /\ \A s \in Controllers : s # r => handler(s)' = handler(s)
    BY <1>1, <2>1 DEF ControllerRecord, handler, Handled, Live, Bound, TypeOK
  <2>4. ASSUME NEW s \in Controllers, s # r, Initialized(s)'
        PROVE  Initialized(s) /\ Bound(s)' /\ handler(s)' # e
    <3>1. Initialized(s)
      BY <2>2, <2>4 DEF Initialized, TypeOK
    <3>2. Bound(s) /\ handler(s) # e
      BY <2>1, <3>1 DEF EnginesNotShared, Bound
    <3>3. Bound(s)'
      BY <2>1, <2>4, <3>2 DEF Bound, handler, Handled, Live, TypeOK
    <3>4. QED
      BY <2>3, <2>4, <3>1, <3>2, <3>3
  <2>5. QED
    BY <1>1, <2>3, <2>4 DEF EnginesNotShared
<1>3. CASE InitFails(r)
  <2>1. \A s \in Controllers : Initialized(s)' => Initialized(s)
    BY <1>3 DEF InitFails, Initialized, TypeOK, ClientRecord
  <2>2. \A e \in Engines : Live(e) => Live(e)' /\ engine'[e].backend = engine[e].backend
    BY <1>3 DEF InitFails, Live
  <2>3. QED
    BY <1>1, <1>3, <2>1, <2>2, KeepsNotShared DEF InitFails
<1>4. QED
  BY <1>2, <1>3 DEF InitController

LEMMA NewNotShared ==
  ASSUME TypeOK, EnginesNotShared, NEW r \in Controllers, NEW codec, NEW algo,
         New(r, codec, algo), ~misused
  PROVE  EnginesNotShared'
<1>1. /\ \A s \in Controllers : s # r =>
           controller'[s] = controller[s] /\ client'[s] = client[s]
      /\ client'[r].step = "new" /\ UNCHANGED <<engine, fault>>
  BY DEF New, TypeOK, ClientRecord
<1>2. \A s \in Controllers : Initialized(s)' =>
        s # r /\ Initialized(s) /\ handler(s)' = handler(s) /\ Bound(s)'
  BY <1>1 DEF Initialized, EnginesNotShared, Bound, handler, Handled, Live
<1>3. QED
  BY <1>1, <1>2 DEF EnginesNotShared

LEMMA FreeNotShared ==
  ASSUME TypeOK, EnginesNotShared, NEW r \in Controllers, Free(r), ~misused'
  PROVE  EnginesNotShared'
<1>1. Initialized(r) /\ ~misused
  BY DEF Free, TypeOK
<1>2. Bound(r)
  BY <1>1 DEF EnginesNotShared
<1>3. handler(r) # Null
  BY <1>2, HeapAssumption DEF Bound
<1>4. /\ engine' = [engine EXCEPT ![handler(r)] = NoEngine] /\ fault' = fault
      /\ controller' = [controller EXCEPT ![r] = NoController]
      /\ client' = [client EXCEPT ![r] = NoClient]
  BY <1>2, <1>3 DEF Free, Bound
<1>5. ~Initialized(r)'
  BY <1>4, FreshTyped DEF Initialized, TypeOK
<1>6. ASSUME NEW s \in Controllers, s # r, Initialized(s)'
      PROVE  Initialized(s) /\ Bound(s)' /\ handler(s)' = handler(s)
  <2>1. Initialized(s)
    BY <1>4, <1>6 DEF Initialized, TypeOK
  <2>2. Bound(s) /\ handler(s) # handler(r)
    BY <1>1, <1>6, <2>1 DEF EnginesNotShared
  <2>3. controller'[s] = controller[s]
    BY <1>4, <1>6 DEF TypeOK
  <2>4. engine'[handler(s)] = engine[handler(s)]
    BY <1>4, <2>2 DEF TypeOK, Bound
  <2>5. QED
    BY <2>1, <2>2, <2>3, <2>4 DEF Bound, handler, Handled, Live
<1>7. QED
  BY <1>1, <1>4, <1>5, <1>6 DEF EnginesNotShared

LEMMA NextNotShared ==
  TypeOK /\ EnginesNotShared /\ [AnyNext]_vars => EnginesNotShared'
<1> SUFFICES ASSUME TypeOK, EnginesNotShared, [AnyNext]_vars, ~misused'
             PROVE  EnginesNotShared'
  BY DEF EnginesNotShared
<1>1. ~misused
  BY DEF AnyNext, New, InitController, UpdateConfig, ComputeQp, GetQp,
     GetLoopFilterLevel, PostEncodeUpdate,
     Call, Free, vars, TypeOK
<1>2. CASE UNCHANGED vars
  BY <1>1, <1>2, KeepsNotShared DEF vars, Initialized, Live
<1>3. CASE AnyNext
  BY <1>1, <1>3, NewNotShared, InitControllerNotShared, CallsNotShared, FreeNotShared
     DEF AnyNext
<1>4. QED
  BY <1>2, <1>3

LEMMA InitNotShared == Init => EnginesNotShared
  BY FreshTyped DEF Init, EnginesNotShared, Initialized

\* Until a controller is used before its init succeeded, no two controllers
\* share an engine and no call is lost, whatever the client does.
THEOREM EnginesNeverShared == AnySpec => []EnginesNotShared
  BY InitTypeOK, NextTypeOK, InitNotShared, NextNotShared, PTL DEF AnySpec

-----------------------------------------------------------------------------
(* Nothing leaks, for the documented client. *)

LoopInv == TypeOK /\ EnginesNotShared /\ ~misused /\ NothingLeaks

LEMMA NextAny == Next => AnyNext
  BY DEF Next, Loop, AnyNext

LEMMA NextNotMisused ==
  ASSUME TypeOK, ~misused, [Next]_vars
  PROVE  ~misused'
  BY DEF Next, Loop, New, InitController, UpdateConfig, ComputeQp, GetQp, GetLoopFilterLevel,
     PostEncodeUpdate, Call, Free, Initialized, vars, TypeOK

\* A step after which no engine lives that did not, and every controller that
\* was initialized still is, with the same handler.
LEMMA KeepsNothingLeaks ==
  ASSUME NothingLeaks, fault' = "none",
         \A e \in Engines : Live(e)' => Live(e),
         \A r \in Controllers :
           Initialized(r) => Initialized(r)' /\ handler(r)' = handler(r)
  PROVE  NothingLeaks'
  BY DEF NothingLeaks

LEMMA CallsNothingLeaks ==
  ASSUME LoopInv, NEW r \in Controllers, fault' = "none", Initialized(r),
         \/ \E c \in Configs : UpdateConfig(r, c)
         \/ ComputeQp(r) \/ GetQp(r) \/ GetLoopFilterLevel(r) \/ PostEncodeUpdate(r)
  PROVE  NothingLeaks'
<1>1. TypeOK /\ NothingLeaks /\ Bound(r)
  BY DEF LoopInv, EnginesNotShared
<1>2. UNCHANGED controller /\ ~Lost(r)
  BY <1>1 DEF UpdateConfig, ComputeQp, GetQp, GetLoopFilterLevel, PostEncodeUpdate, Call, Lost
<1>3. \A e \in Engines : Live(e)' => Live(e)
  BY <1>1, <1>2 DEF UpdateConfig, ComputeQp, GetQp, GetLoopFilterLevel, PostEncodeUpdate,
     Bound, Live,
     TypeOK, EngineRecord
<1>4. \A s \in Controllers : Initialized(s) => Initialized(s)'
  <2>1. CASE GetLoopFilterLevel(r)
    BY <2>1 DEF GetLoopFilterLevel, Initialized
  <2>2. ASSUME NEW c \in Configs, UpdateConfig(r, c)
        PROVE  \A s \in Controllers : client'[s].step = client[s].step
    BY <1>1, <1>2, <2>2 DEF UpdateConfig, TypeOK, ClientRecord
  <2>3. ASSUME NEW step \in {"ready", "computed"}, Reached(r, step)
        PROVE  \A s \in Controllers : client'[s].step \in {client[s].step, step}
    BY <1>1, <2>3 DEF Reached, TypeOK, ClientRecord
  <2>4. CASE GetQp(r)
    <3>1. \A s \in Controllers : client'[s].step \in {client[s].step, "retrieved"}
      BY <1>1, <1>2, <2>4 DEF GetQp, TypeOK, ClientRecord
    <3>2. QED
      BY <3>1 DEF Initialized
  <2>5. CASE ComputeQp(r)
    BY <1>2, <2>3, <2>5 DEF ComputeQp, Initialized
  <2>6. CASE PostEncodeUpdate(r)
    BY <1>2, <2>3, <2>6 DEF PostEncodeUpdate, Initialized
  <2>7. QED
    BY <2>1, <2>2, <2>4, <2>5, <2>6 DEF Initialized
<1>5. QED
  BY <1>1, <1>2, <1>3, <1>4, KeepsNothingLeaks DEF handler

LEMMA FreeNothingLeaks ==
  ASSUME LoopInv, NEW r \in Controllers, fault' = "none", Initialized(r), Free(r)
  PROVE  NothingLeaks'
<1>1. TypeOK /\ NothingLeaks /\ Bound(r)
  BY DEF LoopInv, EnginesNotShared
<1>2. handler(r) # Null /\ handler(r) \in Engines
  BY <1>1, HeapAssumption DEF Bound
<1>3. /\ engine' = [engine EXCEPT ![handler(r)] = NoEngine]
      /\ controller' = [controller EXCEPT ![r] = NoController]
      /\ client' = [client EXCEPT ![r] = NoClient]
  BY <1>1, <1>2 DEF Free, Bound
<1>4. ASSUME NEW e \in Engines, Live(e)'
      PROVE  \E s \in Controllers : Initialized(s)' /\ handler(s)' = e
  <2>1. e # handler(r) /\ Live(e)
    <3>1. engine'[handler(r)].status = "none"
      BY <1>1, <1>2, <1>3, FreshTyped DEF TypeOK
    <3>2. e # handler(r)
      BY <1>4, <3>1 DEF Live
    <3>3. engine'[e] = engine[e]
      BY <1>1, <1>3, <3>2 DEF TypeOK
    <3>4. QED
      BY <1>4, <3>2, <3>3 DEF Live
  <2>2. PICK s \in Controllers : Initialized(s) /\ handler(s) = e
    BY <1>1, <2>1 DEF NothingLeaks
  <2>3. Initialized(s)' /\ handler(s)' = e
    BY <1>1, <1>3, <2>1, <2>2 DEF Initialized, handler, TypeOK
  <2>4. QED
    BY <2>3
<1>5. QED
  BY <1>4 DEF NothingLeaks

LEMMA NewNothingLeaks ==
  ASSUME LoopInv, NEW r \in Controllers, fault' = "none", NEW codec, NEW algo,
         New(r, codec, algo)
  PROVE  NothingLeaks'
<1>1. TypeOK /\ NothingLeaks
  BY DEF LoopInv
<1>2. \A s \in Controllers : Initialized(s) =>
        /\ s # r
        /\ controller'[s] = controller[s] /\ client'[s] = client[s]
  BY <1>1 DEF New, Open, Initialized, TypeOK
<1>3. UNCHANGED engine
  BY DEF New
<1>4. QED
  BY <1>1, <1>2, <1>3, KeepsNothingLeaks DEF Initialized, handler, Live

LEMMA InitControllerNothingLeaks ==
  ASSUME LoopInv, NEW r \in Controllers, fault' = "none", NEW c \in Configs,
         client[r].step \in {"new", "failed"}, InitController(r, c)
  PROVE  NothingLeaks'
<1>1. TypeOK /\ NothingLeaks /\ ~Initialized(r)
  BY DEF LoopInv, Initialized
<1>2. CASE InitFails(r)
  BY <1>1, <1>2, KeepsNothingLeaks DEF InitFails, Initialized, handler, Live, TypeOK
<1>3. CASE InitSucceeds(r, c)
  <2>1. PICK e \in Engines :
          /\ engine' = [engine EXCEPT ![e] =
               [status |-> "ready", backend |-> controller[r].backend,
                range |-> Translated(controller[r].backend, c.range), qp |-> 0]]
          /\ controller' = [controller EXCEPT ![r].handler = e]
    BY <1>3 DEF InitSucceeds
  <2>2. client' = [client EXCEPT ![r].step = "ready", ![r].wanted = c.range]
    BY <1>3 DEF InitSucceeds
  <2>3. Initialized(r)' /\ handler(r)' = e
    BY <1>1, <2>1, <2>2 DEF Initialized, handler, TypeOK, ClientRecord, ControllerRecord
  <2>4. ASSUME NEW d \in Engines, d # e, Live(d)'
        PROVE  \E s \in Controllers : Initialized(s)' /\ handler(s)' = d
    <3>1. Live(d)
      BY <1>1, <2>1, <2>4 DEF Live, TypeOK
    <3>2. PICK s \in Controllers : Initialized(s) /\ handler(s) = d
      BY <1>1, <3>1 DEF NothingLeaks
    <3>3. Initialized(s)' /\ handler(s)' = d
      BY <1>1, <2>1, <2>2, <3>2 DEF Initialized, handler, TypeOK
    <3>4. QED
      BY <3>3
  <2>5. QED
    BY <2>3, <2>4 DEF NothingLeaks
<1>4. QED
  BY <1>2, <1>3 DEF InitController

LEMMA NextLoopInv == LoopInv /\ [Next]_vars => LoopInv'
<1> SUFFICES ASSUME LoopInv, [Next]_vars PROVE LoopInv'
  OBVIOUS
<1>1. TypeOK' /\ EnginesNotShared' /\ ~misused'
  BY NextAny, NextTypeOK, NextNotShared, NextNotMisused DEF LoopInv
<1>2. fault' = "none"
  BY <1>1 DEF EnginesNotShared
<1>3. CASE UNCHANGED vars
  <2>1. UNCHANGED <<controller, engine, client>>
    BY <1>3 DEF vars
  <2>2. \A e \in Engines : Live(e)' => Live(e)
    BY <2>1 DEF Live
  <2>3. \A r \in Controllers :
          Initialized(r) => Initialized(r)' /\ handler(r)' = handler(r)
    BY <2>1 DEF Initialized, handler
  <2>4. NothingLeaks'
    BY <1>2, <2>2, <2>3, KeepsNothingLeaks DEF LoopInv
  <2>5. QED
    BY <1>1, <2>4 DEF LoopInv
<1>4. ASSUME NEW r \in Controllers, Loop(r) PROVE NothingLeaks'
  <2>1. CASE \E codec \in Codecs, algo \in Algorithms : New(r, codec, algo)
    BY <1>2, <2>1, NewNothingLeaks
  <2>2. CASE /\ client[r].step \in {"new", "failed"}
             /\ \E c \in Configs : InitController(r, c)
    BY <1>2, <2>2, InitControllerNothingLeaks
  <2>3. CASE /\ Initialized(r)
             /\ \/ \E c \in Configs : UpdateConfig(r, c)
                \/ ComputeQp(r) \/ GetQp(r) \/ GetLoopFilterLevel(r) \/ PostEncodeUpdate(r)
    BY <1>2, <2>3, CallsNothingLeaks
  <2>4. CASE Initialized(r) /\ Free(r)
    BY <1>2, <2>4, FreeNothingLeaks
  <2>5. QED
    BY <1>4, <2>1, <2>2, <2>3, <2>4 DEF Loop, Initialized
<1>5. CASE Next
  BY <1>1, <1>4, <1>5 DEF Next, LoopInv
<1>6. QED
  BY <1>3, <1>5

LEMMA InitLoopInv == Init => LoopInv
  BY InitTypeOK, InitNotShared, FreshTyped DEF Init, LoopInv, NothingLeaks, Live

\* The documented client loses no call and leaks no engine.
THEOREM NothingEverLeaks == Spec => []NothingLeaks
<1>1. LoopInv => NothingLeaks
  BY DEF LoopInv
<1>2. QED
  BY <1>1, InitLoopInv, NextLoopInv, PTL DEF Spec

-----------------------------------------------------------------------------
(* What the client retrieves, for the documented client. *)

\* The engine of an initialized controller has the range the client asked for
\* last, on the scale of its codec, and is as far as the client is.
Answered(r) ==
  /\ Handled(r).range = Translated(controller[r].backend, client[r].wanted)
  /\ Handled(r).range[1] <= Handled(r).range[2]
  /\ client[r].step = "ready" => Handled(r).status = "ready"
  /\ client[r].step = "computed" =>
       /\ Handled(r).status = "computed"
       /\ Handled(r).qp \in Handled(r).range[1] .. Handled(r).range[2]
  /\ client[r].step = "retrieved" =>
       /\ Handled(r).status = "computed"
       /\ client[r].got \in Handled(r).range[1] .. Handled(r).range[2]

AnswersHold == \A r \in Controllers : Initialized(r) => Answered(r)

AnswerInv == LoopInv /\ AnswersHold

EngineStep == \A e \in Engines : [EngineAt(e)!Next]_(EngineAt(e)!vars)

\* A step of controller r leaves every other initialized controller, what its
\* client knows and its engine alone.
OthersUntouched(r) ==
  \A s \in Controllers \ {r} :
    Initialized(s)' =>
      /\ Initialized(s)
      /\ client'[s] = client[s] /\ controller'[s] = controller[s]
      /\ engine'[handler(s)] = engine[handler(s)]

LEMMA AnswersKept ==
  ASSUME AnswerInv, NEW r \in Controllers, OthersUntouched(r),
         Initialized(r)' => Answered(r)'
  PROVE  AnswersHold'
<1>1. ASSUME NEW s \in Controllers, s # r, Initialized(s)' PROVE Answered(s)'
  <2>1. /\ Initialized(s) /\ client'[s] = client[s] /\ controller'[s] = controller[s]
        /\ engine'[handler(s)] = engine[handler(s)]
    BY <1>1 DEF OthersUntouched
  <2>2. Handled(s)' = Handled(s)
    BY <2>1 DEF Handled, handler
  <2>3. Answered(s)
    BY <2>1 DEF AnswerInv, AnswersHold
  <2>4. QED
    BY <2>1, <2>2, <2>3 DEF Answered
<1>2. QED
  BY <1>1 DEF AnswersHold

\* The step is one of the engine at one address, and of no other engine.
LEMMA OneEngineSteps ==
  ASSUME NEW d \in Engines,
         \A e \in Engines : e # d => engine'[e] = engine[e],
         EngineAt(d)!Next \/ engine'[d] = engine[d]
  PROVE  EngineStep
<1>1. ASSUME NEW e \in Engines PROVE [EngineAt(e)!Next]_(EngineAt(e)!vars)
  BY <1>1 DEF EngineAt!vars
<1>2. QED
  BY <1>1 DEF EngineStep

\* An initialized controller and its engine, which is no other controller's.
LEMMA OwnEngine ==
  ASSUME LoopInv, NEW r \in Controllers, Initialized(r)
  PROVE  /\ handler(r) \in Engines /\ Bound(r)
         /\ \A s \in Controllers : s # r /\ Initialized(s) =>
              handler(s) \in Engines /\ handler(s) # handler(r)
  BY DEF LoopInv, EnginesNotShared, Bound

\* A call that reaches the engine of r, stores there and tells its client.
LEMMA CallTouches ==
  ASSUME AnswerInv, NEW r \in Controllers, Initialized(r), UNCHANGED controller,
         \A e \in Engines : e # handler(r) => engine'[e] = engine[e],
         \A s \in Controllers : s # r => client'[s] = client[s]
  PROVE  OthersUntouched(r) /\ Handled(r)' = engine'[handler(r)]
<1>1. \A s \in Controllers : s # r /\ Initialized(s) =>
        handler(s) \in Engines /\ handler(s) # handler(r)
  BY OwnEngine DEF AnswerInv
<1>2. \A s \in Controllers : s # r => (Initialized(s)' <=> Initialized(s))
  BY DEF Initialized
<1>3. QED
  BY <1>1, <1>2 DEF OthersUntouched, Handled, handler

LEMMA WantedTyped ==
  ASSUME TypeOK, NEW r \in Controllers
  PROVE  /\ client[r] \in ClientRecord
         /\ client[r].wanted \in Quantizers \X Quantizers
  BY DEF TypeOK, ClientRecord

LEMMA UpdateConfigAnswers ==
  ASSUME AnswerInv, NEW r \in Controllers, client[r].step = "ready",
         NEW c \in Configs, Validate(controller[r].backend, c), UpdateConfig(r, c)
  PROVE  AnswersHold' /\ EngineStep
<1>0. controller[r].backend \in Backends
  BY DEF AnswerInv, LoopInv, TypeOK, Open
<1> DEFINE asked == Translated(controller[r].backend, c.range)
<1>1. TypeOK /\ Initialized(r) /\ handler(r) \in Engines /\ Bound(r)
  BY OwnEngine DEF AnswerInv, LoopInv, Initialized
<1>2. /\ engine' = [engine EXCEPT ![handler(r)].range = asked]
      /\ client' = [client EXCEPT ![r].wanted = c.range]
      /\ UNCHANGED controller
  BY <1>1 DEF UpdateConfig, Call, Lost
<1>3. asked \in Qindices \X Qindices /\ asked[1] <= asked[2]
  BY <1>0, ConfigTyped, TranslatedTyped DEF Validate
<1>4. Answered(r) /\ Handled(r).status = "ready"
  BY <1>1 DEF AnswerInv, AnswersHold, Answered
<1>5. /\ engine[handler(r)] \in EngineRecord
      /\ engine'[handler(r)] = [engine[handler(r)] EXCEPT !.range = asked]
      /\ \A e \in Engines : e # handler(r) => engine'[e] = engine[e]
  BY <1>1, <1>2 DEF TypeOK
<1>6. /\ client[r] \in ClientRecord
      /\ client'[r] = [client[r] EXCEPT !.wanted = c.range]
      /\ \A s \in Controllers : s # r => client'[s] = client[s]
  BY <1>1, <1>2 DEF TypeOK
<1>7. OthersUntouched(r) /\ Handled(r)' = engine'[handler(r)]
  BY <1>1, <1>2, <1>5, <1>6, CallTouches
<1>8. Answered(r)'
  <2>1. client'[r].step = "ready" /\ client'[r].wanted = c.range
    BY <1>6 DEF ClientRecord
  <2>2. Handled(r)'.status = "ready" /\ Handled(r)'.range = asked
    BY <1>4, <1>5, <1>7 DEF EngineRecord, Handled
  <2>3. Translated(controller[r].backend, client[r].wanted)' = asked
    BY <1>2, <2>1
  <2>4. QED
    BY <1>3, <2>1, <2>2, <2>3 DEF Answered
<1>9. \A d \in Engines : d = handler(r) => EngineAt(d)!Next
  <2>1. \A d \in Engines : d = handler(r) => EngineAt(d)!Update
    BY <1>3, <1>4, <1>5 DEF EngineAt!Update, EngineAt!Ranges, EngineRecord, Handled
  <2>2. QED
    BY <2>1 DEF EngineAt!Next
<1>10. QED
  BY <1>1, <1>5, <1>7, <1>8, <1>9, AnswersKept, OneEngineSteps

LEMMA ComputeQpAnswers ==
  ASSUME AnswerInv, NEW r \in Controllers, client[r].step = "ready", ComputeQp(r)
  PROVE  AnswersHold' /\ EngineStep
<1>1. TypeOK /\ Initialized(r) /\ handler(r) \in Engines /\ Bound(r)
  BY OwnEngine DEF AnswerInv, LoopInv, Initialized
<1>2. /\ client' = [client EXCEPT ![r].step = "computed"]
      /\ UNCHANGED controller
  BY <1>1 DEF ComputeQp, Call, Lost, Reached
<1>3. PICK q \in Answers(controller[r].backend, Handled(r).range) :
        engine' = [engine EXCEPT ![handler(r)].status = "computed",
                                 ![handler(r)].qp = q]
  BY <1>1 DEF ComputeQp, Lost
<1>4. Answered(r) /\ Handled(r).status = "ready"
  BY <1>1 DEF AnswerInv, AnswersHold, Answered
<1>5. q \in Handled(r).range[1] .. Handled(r).range[2]
  BY <1>3, <1>4 DEF Answers, Answered
<1>6. /\ engine[handler(r)] \in EngineRecord
      /\ engine'[handler(r)] = [engine[handler(r)] EXCEPT !.status = "computed", !.qp = q]
      /\ \A e \in Engines : e # handler(r) => engine'[e] = engine[e]
  BY <1>1, <1>3 DEF TypeOK
<1>7. /\ client[r] \in ClientRecord
      /\ client'[r] = [client[r] EXCEPT !.step = "computed"]
      /\ \A s \in Controllers : s # r => client'[s] = client[s]
  BY <1>1, <1>2 DEF TypeOK
<1>8. OthersUntouched(r) /\ Handled(r)' = engine'[handler(r)]
  BY <1>1, <1>2, <1>6, <1>7, CallTouches
<1>9. /\ Handled(r)'.status = "computed" /\ Handled(r)'.range = Handled(r).range
      /\ Handled(r)'.qp = q
  BY <1>6, <1>8 DEF EngineRecord, Handled
<1>10. Answered(r)'
  <2>1. client'[r].step = "computed" /\ client'[r].wanted = client[r].wanted
    BY <1>7 DEF ClientRecord
  <2>2. QED
    BY <1>2, <1>4, <1>5, <1>9, <2>1 DEF Answered
<1>11. \A d \in Engines : d = handler(r) => EngineAt(d)!Next
  <2>1. \A d \in Engines : d = handler(r) => EngineAt(d)!Compute
    BY <1>4, <1>5, <1>8, <1>9 DEF EngineAt!Compute, Handled
  <2>2. QED
    BY <2>1 DEF EngineAt!Next
<1>12. QED
  BY <1>1, <1>6, <1>8, <1>10, <1>11, AnswersKept, OneEngineSteps

LEMMA GetQpAnswers ==
  ASSUME AnswerInv, NEW r \in Controllers, client[r].step = "computed", GetQp(r)
  PROVE  AnswersHold' /\ EngineStep
<1>1. TypeOK /\ Initialized(r) /\ handler(r) \in Engines /\ Bound(r)
  BY OwnEngine DEF AnswerInv, LoopInv, Initialized
<1>2. /\ client' = [client EXCEPT ![r].step = "retrieved", ![r].got = Handled(r).qp]
      /\ UNCHANGED <<controller, engine>>
  BY <1>1 DEF GetQp, Call, Lost
<1>3. Answered(r)
  BY <1>1 DEF AnswerInv, AnswersHold
<1>4. /\ client[r] \in ClientRecord
      /\ client'[r] = [client[r] EXCEPT !.step = "retrieved", !.got = Handled(r).qp]
      /\ \A s \in Controllers : s # r => client'[s] = client[s]
  BY <1>1, <1>2 DEF TypeOK
<1>5. OthersUntouched(r) /\ Handled(r)' = Handled(r)
  BY <1>1, <1>2, <1>4, CallTouches DEF Handled
<1>6. Answered(r)'
  <2>1. /\ client'[r].step = "retrieved" /\ client'[r].wanted = client[r].wanted
        /\ client'[r].got = Handled(r).qp
    BY <1>4 DEF ClientRecord
  <2>2. QED
    BY <1>2, <1>3, <1>5, <2>1 DEF Answered
<1>7. QED
  BY <1>1, <1>2, <1>5, <1>6, AnswersKept, OneEngineSteps

LEMMA GetLoopFilterLevelAnswers ==
  ASSUME AnswerInv, NEW r \in Controllers, client[r].step = "retrieved",
         GetLoopFilterLevel(r)
  PROVE  AnswersHold' /\ EngineStep
<1>1. TypeOK /\ Initialized(r) /\ handler(r) \in Engines
  BY OwnEngine DEF AnswerInv, LoopInv, Initialized
<1>2. UNCHANGED <<controller, engine, client>>
  BY DEF GetLoopFilterLevel, Call
<1>3. OthersUntouched(r) /\ Handled(r)' = Handled(r)
  BY <1>1, <1>2, CallTouches DEF Handled
<1>4. Answered(r)'
  BY <1>1, <1>2, <1>3 DEF AnswerInv, AnswersHold, Answered
<1>5. QED
  BY <1>1, <1>2, <1>3, <1>4, AnswersKept, OneEngineSteps

LEMMA PostEncodeUpdateAnswers ==
  ASSUME AnswerInv, NEW r \in Controllers, client[r].step = "retrieved",
         PostEncodeUpdate(r)
  PROVE  AnswersHold' /\ EngineStep
<1>1. TypeOK /\ Initialized(r) /\ handler(r) \in Engines /\ Bound(r)
  BY OwnEngine DEF AnswerInv, LoopInv, Initialized
<1>2. /\ client' = [client EXCEPT ![r].step = "ready"]
      /\ engine' = [engine EXCEPT ![handler(r)].status = "ready"]
      /\ UNCHANGED controller
  BY <1>1 DEF PostEncodeUpdate, Call, Lost, Reached
<1>3. Answered(r) /\ Handled(r).status = "computed"
  BY <1>1 DEF AnswerInv, AnswersHold, Answered
<1>4. /\ engine[handler(r)] \in EngineRecord
      /\ engine'[handler(r)] = [engine[handler(r)] EXCEPT !.status = "ready"]
      /\ \A e \in Engines : e # handler(r) => engine'[e] = engine[e]
  BY <1>1, <1>2 DEF TypeOK
<1>5. /\ client[r] \in ClientRecord
      /\ client'[r] = [client[r] EXCEPT !.step = "ready"]
      /\ \A s \in Controllers : s # r => client'[s] = client[s]
  BY <1>1, <1>2 DEF TypeOK
<1>6. OthersUntouched(r) /\ Handled(r)' = engine'[handler(r)]
  BY <1>1, <1>2, <1>4, <1>5, CallTouches
<1>7. /\ Handled(r)'.status = "ready" /\ Handled(r)'.range = Handled(r).range
      /\ Handled(r)'.qp = Handled(r).qp
  BY <1>4, <1>6 DEF EngineRecord, Handled
<1>8. Answered(r)'
  <2>1. client'[r].step = "ready" /\ client'[r].wanted = client[r].wanted
    BY <1>5 DEF ClientRecord
  <2>2. QED
    BY <1>2, <1>3, <1>7, <2>1 DEF Answered
<1>9. \A d \in Engines : d = handler(r) => EngineAt(d)!Next
  <2>1. \A d \in Engines : d = handler(r) => EngineAt(d)!PostEncode
    BY <1>3, <1>6, <1>7 DEF EngineAt!PostEncode, Handled
  <2>2. QED
    BY <2>1 DEF EngineAt!Next
<1>10. QED
  BY <1>1, <1>4, <1>6, <1>8, <1>9, AnswersKept, OneEngineSteps

LEMMA FreeAnswers ==
  ASSUME AnswerInv, NEW r \in Controllers, client[r].step = "ready", Free(r)
  PROVE  AnswersHold' /\ EngineStep
<1>1. TypeOK /\ Initialized(r) /\ handler(r) \in Engines /\ Bound(r)
  BY OwnEngine DEF AnswerInv, LoopInv, Initialized
<1>2. handler(r) # Null
  BY <1>1, HeapAssumption
<1>3. /\ engine' = [engine EXCEPT ![handler(r)] = NoEngine]
      /\ controller' = [controller EXCEPT ![r] = NoController]
      /\ client' = [client EXCEPT ![r] = NoClient]
  BY <1>1, <1>2 DEF Free, Bound
<1>4. Handled(r).status = "ready"
  BY <1>1 DEF AnswerInv, AnswersHold, Answered
<1>5. /\ engine'[handler(r)] = NoEngine
      /\ \A e \in Engines : e # handler(r) => engine'[e] = engine[e]
  BY <1>1, <1>3 DEF TypeOK
<1>6. /\ ~Initialized(r)'
      /\ \A s \in Controllers : s # r =>
           client'[s] = client[s] /\ controller'[s] = controller[s]
  BY <1>1, <1>3, FreshTyped DEF TypeOK, Initialized
<1>7. OthersUntouched(r)
  <2>1. \A s \in Controllers : s # r /\ Initialized(s) =>
          handler(s) \in Engines /\ handler(s) # handler(r)
    BY <1>1, OwnEngine DEF AnswerInv
  <2>2. QED
    BY <1>5, <1>6, <2>1 DEF OthersUntouched, Initialized
<1>8. \A d \in Engines : d = handler(r) => EngineAt(d)!Next
  <2>1. \A d \in Engines : d = handler(r) => EngineAt(d)!Release
    BY <1>4, <1>5, FreshTyped DEF EngineAt!Release, Handled
  <2>2. QED
    BY <2>1 DEF EngineAt!Next
<1>9. QED
  BY <1>1, <1>5, <1>6, <1>7, <1>8, AnswersKept, OneEngineSteps

LEMMA NewAnswers ==
  ASSUME AnswerInv, NEW r \in Controllers, NEW codec, NEW algo, New(r, codec, algo)
  PROVE  AnswersHold' /\ EngineStep
<1>1. TypeOK
  BY DEF AnswerInv, LoopInv
<1>2. /\ UNCHANGED engine
      /\ client' = [client EXCEPT ![r].step = "new"]
      /\ \A s \in Controllers : s # r => controller'[s] = controller[s]
  BY <1>1 DEF New, TypeOK
<1>3. /\ ~Initialized(r)'
      /\ \A s \in Controllers : s # r => client'[s] = client[s]
  BY <1>1, <1>2 DEF TypeOK, Initialized, ClientRecord
<1>4. OthersUntouched(r)
  BY <1>2, <1>3 DEF OthersUntouched, Initialized
<1>5. EngineStep
  BY <1>2 DEF EngineStep, EngineAt!vars
<1>6. QED
  BY <1>3, <1>4, <1>5, AnswersKept

LEMMA InitControllerAnswers ==
  ASSUME AnswerInv, NEW r \in Controllers, client[r].step \in {"new", "failed"},
         NEW c \in Configs, InitController(r, c)
  PROVE  AnswersHold' /\ EngineStep
<1> DEFINE asked == Translated(controller[r].backend, c.range)
<1>1. TypeOK /\ ~Initialized(r) /\ controller[r].backend \in Backends
  BY DEF AnswerInv, LoopInv, Initialized, TypeOK, Open
<1>2. CASE InitFails(r)
  <2>1. /\ UNCHANGED <<controller, engine>>
        /\ client' = [client EXCEPT ![r].step = "failed"]
    BY <1>1, <1>2 DEF InitFails
  <2>2. /\ ~Initialized(r)'
        /\ \A s \in Controllers : s # r => client'[s] = client[s]
    BY <1>1, <2>1 DEF TypeOK, Initialized, ClientRecord
  <2>3. OthersUntouched(r)
    BY <2>1, <2>2 DEF OthersUntouched, Initialized
  <2>4. EngineStep
    BY <2>1 DEF EngineStep, EngineAt!vars
  <2>5. QED
    BY <2>2, <2>3, <2>4, AnswersKept
<1>3. CASE InitSucceeds(r, c)
  <2>1. PICK e \in Engines :
          /\ ~Live(e)
          /\ engine' = [engine EXCEPT ![e] =
               [status |-> "ready", backend |-> controller[r].backend,
                range |-> asked, qp |-> 0]]
          /\ controller' = [controller EXCEPT ![r].handler = e]
    BY <1>3 DEF InitSucceeds
  <2>2. /\ client' = [client EXCEPT ![r].step = "ready", ![r].wanted = c.range]
        /\ asked \in Qindices \X Qindices /\ asked[1] <= asked[2]
    BY <1>1, <1>3, ConfigTyped, TranslatedTyped DEF InitSucceeds, Validate
  <2>3. /\ engine'[e].status = "ready" /\ engine'[e].range = asked
        /\ \A d \in Engines : d # e => engine'[d] = engine[d]
    BY <1>1, <2>1 DEF TypeOK
  <2>4. /\ handler(r)' = e /\ controller'[r].backend = controller[r].backend
        /\ \A s \in Controllers : s # r => controller'[s] = controller[s]
    BY <1>1, <2>1 DEF TypeOK, ControllerRecord, handler
  <2>5. /\ client'[r].step = "ready" /\ client'[r].wanted = c.range
        /\ \A s \in Controllers : s # r => client'[s] = client[s]
    BY <1>1, <2>2 DEF TypeOK, ClientRecord
  <2>6. OthersUntouched(r)
    <3>1. \A s \in Controllers : Initialized(s) => Live(handler(s)) /\ handler(s) \in Engines
      BY DEF AnswerInv, LoopInv, EnginesNotShared, Bound
    <3>2. QED
      BY <2>1, <2>3, <2>4, <2>5, <3>1 DEF OthersUntouched, Initialized
  <2>7. Answered(r)'
    <3>1. Translated(controller[r].backend, client[r].wanted)' = asked
      BY <2>4, <2>5
    <3>2. QED
      BY <2>2, <2>3, <2>4, <2>5, <3>1 DEF Answered, Handled, handler
  <2>8. EngineAt(e)!Next
    <3>1. EngineAt(e)!Create
      BY <2>1, <2>2, <2>3 DEF EngineAt!Create, EngineAt!Ranges, Live
    <3>2. QED
      BY <3>1 DEF EngineAt!Next
  <2>9. QED
    BY <1>1, <2>3, <2>6, <2>7, <2>8, AnswersKept, OneEngineSteps
<1>4. QED
  BY <1>2, <1>3 DEF InitController

LEMMA NextAnswers == AnswerInv /\ [Next]_vars => AnswerInv' /\ EngineStep
<1> SUFFICES ASSUME AnswerInv, [Next]_vars PROVE AnswerInv' /\ EngineStep
  OBVIOUS
<1>1. LoopInv'
  BY NextLoopInv DEF AnswerInv
<1>2. CASE UNCHANGED vars
  <2>1. UNCHANGED <<controller, engine, client>>
    BY <1>2 DEF vars
  <2>2. \A r \in Controllers :
          (Initialized(r)' <=> Initialized(r)) /\ (Answered(r)' <=> Answered(r))
    BY <2>1 DEF Initialized, Answered, Handled, handler
  <2>3. QED
    BY <1>1, <2>1, <2>2 DEF AnswerInv, AnswersHold, EngineStep, EngineAt!vars
<1>3. ASSUME NEW r \in Controllers, Loop(r) PROVE AnswersHold' /\ EngineStep
  BY <1>3, NewAnswers, InitControllerAnswers, UpdateConfigAnswers, ComputeQpAnswers,
     GetQpAnswers, GetLoopFilterLevelAnswers, PostEncodeUpdateAnswers, FreeAnswers DEF Loop
<1>4. QED
  BY <1>1, <1>2, <1>3 DEF Next, AnswerInv

LEMMA InitAnswers == Init => AnswerInv
  BY InitLoopInv, FreshTyped DEF Init, AnswerInv, AnswersHold, Initialized

\* However the calls to several controllers interleave, and whichever address
\* an engine gets again, the index retrieved for a frame is in the range this
\* client configured last for this controller, on the scale of its codec.
THEOREM RetrievedAlwaysAsConfigured == Spec => []RetrievedAsConfigured
<1>1. AnswerInv => RetrievedAsConfigured
  BY DEF AnswerInv, AnswersHold, Answered, RetrievedAsConfigured, Initialized, Translated
<1>2. QED
  BY <1>1, InitAnswers, NextAnswers, PTL DEF Spec

\* The front drives every engine of the heap only as BrcEngine allows, which is
\* the client under which the engines are proved to keep that contract.
THEOREM EnginesDrivenAsContracted == Spec => ContractKept
<1>1. Init => \A e \in Engines : EngineAt(e)!Init
  BY FreshTyped DEF Init, EngineAt!Init
<1>2. AnswerInv /\ [Next]_vars =>
        [\A e \in Engines : [EngineAt(e)!Next]_(EngineAt(e)!vars)]_vars
  BY NextAnswers DEF EngineStep
<1>3. QED
  BY <1>1, <1>2, InitAnswers, NextAnswers, PTL DEF Spec, ContractKept
=============================================================================
