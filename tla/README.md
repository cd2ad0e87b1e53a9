# A TLA+ model of libmebo

libmebo chooses, for every frame a video encoder is about to encode, the quantizer that keeps the
stream near a target bit rate. It is a single-threaded C library without persistence: one client
makes one call at a time. What is hard in it is not concurrency but long sequences of calls that
share state: the buffer, averages and debts that earlier frames left, configuration changes between
any two frames, several controllers used alternately, and arithmetic at its limits.

Paths below are relative to the repository root.

## 1. The system

| Component | Source | State | Operations |
|---|---|---|---|
| API front | `src/lib/libmebo.c`, `.h` | per controller: an interface table and an opaque handler | `new`, `init`, `update_config`, `compute_qp`, `get_qp`, `get_loop_filter_level`, `post_encode_update`, `free` |
| VP8 engine | `src/brc/vp8/libvpx_derived/` | configuration, leaky bucket, key-frame debts, index averages, rate correction factors | `init`, `update_rate_control`, `compute_qp`, `get_qp`, `get_loop_filter_level`, `post_encode_update`, `free` |
| VP9 engine | `src/brc/vp9/libvpx_derived/` | the same kind of state, plus the last two quantizers and overshoot flags | the same |
| VP9 layers | `libvpx_vp9_svc_layercontext.c` | one saved rate-control state per spatial and temporal layer | restore before a frame, save after it, reset, reconfigure |
| VP9 loop filter | `libvpx_vp9_picklpf.c` | none | a function of quantizer and frame type |
| AV1 engine | `src/brc/av1/aom_derived/` | as VP9, single layer | the same |
| AV1 layers | `aom_av1_svc_layercontext.c` | none reachable | dead: the engine sets `use_svc = 0` |
| Test program | `test/fake-enc-test.c` | a client | its encoding loop |

The front looks the backend up in `algo_impl_map`, copies its table of functions into the controller
and forwards every later call to it with the handler. The engines share nothing with each other.
A client is meant to follow the loop printed in `libmebo.h:45-93`: create, initialise, then for every
frame update if the configuration changed, compute, retrieve, encode, report the encoded size.

What makes each part correct:

- *Front*: a call reaches the engine that this controller's `init` created, and no other; no engine
  is lost; configuration, computation and report arrive in order.
- *Engines*: the quantizer of every frame lies in the range configured last; every table is read
  inside its bounds; targets, averages and levels stay within what the configuration allows; a
  fuller buffer never asks for a coarser frame; what a key frame overspends is paid back.
- *VP9 layers*: the charges of each layer reach that layer's bucket and the upper temporal layers'.

The hazards, each at its line, are listed in `PROJECT.json`.

## 2. Modules

| Module | Models | Role |
|---|---|---|
| `BrcEngine` | what every engine promises the front | abstract specification |
| `LayeredBucket` | one leaky bucket per layer of a stream | abstract specification of the VP9 levels |
| `FrameBudget` | a budget that is granted and only spent | abstract specification of the AV1 level |
| `Vp8RateControl`, `Vp9RateControl`, `Av1RateControl` | one engine each, every operation | detailed specifications, each refines `BrcEngine` |
| `Arithmetic` | minimum, clamp, truncated and scaled division | pure operators of the three engines |
| `Vp8Tables`, `Vp9Tables`, `Av1Tables` | the engines' lookup tables | values of constants |
| `LibMebo` | the front, a heap of engines known by `BrcEngine`, and its client | composition: each engine's behaviour is a behaviour of `BrcEngine` |
| `MCVp8RateControl`, `MCVp9RateControl`, `MCAv1RateControl`, `MCLibMebo` | | instances for TLC |
| `Arithmetic_proofs`, `Vp8RateControl_proofs`, `Vp9RateControl_proofs`, `Vp9Buckets_proofs`, `Vp9Response_proofs`, `Av1RateControl_proofs`, `Av1Response_proofs`, `LibMebo_proofs` | | lemmas and theorems |

The engine modules share these abstractions. Fields nothing reads are left out, and branches that a
field keeping its zero settles are reduced to their outcome; each module's heading names them. Rate
correction factors, doubles in the code, are integers in units of `1 / RcfOne`; the theorems hold for
every such grid. TLC's grids are coarse (40 and 200 units), so individual indices can differ by
rounding from the program's; no property depends on one particular index. Integers are unbounded:
the overflow of very large rates or frames is not modelled. Frame rates are integers.

### Vp8RateControl

Variables bear the names of the fields of `VP8_COMP` and `VP8_COMMON`; `oxcf` is the configuration
derived from the public one. One action is one call: `RateControlInit` (validation, then the same
update as below), `UpdateConfig`, `ComputeQp` (frame target, range of indices, search, relaxation of
the worst index) and `PostEncodeUpdate` (correction factor, key-frame debts, averages, bucket).
Each stage of `brc_vp8_compute_qp` that assigns `active_worst_quality` or `active_best_quality` again
is an operator that takes the stage before as argument (`PickedWorst`, `RelievedWorst`, `ActiveWorst`,
`RelaxedWorst`), which keeps the code's order.

`Next` is the documented client: updates between frames only, with configurations `init` would accept,
and one report per computed index. `AnyNext` calls the operations in any order with any configuration.
Where the C code aborts, divides by zero or reads outside a table, `fault` records it and nothing
happens any more; what follows undefined behaviour is not described.

Abstractions of its own:

- A frame rate of 0 stands for all those under 0.1.
- The factor 0.96 of the relaxation is `* 96 \div 100`.
- `NiDamping` is 150 in the code (`ni_frames > 150`). TLC uses 1, so that the second averaged frame is
  steered by the average; the theorems hold for every value.
- Left out because nothing reads them: the rolling monitors, `last_q`, `filter_level`,
  `total_target_vs_actual`, the golden-frame countdown. Reduced to their constant effect because the
  library's own settings leave them dead: golden-frame decisions (`auto_gold = 0`, so
  `refresh_golden_frame` stays 0), frame dropping, fixed Q, second pass, screen content, hidden frames.
- Two fields that are read and that no code assigns keep the zero of the engine's creation and are
  definitions: `non_gf_bitrate_adjustment` and `rc_max_intra_bitrate_pct` (section 5).

### Vp9RateControl

Variables bear the names of the fields of `VP9_COMP`; `rc` is its `RATE_CONTROL` and `layer_context`
the saved states, records with the fields the engine reads. `target_bandwidth` is
`oxcf->target_bandwidth`, which the code overwrites with a layer's during its frame. The actions:

- `RateControlInit`: validation, then the same installation as an update.
- `UpdateConfig`: the stream's limits and sizes, then every layer's share of them, and the resets that
  a rise of the rate by more than half, or a fall to less than half, triggers.
- `ComputeQp`: the layer's state is copied into `rc`, its frame size scaled, its bucket and those of
  the temporal layers above it credited; then target, range, search, damping and clips.
- `GetLoopFilterLevel`: the level from the index and the frame type.
- `PostEncodeUpdate`: correction factor, averages, oscillation history, charge of the layer and of the
  temporal layers above it, the copies a key frame makes to other layers, and the save.

Every stage is an operator on a rate-control record (`Retimed`, `Credited`, `ChargedRc`, ...), so that
the code's in-place assignments become a composition in the same order, once for a stream without
layers and once for the copy of a layer. `coded`, which no code has, remembers the layers coded since
the configuration last changed; properties and the refinement use it, no guard does.

The client keeps its number of layers and names layers that exist. Going from one layer to several
after a frame leaves contexts uninitialised; what follows is not described. Neither are updates
between `ComputeQp` and `PostEncodeUpdate`, which the documented loop rules out.

### Av1RateControl

The same shape with one layer. Limits and sizes are functions of the installed configuration, since
only an update assigns them. What differs from VP9 is modelled as the code has it: no credit before a
frame, the limit on how much finer an inter frame may become, and the branches that `show_frame`
settles. `PickQ` takes the index that is nearest by definition (`NearestQ`); the code's binary search,
`find_closest_qindex_by_rate`, is a recursive function compared with it.
`base_qindex` is what `get_qp` returns; the loop filter level is not implemented by the engine.
Reading `rtc_minq` before its start is the fault `below_table`.

### LibMebo

`controller` holds backend and handler of every open controller. The handler of a new one is any
pointer (`Null`, `Wild`, or the address of some engine), because `malloc` does not clear it. `engine`
is the heap, `client` what the client of each controller knows (how far it is, the range it asked for,
the index it retrieved). A call through a handler that is not a live engine of the controller's
backend loses the process (`fault`), and so does freeing a pointer that is neither null nor live.
A freed address can be returned again. An engine answers any index in its range, which is what
`BrcEngine` says of it; a range that arrived inverted promises nothing.

Two scales meet here. A client configures public quantizers, 0 to 63 for every codec; an engine stores
and answers indices of its codec, up to 127 for VP8 and 255 for VP9 and AV1. `Translated` is the conversion
(`q_trans` in VP8, `quantizer_to_qindex` in VP9 and AV1), with a table per backend as the constant `Qindex`.
`client.wanted` is on the public scale; the ranges and indices of engines and the index a client got are on
the codec's. The contract of an engine is instantiated with the indices of all codecs (`Qindices`).

`Next` is the documented client, which may retry a failed `init` but does not initialise twice;
`FreeingNext` also frees a controller whose `init` failed; `AnyNext` calls anything in any order.
Left out: the `codec_type` field, which no code reads, and builds with a codec disabled.

## 3. What TLC checks

The engine runs bound the calls (`MaxCalls` for VP8, `MaxFrames` and `MaxUpdates` for VP9 and AV1);
`LibMebo` is finite by its sets. `CHECK_DEADLOCK FALSE` is set for the engine runs because a behaviour
ends when its calls are used up, and for `ApiAny` because a lost process makes no more calls.
`ApiLoop` checks deadlock: the documented client can always go on.

| Run | Client | Shows |
|---|---|---|
| `vp8_core` | documented | see below |
| `vp8_any_order` | arbitrary | indices stay in the tables (`TypeOK`), both levels agree (`LevelsAgree`) |
| `vp9_core` | documented, one to four layers | see below |
| `av1_core` | documented | see below |
| `api_loop` | documented, two controllers interleaved | `NothingLeaks`, `RetrievedAsConfigured`, `ContractKept` |
| `api_any_order` | arbitrary | `TypeOK`, `EnginesNotShared` |
| `vp8_cq_level`, `vp8_golden_debt`, `vp8_buffer_clip`, `vp9_layer_quantizers`, `av1_leaky_bucket`, `api_free_uninit` | documented | disagreements, section 5 |

`vp8_core` checks for the documented client:

- `QpInRange`, `NiAverageInRange`, `TypeOK`: ranges that several assignments in several
  functions share the responsibility for.
- `NearestQ`: `regulate_q` looks at the first index that fits and its predecessor, and still no other
  index of the active range misses the target by less.
- `FullerBufferSpendsMore`: the target and the worst index are monotone in the buffer level, probed
  from half an optimal level below zero to one and a half, across three ranges with separate formulas.
  For the target, percentages below zero are excluded: they reverse the rule (section 5).
- `InterTargetFloor`: key-frame debt and low-buffer reductions together never take an inter target below
  its floor, for percentages in their documented range.
- `EngineContract`: the engine implements `BrcEngine`.

`vp9_core`, with one layer, two temporal, two spatial, and two of each:

- `QpInRange`, `LayersKeepTheirSizes`, `KeyQualityShared`: what copying the state in and out of the
  layers could mix up.
- `LayersIsolated`: an inter frame, from credit to charge, changes only its own layer and the temporal
  layers above it.
- `RepeatedUpdateKeepsBuckets`: repeating a configuration resets nothing once every layer coded a frame.
  Two exceptions, which section 5 explains, are part of the property: a single temporal layer with a
  decimator other than 1, and an optimal level above the maximum.
- `FeedbackMonotone`: of nine sizes around and far from the target, a larger one never leaves a smaller
  correction factor or a fuller bucket, across damping, its undamped first frame and the dead band.
- `MoreBitsFinerQ`: half the target gives no finer and twice the target no coarser index, provided twice
  an inter target is below `max_frame_bandwidth`, above which a damped index may pass the active worst.
- `EngineContract`, and `Buckets`: the levels implement `LayeredBucket`, with the current frame's level
  in `rc` and all others in their contexts. Every frame credits and charges each bucket exactly once.

`av1_core` checks the corresponding properties of the single layer, and:

- `SearchFindsNearest`: the binary search returns the index nearest the target, as `NearestQ` defines it,
  for four targets and four ranges around every computed frame.
- `DecreaseLimited`: what the limit on finer indices promises after the band, the clip and the search.
- `FaultNeedsOverfullStart`: the read before the table needs a starting level above the maximum.
- `Budget`: the level implements `FrameBudget`.

Bounds. The VP8 instance keeps the code's tables and scales the video down (16 and 32 kbps, 10 frames
per second, 4x4 macroblocks) so that nine calls pass through every regime: an empty, low, optimal and
full buffer, debts incurred and repaid, damping over, overshoot and relaxation, a configuration change
after each of them. Three frame sizes (0, 150 and 600 bytes) lie below, near and far above the average
frame of 200 bytes. The configurations include one with a single quantizer and default buffers, one
with hardly any room above the optimal level, one larger than the first, and one without macroblocks.
The VP9 instance codes three frames of 20 or 600 bytes in any layers, with one update anywhere between
them: a second frame of the same layer and a frame of another one after either, which is what copying
can go wrong with. Configurations pin the quantizer, leave no room in the bucket, change the rate of
all layers, scale by zero, or ask for five layers. Three frames do not reach the branch for
`current_video_frame` of at least 5, where the key average no longer limits the ambient index;
the proofs cover it, and the AV1 instance runs six frames through its like. AV1 frames are 10
or 600 bytes; its configurations include a starting level above the maximum and a frame rate the
engine replaces. Two controllers are enough for sharing and address reuse in `LibMebo`, which relate
pairs; three engines under the arbitrary client leave one to leak. Its two backends translate three public
quantizers by different tables, so an index on the public scale, or on the other codec's, is told from the
right one.

No liveness is stated. The library starts nothing by itself: every step is a call of the client, no
text or code obliges it to make another, and every call returns. A fairness condition would be about
the client alone.

## 4. What is proved

Every property of every passing run is also a theorem, for all values of the constants that satisfy
the assumptions each module states: `TableAssumption` and `ParameterAssumption` of the engines (the public
quantizers translate monotonically, tables have entries of the ranges they index, correction limits are
ordered, configurations and frame sizes have their type; for VP8 also a monotone quantizer table and
minimum indices below their argument), `MonotoneTableAssumption` of VP8 and AV1 (a larger index costs no
more bits per macroblock; a larger index is no finer a quantizer), `HeapAssumption` of `LibMebo` (valid
configurations, null and wild are no engines) and its `TranslationAssumption` (every codec translates the
public quantizers monotonically to indices of its scale). TLC evaluates those of the engines on the tables
of the code, those of `LibMebo` on the small tables of its instance. The
bounds on calls are among these constants, so the theorems hold for behaviours of any length.

| Theorem | Statement |
|---|---|
| `Vp8RateControl_proofs!TypeCorrect` | `AnySpec => []TypeOK` |
| `LevelsAlwaysAgree` | `AnySpec => []LevelsAgree` |
| `DocumentedClient` | `Spec => AnySpec` |
| `QpAlwaysInRange`, `NiAverageAlwaysInRange` | `Spec => []QpInRange`, `Spec => []NiAverageInRange` |
| `ContractKept` | `Spec => EngineContract`: the engine refines `BrcEngine` |
| `InterTargetAlwaysAtFloor` | `Spec => []InterTargetFloor` |
| `FullerBufferAlwaysSpendsMore` | `Spec => []FullerBufferSpendsMore` |
| `AlwaysNearestQ` | `AnySpec => NearestQ` |
| `Vp9RateControl_proofs!TypeCorrect`, `QpAlwaysInRange` | `Spec => []TypeOK`, `Spec => []QpInRange` |
| `LayerSizesKept`, `KeyQualityAlwaysShared` | `Spec => []LayersKeepTheirSizes`, `Spec => []KeyQualityShared` |
| `LayersAlwaysIsolated` | `Spec => LayersIsolated`: an inter frame changes its own and higher temporal layers only |
| `ContractKept` | `Spec => EngineContract` |
| `Vp9Buckets_proofs!BucketsKept` | `Spec => Buckets`: the levels refine `LayeredBucket` |
| `RepeatedUpdatesKeepBuckets` | `Spec => RepeatedUpdateKeepsBuckets` |
| `Vp9Response_proofs!FeedbackAlwaysMonotone`, `MoreBitsAlwaysFiner` | `Spec => []FeedbackMonotone`, `Spec => []MoreBitsFinerQ` |
| `TargetsAlwaysLeaveRoom` | `Spec => []TargetsLeaveRoom`: without layers, the hypothesis of `MoreBitsFinerQ` holds of every inter frame |
| `Av1RateControl_proofs!TypeCorrect`, `QpAlwaysInRange` | `Spec => []TypeOK`, `Spec => []QpInRange` |
| `DecreaseAlwaysLimited` | `Spec => []DecreaseLimited` |
| `OnlyOverfullStartsFault` | `Spec => []FaultNeedsOverfullStart` |
| `ContractKept`, `BudgetKept` | `Spec => EngineContract`, `Spec => Budget` |
| `Av1Response_proofs!FeedbackAlwaysMonotone`, `MoreBitsAlwaysFiner` | `Spec => []FeedbackMonotone`, `Spec => []MoreBitsFinerQ` |
| `SearchAlwaysFindsNearest`, `NearestMissesLeast` | `Spec => []SearchFindsNearest`; no index of the range misses the target by less |
| `LibMebo_proofs!TypeCorrect` | `AnySpec => []TypeOK` |
| `EnginesNeverShared` | `AnySpec => []EnginesNotShared` |
| `NothingEverLeaks` | `Spec => []NothingLeaks` |
| `RetrievedAlwaysAsConfigured` | `Spec => []RetrievedAsConfigured`: the index lies between the translations of the quantizers configured last |
| `EnginesDrivenAsContracted` | `Spec => ContractKept`: through their controllers, all engines are driven as `BrcEngine` demands |

*Arithmetic.* `Arithmetic_proofs` holds the lemmas about integer division, products and C's truncated
quotient that the engines share. The solver cannot find them inside a larger goal, so each is stated once
and cited by name. It also holds what the engines' searches share, over any function from indices to
frame sizes: the first index that fits, the choice between it and its predecessor (`NearestFit`) and what a
bisection must find (`Found`, which is unique and exists). That `NearestFit` is monotone in the target
needs nothing of the function; that it misses the target by least needs the function to fall with the index.
The last lemmas are about the percentage by which a correction factor moves: scaling it down to tenths and
damping it keep its order, which is what makes the feedback monotone.

*Any client (VP8).* `TypeOK` alone is not inductive: that the average index stays in the tables needs
the sum of the indices to be at most `ni_frames * MaxQ`, and typing a frame target needs the two levels
to agree, because only then is the division by the bytes coded so far unreachable while there are
none. `AnyInv == TypeOK /\ LevelsAgree /\ TotalInTable` is inductive.

*Documented client (VP8).* `ClientInv == AnyInv /\ Ordered /\ NiAverageInRange /\ QpInRange`. `Ordered`
adds that the configured qualities are ordered, that the best index a key frame inherits lies between
them, and that the sum of the indices lies between `ni_frames` times each of them, so that the mean
does. The table assumption is used where an inter frame's worst index is one above the configured
worst: the minimum-index table maps it back inside. The refinement then follows action by action: an
installed configuration is `Create` or `Update`, `ComputeQp` is `Compute` by `QpInRange'`, a fault is `Stop`.

*Targets and indices (VP8).* `InterTargetFloor` is inductive with `AnyInv`; `compute_qp` establishes it
anew. Recovery of the key-frame debt stops at the minimum, a quarter of the average frame, and a low buffer then takes away at most half, with rounding accounted for. `FullerBufferAlwaysSpendsMore`
follows from `ClientInv`: the three ranges of the buffer level are compared pairwise, each formula being
monotone and bounded by what the next one starts from. `NearestQ` needs no invariant beyond `AnyInv`: the
rate falls with the index, so the first fit and its predecessor are the only candidates. The
relaxation of the worst index comes after the search.

*VP9.* `ClientInv == TypeOK /\ RangesHold /\ NothingCoded /\ QpInRange`. `QpInRange` speaks of the
configuration, but a frame is computed from copies of its limits, so `RangesHold` says what every copy
is: without layers, limits and sizes of `rc` are the stream's (`StreamShare`); with layers, those of
context `l` are its `LayerShare`, and during a frame those of `rc` are the share of the current layer.
Each operator on a record comes with two lemmas: it keeps the type, and it keeps `Configured` (limits and
sizes) or `KeyQuality` (last key index and average key index), the two projections the invariant is
about. `KeyQualityShared` holds only between frames, so the invariant keeps the contexts in agreement and adds
that `rc` agrees with the context it came from until a key frame changes both. `NothingCoded` fixes the
layer ids before `init`, which reads them. `LayersAlwaysIsolated` is an action property under this invariant:
a context outside `FromTemporal` is an unchanged entry of `Credited` and of `SavedContexts`.

*VP9 buckets.* `BucketInv == ClientInv /\ SuppliesHold /\ PaidAhead`. `LayeredBucket` credits what is
configured, the code what it last stored, so `SuppliesHold` says that the stored average frame, or a
layer's decimator, is the configured one. `LayeredBucket` takes the same number of bits from every
bucket of a frame, the code clips each at its size, so `PaidAhead` says that these buckets are within their
sizes, hence that the clip never bites. The lemmas follow `bits_off_target` through every operator, then state
each step in terms of `BucketLevel`, and only then translate layer indices to the pairs of the instance.

*Repeated updates (VP9).* `RepeatInv == BucketInv /\ RatesRemembered /\ CodedWithinSizes`. The code judges a
change of rate by `last_avg_frame_bandwidth`, which a layer has only after its first frame.
`RatesRemembered` says that a frame is coded at the configured rate and that every layer coded since
the last change remembers it, so an update that repeats the configuration compares a rate with itself.
`CodedWithinSizes` adds that the clip an update ends with does not bite: a charged level was
clipped, and only a reset can lift one above its size.

*Response (VP9 and AV1).* `FeedbackMonotone` composes lemmas of `Arithmetic_proofs` and needs of
the state only that the level before the frame is within its bucket (VP9's `FrameInv`). For
`MoreBitsFinerQ` each stage after the search (limit on decreases, damping between the last two indices, clips)
is monotone in the index before it, but the last step of the code compares the target with
`max_frame_bandwidth`: above it, a damped index may pass the active worst. So the proof must keep targets
below it. AV1's is reached by `InterTarget` and stays far away, by arithmetic on `undershoot_pct >= 0`. VP9's
depends on what an update left in the layer's copies: `RoomInv` shows it for streams without
layers (`TargetsAlwaysLeaveRoom`), for layers it is a hypothesis of the property.

*AV1.* `ClientInv == TypeOK /\ QpInRange /\ DecreaseLimited /\ LevelWithinMaximum /\
FaultNeedsOverfullStart`. `LevelWithinMaximum` (a starting level within the maximum stays there) is what
bounds the relief: a third of the worst index, in steps rounded down, is at most two thirds, so the index
stays positive. The limit on decreases is followed through the band, the clip and the search in this
order. The refinement of `FrameBudget` uses `TypeOK` alone. `FrameAlwaysFound` (an index being coded was found and
its target still holds) is what the response of a computed frame rests on.

*Binary search (AV1).* `SearchAlwaysFindsNearest` speaks of a recursive function over pairs of indices.
The prover cannot use the library's induction, so the proof is by least counterexample: among the
lengths of ranges for which the function does not satisfy `Found`, take the least; one unfolding sends it to a
shorter range, where it does, and `FoundAbove` and `FoundBelow` carry that back. `Found` has one solution, and
comparing it with its predecessor gives `NearestFit`.

*Front.* `EnginesNotShared` is inductive together with `TypeOK`: it is conditional on `~misused`, and a
call that sets `misused` makes it vacuous. For the documented client,
`LoopInv == TypeOK /\ EnginesNotShared /\ ~misused /\ NothingLeaks`: it never misuses a controller, so no
call is lost, and a live engine always has its controller.

`AnswerInv == LoopInv /\ AnswersHold` adds what a client may rely on: the engine behind its handler is as far,
and has the range, that the client believes, translated to the scale of the controller's backend. A step of one controller leaves the client, the handler
and the engine of every other initialized one alone, because no engine is shared. From it follow
`RetrievedAsConfigured` and, engine by engine, the steps of `BrcEngine` (`ContractKept`). The contract wants ordered ranges, and a translated range is ordered because the
translation is monotone.

Not proved: the properties of section 5, which TLC refutes. Of `RelaxSteps`, VP8's recursive function, the
proofs use only where the relaxation stops. No liveness is stated, so there is none to check or prove.

## 5. Disagreements found while modelling

- `vp8_cq_level`: `libvpx_vp8_rtc.c:291` translates `cq_level` through `q_trans` again on every update.
  Starting from 10, `init` makes it 12 and seven updates make it 97; the eighth reads past the 64 entries.
  The documented loop may update before every frame.
- `vp8_golden_debt`: the eighth of a key frame's overspend booked as golden-frame debt is never
  recovered, though the comment at `libvpx_vp8_ratectrl.c:1054` says it is recovered more quickly:
  `non_gf_bitrate_adjustment`, which limits what a frame pays back (lines 552-553), is assigned nowhere.
- `vp8_buffer_clip`: a configuration change clips the buffer level to the new maximum
  (`libvpx_vp8_rtc.c:323`) and then overwrites it with the starting level, unclipped (line 376).
- `vp9_layer_quantizers`: `libmebo.h:345` documents a maximum quantizer for each layer, but the update
  overwrites the layers' qualities with the stream's (`libvpx_vp9_svc_layercontext.c:166`).
- `av1_leaky_bucket`: `update_buffer_level`, a "leaky bucket model" by its comment
  (`aom_av1_ratectrl.c:449`), credits shown frames only, and nothing sets `show_frame`: the level falls
  with every frame until the next configuration starts it over.
- `api_free_uninit`: `libmebo.h:404` says a controller should be freed after use, but freeing one whose
  `init` failed frees the pointer `malloc` happened to leave in it.

The model also shows, without a run of its own:

- All engines: undershoot and overshoot percentages have no lower bound. Negative ones
  reverse the reaction to the buffer (VP8: a fuller buffer lowers the target; VP9 and AV1: targets rise
  past `max_frame_bandwidth`, where a damped index may pass the active worst).
- VP8: validation accepts negative quantizers, undershoot percentages up to 1000 and sizes without a
  whole macroblock (division by zero in `compute_qp`), and updates are not validated at all (a larger
  size aborts in an assertion).
- VP8: a limit on key frames (`max_intra_bitrate_pct`, `libmebo.h:291-308`) is accepted and has no effect: the
  field the limit reads (`rc_max_intra_bitrate_pct`, `libvpx_vp8_ratectrl.c:345`) is assigned nowhere. The header
  lets a codec go without the limit and leaves its validation to `init`, which refuses a limit on inter
  frames and lets this one pass. VP9 and AV1 honour it.
- VP9: five temporal layers are accepted, but the count is taken modulo five and none is configured.
  Scaling factors, per-layer quantizers and layer ids of a frame are not validated, although they divide
  or index. A key frame of an upper layer that overshoots pulls the averages of the base layer. An update
   before every layer has coded a frame resets the layers that have not. With a single temporal layer
  an update counts the decimator as 1 and a frame counts the configured one, so if it is not 1 every
  update looks like a change of rate and resets the buckets. With an optimal level above the maximum, a
  reset leaves the level above its size, and the next update cuts it. The bit rates of layers are not
  compared with the stream's, so a layer's target can reach `max_frame_bandwidth`. The comment on `rc_1_frame`
  (`libvpx_vp9_ratectrl.h:313`) has over- and undershoot the other way round from the code.
- VP9 and AV1: the limit of the relief, about 30% by its comments, is up to two thirds when the step is
  rounded down.
- AV1: since no frame is shown, the key-frame counters never move; since no branch updates the
  average of inter frames, it stays where the last update set it. A frame rate above 180 is judged one update
  late, because the check reads the previous one. The oscillation history survives updates.

## 6. Not modelled, and the plan

Not modelled: the AV1 layer contexts (`use_svc` is cleared at creation and never set), the test program
beyond its loop, build files, 32-bit overflow, one to several VP9 layers after a frame, and VP9 and AV1
clients that leave the documented loop.

1. Done: the front and the three engines, their abstract specifications, runs, and a theorem for
   every property of a passing run.
2. Next: arbitrary clients of VP9 and AV1, as VP8 has one (`AnySpec`), for updates in mid-frame, with
   their type theorems.
3. A module of the 32-bit expressions of target and size, over boundary inputs.
