# QuickPool: TLA+ models

Models of the two ride-matching protocols of this repository and of the parts they stand on,
checked with TLC and, where noted, proved with TLAPS. The reference is the code under `src/src`,
read with `test/` and `benchmark/`.

## 1. The system

Party 0 is the service provider (SP), parties `1..rider_count` are riders, the next
`driver_count` are drivers. Each is one thread (a process in the benchmarks, a `std::async`
thread in the tests) which runs a straight-line protocol over a network object; the parties share
nothing else. No error is handled, nothing is persisted, no call times out: what can go wrong is
ordering, buffering, arithmetic modulo powers of two, indices, and ports.

| part | state | operations | what makes it correct |
|---|---|---|---|
| Connection set-up (constructors of `NetIOMP`) | two TCP connections per pair, opened one by one; ports computed from the ids | two constructors: complete graph, bipartite graph | both ends of a connection are the sockets meant for each other; no port is taken twice; the orders of opening cannot wait in a circle |
| Network object `NetIOMP` (`io/netmp.*`) over emp-tool's `NetIO` | two TCP connections per pair (`ios`, `ios2`), each a buffered stream; `sent[]` | `send`, `recv`, three `flush`es, destructor | one lossless FIFO stream per direction; nobody blocks on data buffered by a party that waits for him |
| Circuits (`utils/circuit.h`) | gates, outputs, owners; levels | building with operand checks, `orderGatesByLevel`, `evaluate`, `generateEDSCircuit` | operands exist; a level needs only lower ones and itself in order |
| Preprocessing (`ED_offline_eval.*`, `preproc.h`) | masks, mask shares, product shares; one random generator per party, one per party at the SP | `setWireMasks`, `setWireMasksParty` | parties who draw separately agree; lengths sent are right |
| Online phase (`ED_online_eval.*`) | masked wires | `setInputs`, `evaluateGatesAtDepth`, `getOutputs` | every wire is plaintext plus mask; both ends bundle a level alike |
| Entry points (`ED_eval.cpp`) | shares of comparisons | `pair_matching`, two `pair_EDMatching` | the answer is whether both distances are below the threshold; every round ends |
| DCF (`funshade/fss.*`) | keys; evaluation state | `DCF_gen_seeded`, `DCF_eval` | results add up to `x < alpha` |
| Gates on it (`funshade/fss.*`) | input and output masks, correlated draws, shares of a scalar product | `funshade_setup`, `_share`, `_eval_dist`, `IC_gen`, `IC_eval`, the SIGN and batch forms | outputs add up to `r_out` plus whether the input is in the interval; the masks of the product cancel |
| Intersection matching (`Intersection_eval*.cpp`, four versions) | keys per pair, PRF arrays | `processIntersectionMatching`, routes from `setInputs` or a database, triples packed into 128 bits | a pair matches iff enough route elements are common; different triples are packed differently; every round ends |
| SP's local matching (`bpm`, `maxBPM`) | `matchR`, `seen` | `maxBPM` | finds a maximum matching |
| Shares, generators (`sharing.h`, `rand_gen_pool.*`) | - | arithmetic on shares; all generators seeded alike | - |
| AES / G, field types, helpers, benchmark utilities, scripts | - | - | - |

How they interact: the evaluators call the network object and nothing else concurrent. The
streams carry bare arrays without any framing, so that every array must be read with the length
and at the position it was written. `send` only fills a stdio buffer (it flushes in a `__clang__`
build); `recv` first flushes the sender's own channel to the one party it waits for.

Hard behaviours: interleavings of the parties; which buffered bytes are visible when; rounds
overlapping on one network; both ends of a message computing its contents from separate walks of
a circuit; generators kept in step; masked comparisons modulo 2^64 and 2^32; uninitialised route
elements.

## 2. Modules

| module | models | kind |
|---|---|---|
| `Channels` | what the protocols assume: one FIFO stream per ordered pair | abstract specification |
| `NetIOMP` | the network object, socket by socket and buffer by buffer | detailed; implements `Channels` |
| `NetIOMP_proofs` | theorems about `NetIOMP` | proofs |
| `Connect` | both constructors: how all parties come to be connected | state machine; ends in the state `NetIOMP` starts from |
| `Connect_proofs` | theorems about `Connect` | proofs |
| `Circuit` | gates, levels, evaluation, the Euclidean-distance circuit | operators |
| `CircuitBuilder` | the `Circuit` class: every way to add a gate or an output | state machine |
| `Circuit_proofs` | facts about the operators of `Circuit`, for every circuit; theorems about `CircuitBuilder` | proofs |
| `EndpointMatching` | all parties of endpoint matching, composed with `NetIOMP` and `Circuit` | protocol |
| `EndpointMatching_proofs` | theorems about `EndpointMatching`: that both ends stay in step, and the arithmetic of a gate | proofs |
| `EndpointValues_proofs` | theorems about `EndpointMatching`: that masks, wires, distances and answers are right | proofs |
| `Intersection` | all parties of intersection matching in its four versions, composed with `NetIOMP` and `RoutePacking` | protocol |
| `RoutePacking` | the packing of a triple into two words | operators |
| `Intersection_proofs` | theorems about `Intersection` and `RoutePacking` | proofs |
| `DCF` | key generation and the evaluations by both parties, bit by bit | state machine |
| `Funshade` | scalar product, interval and sign gates | state machine on top of `DCF`, every step of which is one of `DCF` or a stutter |
| `Funshade_proofs` | theorems about `DCF` and `Funshade` | proofs |
| `DataLemmas` | congruences modulo n, recursively defined functions, buffered streams and the batches in them | lemmas |
| `MaxBPM` | the loop of `maxBPM` and the recursion of `bpm` | state machine |
| `MC_*` | instances for TLC | |

### State and actions against the code

`NetIOMP`. A link is one direction of one connection of a pair. `out` is what the writer's stdio
buffer holds, `wire` what has been handed to TCP and is not read yet, `sent` and `waiting` are
`sent[]` and the `recv` a party sits in, `open` whether its object exists. `Send` appends and
lets stdio write out a prefix: nothing while the contents fit the buffer (`BufCap`), otherwise any
amount that makes the rest fit, everything if `FlushOnSend`. `RecvCall` is `recv` up to where it
blocks, with its conditional flush; `RecvReturn` the rest. `Flush`, `FlushAll` and `FlushRole` are
the overloads; `Close` is the destructor, which flushes every stream. `Bipartite` selects the
constructor: in the bipartite graph riders are not connected with riders nor drivers with drivers.
Streams are sequences of array elements rather than bytes: reads and writes in the protocols are
whole elements, and a partly written element would only be invisible a little longer.

`Connect`. A party opens its sockets in the order in which the loops over all pairs bring them (`Turn`);
`Serves` says for which it listens, `PairPort` and `Port` are the port arithmetic with its cut to 16 bits. What emp's
`NetIO` constructor does is three actions: `Listen` (bind), `Dial` (a connect that succeeds, with whoever listens
on that port of that host, intended or not), `Accept` (takes the oldest queued connection and closes the listening socket,
which drops the others). `peer` records which two ends were really joined.

`Circuit`, `CircuitBuilder`. A wire is the index of the gate it leaves (from 1 here, from 0 in the
code). `GateLevel` and `ByLevel` are `orderGatesByLevel`, `Evaluate` is `evaluate` over levels,
`EvaluateInOrder` the same over gates. The builder's actions take arguments that are valid and
arguments that are not; a throw leaves the circuit as it was, so it is a disabled action. The specification is
`CircuitSpec`, with names of its own so that proofs about the protocol can stand on those about the builder.

`EndpointMatching`. What a party does next depends on the circuit only, never on data, so its
control flow is a `Script`: the sequence of network calls and local computations that
`Offline`, `SetInputs`, `AtDepth`, `GetOutputs`, `Matching` and `PairMatching` list in the order
of the functions they are named for. `pc` is the position in it. The actions interpret a step:
`DoSend`, `DoFlush`, `CallRecv`, `EndRecv` (with what the code does with the array),
`EndLevel` (the linear gates and the aggregated products of a level), `Conclude` (the shares
become answers), `Start` (evaluators constructed and reseeded for a round) and `Close`. Masks,
shares and wires are real residues: `SPDraws` and `PartyDraws` say what each generator's n-th value
is for, `QShare` is the party's message for a product, `DCFEval` and `ToField` the comparison. `Mode`
is the entry point. The DCF is ideal here; `DCF` checks the construction.

`Intersection`. As above, with `Round` for `processIntersectionMatching`. `version` is the program built: the exchange is
the same in all, `Routes` is what differs (`Pairs1`, `Points2`, `Edges3` for `setInputs` of versions 1 to 3; `Packed4` for
`fetchRoutesFromDB`), and `Enough` the comparison with the threshold. `document` is what a route is made of, `routes` the
member array. `Taken` skips triples that are too short and stops at `VERTEX_NUM`; the elements it does not reach keep
whatever memory held (`Garbage`). A PRF value is the pair of key and element. All generators are seeded
alike, so all parties draw the same key (`SelfKey`) and all pair keys are equal, in the code as
here; `BlocksAligned` therefore looks at what each block was computed for, not at its values.

`RoutePacking`. A word is the set of positions of its one bits, `Shl` and `Shr` the shifts of `int64_t` with sign
extension, `high` and `low` the two expressions of the code, `Fits` the limit of 42 bits that the code only logs.

`MatchesCorrect` has two halves, of which the first has no condition. No match is lost: rider and driver with enough elements in common
match, also if documents are short, repeat triples, or hold values beyond the limit, and whatever memory held behind the last triple. No match is
invented, provided the documents fill the member array (`Filled`) and are `Clean`: values within the limit, and, if the threshold is not 0 as
shipped, no triple twice. What is common is computed from the documents (`First`, `TripleAt`: the first `VERTEX_NUM` elements that have three values), not
from the routes that were made of them. Without `Filled` the second half fails: `ShortMatchesCorrect`.

Elements on the network carry a tag (`what`, wire or pair, round) beside their value. The code
sends the value only; no action reads a tag, only `Lockstep` and `BlocksAligned` do.

`DCF`. `GenBit` is an iteration of `DCF_gen_seeded` (`Correction` what it appends to the keys, `GenNode` the state it
carries on), `GenLast` its end. A party may evaluate its key any number of times: `Call` begins a `DCF_eval`, `EvalBit` is an
iteration, `Return` its end; the two parties are not synchronised. The nodes passed are kept, of which the code keeps the last, so that
properties can compare the two walks. The generator G is any function from seeds to two seeds, bits and
values. Comparisons are unsigned, most significant bit first, as `bit_decomposition` makes them.

`Funshade`. `in` holds the inputs and every value the dealer draws. `Plain` is the caller's own sum of products (the
reference, test_fss.cpp), `Generate` and `FinishKeys` are `IC_gen` around the loop of `DCF_gen_seeded`, `EvalDist` an
iteration of `funshade_eval_dist`; `CallP`, `CallQ`, `Walk` and `Combine` are `IC_eval`. SIGN is the interval
`0 .. R/2 - 1`. The setup takes the threshold off party 1's share of the mask, as `funshade_setup` does (`GateInit`). All
sums are modulo R: the code's `int32_t` sums wrap in the build.

`MaxBPM`. `Step` is one iteration of the loop, `Bpm` the recursive function with its copies of `seen`
and `matchR`.

## 3. Runs

| run | bounds | shows |
|---|---|---|
| `netiomp` | SP, rider, driver, bipartite; messages of two elements, buffer of one, three elements in flight, reads of one | types, `EndsAgree`, `FlushedBeforeBlocking`, `FIFOSpec` (refinement of `Channels`), `DialogueResumes`, under every order of all operations |
| `builder` | four gates, one output, arithmetic modulo 3, one constant | `WellFormed`, `LevelsTopological`, `EvaluationAgrees` |
| `distance` | two riders, a driver; twelve gates of all types on several levels; two inputs, three tapes | masks, wires, outputs, lockstep, nothing left unread, termination of `pair_matching` |
| `matching` | two riders, a driver, Euclidean-distance circuit | lockstep, answers and termination of `pair_EDMatching` for all pairs |
| `pair` | one pair; buffer smaller than the messages sent; several DCF output shares | answers and termination where the SP never flushes |
| `connect` | two riders, three drivers; both constructors; one host and several; first port 8000 | `Paired`, `PortsFree`, `NoneDropped`, and `Completes`: all constructors return, in every interleaving |
| `dcf` | three bits; comparison with every alpha, x and seeds for three G (one with collisions); every interval, mask and input; vectors of two elements of both signs | `WalksCancel`, `DCFCorrect`, `DistanceMasked`, `GateCorrect`, `FunshadeCorrect` |
| `intersection` | all four versions; two riders, a driver, two rounds, routes of two elements, buffer of three; packing with words of 5 bits, limit 3 | lockstep, `BlocksAligned`, `MatchesCorrect`, termination |

Four runs end in a violation, each a disagreement between the code and what the repository says:

| run | property | what the trace shows |
|---|---|---|
| `repeat_unflushed` | `Terminates` | two rounds of endpoint matching on one unflushed network: the SP waits for the rider's shares of round 1, the rider for the driver's inputs of round 2, the driver for the SP's lengths of round 2; the shares are in the rider's buffer |
| `any_input` | `MatchesAlwaysCorrect` | distance minus threshold plus mask wraps in R_t and the comparison turns round |
| `intersection_short` | `ShortMatchesCorrect` | version 4 counts uninitialised elements of short routes as common ones |
| `maxbpm` | `FindsMaximumMatching` | with `matchR` by value, two riders who share their only driver count as two |

Two more disagreements are not runs, because code and test agree against the comment:

* `fss.h:102` and `:117` describe the DCF as `x > alpha`; the code and `test_fss.cpp:85` have `x < alpha`, which is what
  `DCFCorrect` states.
* In versions 1 to 3 of intersection matching a count equal to the threshold is a match: `match_count>=DRIVER_RIDER_MATCH_THRESHOLD`.
  The comments on the same lines say otherwise, "greater than threshold" (`Intersection_eval.cpp:125`, `_2:133`, `_3:113`) and "higher than
  threshold" (`Intersection_eval.cpp:140`, `_2:148`, `_3:128`), and so does the test (`quickpool_intersect.cpp:97`, `:124`, `:154`), whose next
  line computes the expected answer with `>=` all the same. Version 4, with the same comments, compares with `>`. `MatchesCorrect` takes the side of code
  and test (`EnoughCommon`); an instance in which as many elements are common as the threshold asks is in the run.

Why the bounds suffice. In the network model, messages twice as long as buffer and read force
partial write-outs, partial reads and data of one pair spread over buffer and socket; a third party
makes flushing the wrong peer visible. The circuit of `distance` has two pairs sharing the driver,
multiplications bundled with dot products in one message, products of products, and every linear
gate. The trips of `pair` are within, exactly at, and beyond the threshold, start and end separately;
those of `matching` differ from pair to pair. Small moduli (64 and 16 for 2^64 and 2^32) make wrapping common. Two riders and three drivers
make the port formulas' two factors differ, and give parties with one, two and three peers of each kind. The DCF's three bits
give a first, an inner and a last step of the walk on and off the path; all seeds and generators are tried with the sign gate,
where all masks and inputs occur, and one choice of them with all intervals. Documents of version 4 have a triple that is too short, one too
many, triples that differ in one bit, a value beyond the limit, and a common triple that is given in a short document, behind an element to skip,
and twice. Which build flushes in `send` matters to
endpoint matching only: one round of it runs unflushed in `distance`, `matching` and `pair`, two rounds in `repeat_unflushed`; the theorems about the network
hold for both. A party's script is
finite, so no counter in the protocols is cut off; `MaxInFlight` and `MaxRead` bound `netiomp`,
`MaxGates` and `MaxOutputs` bound `builder`,
`MaxCalls` the evaluations in `dcf` at the two the gate makes. All runs allow deadlock because every system modelled
really stops; that it stops where it should is `Terminates`.

## 4. Fairness

In the protocols each party is a thread the system keeps scheduling: weak fairness of `PartyNext(p)`
for every party, and none of any single action. A party has one thing to do at a time, so this says only
that a step that can be taken is taken. TCP delivers what was written (`wire` is readable at once);
nothing forces a stdio buffer out other than an overflow, a flush or the destructor. `Connect` asks the same of every party while it sets up: `bind` and `accept` are system calls, and a connect
that fails is tried again every millisecond, for ever. In
`NetIOMP` by itself only the return of a blocked `recv` whose data has arrived is fair: whether a
party ever sends or flushes is the caller's affair.

## 5. Proofs

Every theorem is for all values of the constants that satisfy the named assumptions of the modules, which
TLC evaluates in the passing runs.

* `NetIOMP_proofs`, for any number of riders and drivers, both topologies, with and without flushing send, any buffer size and message set
  * `TypeCorrect`: `Spec => []TypeOK`, with the bound on every buffer.
  * `FlushDiscipline`: `Spec => [](EndsAgree /\ FlushedBeforeBlocking)`; `EndsMatch` is its first half.
  * `ImplementsFIFO`: `Spec => FIFOSpec`, every step of the buffered sockets is a step of `Channels` or a
    stutter.

  The inductive invariant is `IInv == TypeOK /\ EndsAgree /\ FlagCoversBuffer /\
  FlushedBeforeBlocking`. `FlushedBeforeBlocking` alone is not inductive: `recv` flushes only if `sent[]` is
  set, so one has to know that a non-empty buffer implies the flag (`FlagCoversBuffer`). The refinement
  needs `EndsAgree` for the reader to take from the stream the writer appends to. The lemmas
  `CutAndJoin`, `DropFront` and `ItemsAssociate` are the facts on sequences; `FlushEffect`, `SendEffect`
  and `ReturnEffect` say what each kind of step does to a pair's queue.
* `Connect_proofs`, for any number of riders and drivers and either constructor, provided no port computed exceeds 16 bits (`PortAssumption`)
  * `TypeCorrect`, `SocketsPaired`, `NoPortTaken`, `NoConnectionDropped`: `[]TypeOK`, `[]Paired`, `[]PortsFree`,
    `[]NoneDropped`.

  The arithmetic half shows that a port determines pair and connection (uniqueness of quotient and remainder for both
  formulas, and that the SP's block and the riders' do not overlap). The invariant is `ConnectInv == TypeOK /\ ListensRight /\
  QueueRight /\ Paired`: a listener listens for the socket that is its turn, and what is queued there is the one connection
  of the peer whose turn it is as well. `Paired` needs the latter, `PortsFree` the former and the arithmetic.
* `Funshade_proofs`, about `DCF`: for any width, ring, output, seeds and generator, and any number of evaluations
  * `TypeCorrect`, `EvaluationsCancel` (`[]WalksCancel`), `ComparisonCorrect` (`[]DCFCorrect`).

  The invariant is `DCFInv == TypeOK /\ KeysRight /\ WalksRight /\ WalksCancel`. The first two after the types say that keys and walks are those of the loops.
  The lemma `CancelStep` is the construction's own argument: from two nodes that satisfy `Cancel`, one more bit leads to two that
  do, in the cases on the path, leaving it, and off it; the correction word is used in the second. `InvCorrect` adds the last word.
* `Funshade_proofs`, about the gates: for vectors of any length and any interval, `BETA = 1` (`BetaAssumption`), and bits that compare as the
  numbers they stand for (`BitsAssumption`, true when `R = 2^N_BITS`)
  * `GateImplementsDCF`: `GateSpec => Spec`, so that the theorems on the comparison hold of the gate's two evaluations.
  * `DistancesMasked` (`[]DistanceMasked`), `GateIsCorrect` (`[]GateCorrect`), `FunshadeIsCorrect` (`[]FunshadeCorrect`).

  The invariant is `GateInv == DCFInv /\ DealtRight /\ SumsRight /\ DistanceMasked /\ CallsRight /\ OutputsRight`:
  what the dealer made, that the sums are the loops', that both parties walk the key at the gate's two inputs, what they return.
  `SummandsFit` is the algebra of the correlated draws, `IntervalArithmetic` that of the interval with all its
  wrap-arounds: the two comparisons, corrected by the three public ones and the case `q + r + 1 = 0`, leave the indicator.
  `FunshadeIsCorrect` puts the two together: the masked scalar product, with the threshold taken off, is the sign gate's
  input, and a residue in `0 .. R/2 - 1` is a value that reaches the threshold, provided that the difference is a value of `R_t`.
* `EndpointMatching_proofs`, the control: for any circuit, any number of riders, drivers and rounds, any buffer, with and without
  flushing send, and each entry point
  * `LockstepHolds`: `Spec => []Lockstep`. `NothingLeftHolds`: `Spec => []NothingLeft`.

  The assumptions on circuits are what the builder guarantees (`CircuitAssumption`: `BuiltCircuitsWellFormed`) and what the endpoint circuits have: a
  rider and a driver own each wire, and one of them provides it if it is an input (`InputAssumption`). `NetAssumption` includes that the entry point for one pair runs with one
  pair: the code addresses parties 1 and 2 there.

  The invariant is `IInv == Streams /\ Places /\ Waits /\ LengthsRead`. `Lockstep` is not inductive: what is queued for a
  reader depends on everything sent before. `Streams` says, for every pair, that what was sent (`SentTo`) is what was read (`ReadFrom`) followed by
  the tags in the stream between the two, where what was sent and read follows from how far each is in its script. The rest is about the scripts alone:
  `BodiesMatch` shows that all that p sends q is, in order, all that q reads from p. Function by function (`OfflineMatch`, `InputsMatch`,
  `LevelMatch`, `OutputsMatch`, `MatchingMatch`, `PairMatch`) both sides are computed to the same sequence of tags: two walks of the circuit, over one's own gates or over the gates
  of a pair, bundled or one by one. From this, what is queued begins as the reader's next array does (`AwaitedTags`), and when both are at the
  end the stream is empty (`NothingLeftHolds`). One read asks for a number that was itself received, the driver's of the preprocessing values: `LengthsRead` and the
  values of elements tagged as lengths (`Right`) say that it is the right one.

  Sequences are handled by an algebra of `Nil`, `Push`, `Cat` and `Each` ("for x in s do F[x]"), the facts of which come by `PushInduction`.
* `EndpointMatching_proofs`, the arithmetic: for any modulus, circuit, inputs and pair of parties, the three steps by which masks and masked
  wires pass from the operands of a gate to its result. They are theorems about the operators and not about the
  specification; `EndpointValues_proofs` shows that the premises hold whenever a gate is evaluated.
  * `SharesOfLinear`: shares of a linear gate's mask add up to the mask.
  * `LinearMasked`: a linear gate on masked wires gives the plaintext value plus that mask.
  * `ProductsMasked`: the two messages (`QShare`) for a multiplication or dot product add up to the plaintext
    value plus the gate's mask, whatever the length of the operand lists.

  A dot product is a recursive function; its partial sums (`DotSums`) are unfolded by `DotUnfold` and reasoned about by
  induction. `SetInduction` is that induction with a set in the place of the property, from well-foundedness of `<`. `TermCancels`
  is the algebra of one pair of operands, `DotsCancel` of the whole list.
* `EndpointValues_proofs`, the values: for any circuit, inputs, tape, number of riders, drivers and rounds, any buffer, with and without
  flushing send, and each entry point
  * `ValuesInvariant`: `Spec => []ValuesRight`.
  * `TypeCorrect`, `MasksAgreeHolds`, `WiresMaskedHolds`, `DistancesCorrectHolds`: `[]TypeOK`, `[]MasksAgree`, `[]WiresMasked`,
    `[]DistancesCorrect`.
  * `MatchesCorrectHolds`: `[]MatchesCorrect`, for `pair_EDMatching` with all pairs in any number of rounds, for that with one pair in one round. With
    several, rider and driver of the pair may be in different rounds, and then their shares are of different comparisons: the property speaks of
    the two shares of one.

  Besides the assumptions above: the values in circuits and inputs are integers, inputs have no operands, and a gate has its operands' owners
  (`OperandAssumption`, `InputAssumption`; `generateEDSCircuit` makes such circuits, and `evaluateGatesAtDepthPartySend` reads masked operands that only their owners
  have); every generator yields residues and as many as are drawn (`TapeAssumption`); the SP's shares in the comparison
  are residues of `R_t` (`ComparisonAssumption`).

  None of these properties is inductive: a wire is right because of what was sent, long before, by parties who computed it from masks
  that were drawn from other generators. The argument has four parts.
  1. What is right is fixed by the inputs, the tape, the SP's round and its random shares (`Context`). The masks of preprocessing are defined by
     recursion on the wires, at the SP and at a party by different walks of the circuit; `DrawsAgree` shows that the same value is drawn for the same
     purpose in both, and from there the shares add up, gate by gate, to the mask, and `Plain` plus mask solves the online phase's equations
     (`SharesOfLinear`, `LinearMasked`, and the algebra of `ProductsMasked` in `DotsCancel` and `MessagesAdd`; `EvaluationSolves` for the plaintext; `SolveBelow` gives the recursions a solution).
  2. How much of it a party has depends on its place in its script alone. `Has` describes it (round, preprocessing, wires known, last arrays), `After` a
     step's effect, `Allowed` what the step needs. Function by function, down to a single gate, the scripts are shown to need nothing that is not there
     (`Runs`), so that a trace of descriptions along the whole script exists (`TraceOf`); `Ghost(p)` is where p is on it. No variable is added to the model.
  3. `ValuesRight` says that what every party holds (`PartyRight`: preprocessing, wires, arrays, results) is what its description lists, with the right
     values, and that every element in every stream is right for the wire and round of its tag (`Fits`).
  4. It is inductive given `IInv`. A read returns what the description expects because the two ends are in step; values from an earlier round's
     comparison do not count as right or wrong any more once the SP has drawn the next shares (`FitsLater`). One lemma per action (`StartMoves`,
     `SendMoves`, `FlushMoves`, `CallMoves`, `ReadMoves`, `EndLevelMoves`, `ConcludeMoves`, `CloseMoves`) shows the step.

  For the answers, `MaskedDistance` and `AnswerRight` are the arithmetic of the comparison: the sum of the two shares is 1 exactly if
  distance less threshold, plus the mask, is below the mask in `R_t`, which is what it is meant to be as long as neither wraps (`Comparable`).
* `Intersection_proofs`, for any number of riders, drivers and rounds, routes of any length, any buffer, with and without flushing send
  * `LockstepHolds`, `BlocksAlignedHolds`: `Spec => []Lockstep`, `Spec => []BlocksAligned`.
  * `MatchesCorrectHolds`: `Spec => []MatchesCorrect`, both halves, in all four versions, for any thresholds and documents.
  * `PackingInjective`, `LimitIsTight`, for any widths with `LIMIT + LOW <= WORD` and `2 * LIMIT - LOW <= WORD`: triples within the
    limit that are packed alike are equal; with a value one bit beyond it, two different triples are packed alike.

  The invariant is `IInv == Settled /\ Positions /\ Waits /\ Flows /\ ArraysRead /\ Answers`. None of the three properties is
  inductive: what is queued for a blocked reader depends on everything that was sent before it blocked. `Flows` says what that is: a stream holds
  the batches its writer has sent and its reader not yet read, whole and in order, and the two numbers follow from
  where the two parties are in their scripts (`Made`): every flow has one call at each end per round (`ScriptSend`, `ScriptRecv`),
  and there are no others (`ScriptCover`). `Waits` ties a blocked `recv` to the script, `ArraysRead` the SP's arrays to the round it is in,
  `Answers` the answers given to the routes. `SendFlows`, `FlushFlows` and `ReadFlows` are what each network operation does to the batches, on top of
  `StreamAppend`, `StreamFlush`, `StreamRead` in `DataLemmas`. For the answers, pairs of equal PRF values are pairs of
  places with equal route elements (`CountOfPair`). The loop over a document takes just its first usable elements, each to the place that counting gives it
  (`TakenOfFirst`, by induction over the document), so that every common element has a pair of places of its own and the count is no less
  (`CommonHavePairs`). It is no more if the array is filled, no element occurs twice (`PairsOfCommon`) and different triples give different elements
  (`PackingInjective`); with threshold 0 one pair is enough, and it comes from one common element.
* `Circuit_proofs`, about `CircuitBuilder`: for any owners, constants and vectors offered
  * `BuiltCircuitsWellFormed`: `CircuitSpec => []WellFormed`. The
    invariant is inductive as it stands: a new gate's operands are checked against the gates so far (and it has as many as its type reads), and old gates
    are never changed.
  * `LevelsTopologicalHolds`: `CircuitSpec => []LevelsTopological`. Joining the levels and picking from a sequence keep the
    order (`PickProperties`, `FlattenProperties`), so that the list is ordered by level and within a level by age
    (`OrderOfGates`); a gate's level is at least its operands', more for a gate the parties talk for (`LevelUnfold`).
  * `EvaluationAgreesHolds`: `CircuitSpec => []EvaluationAgrees`. Along any list in which a gate reads only earlier ones, evaluation
    gives a solution of the gates' equations (`EvaluationSolves`), and there is only one (`EvaluationUnique`); the list by
    level and that by age are both of this kind (`LevelOrderTopological`, `AgeTopological`).

  Both follow from `WellFormed` alone, by the lemmas of the same module on `GateLevel` and `EvaluateInOrder`.

The operators proved about are written as recursive functions. Such a function is introduced by `Recursion` in `DataLemmas`
(a function on `Nat` that satisfies the equations exists), and facts about all its values follow by `SetInduction`.

Every safety invariant and refinement that a passing run checks is proved. Only model-checked: liveness (`DialogueResumes`, `Completes`,
`Terminates`), which is outside the prover's reach; and `MaxBPM`, which only has a run that ends in a violation.

## 6. Not modelled

* Ports beyond 16 bits: `Port` cuts them as the system does, but the instances and theorems are about deployments whose ports fit.
* Parties that never start: then the others' constructors do not return, as in the code.
* `sync`, `count`, `resetStats`, the `ZZ_p` and bit-vector sends: not used by the protocols.
* Finite kernel socket buffers: `wire` takes any amount. Two parties who both send more than sockets hold before they
  read would block; at the message sizes here they do not.
* Crashes: no code handles one.
* Signed overflow in `Field` and `R_t` is undefined in C++; it is modelled as wrapping, which is what the build does.
* `setAsOutput(wid)` without owners makes `getOutputs` read an empty vector; outputs' owners are taken from the gate, as in all circuits built here.
* More than 200 parties: `ED_offline_eval.cpp:13` passes the seed as the number of generators.
* The database query of version 4 and its failures, which end the process; the drawing of random vertices (all assignments of the
  instance stand for it); the PRFs, ideal here; AES, for which any G stands; stack limits for the arrays whose length is computed.
* The batch forms of funshade: loops of the single ones over independent instances. They have OpenMP directives the build
  does not enable; with them the index that is shared between iterations at fss.cpp:387-396 would be a race.
* The dummy and randomised variants of preprocessing and inputs used by benchmarks; the operator classes of `sharing.h` one by one
  (the evaluators' own arithmetic on shares is modelled).

## 7. Plan

Order: network, circuits, endpoint matching (the system's core), DCF, intersection matching, local
matching, connection set-up, gates, packing; proofs of network, builder, levels and evaluation, set-up, DCF, gates, packing,
intersection matching, and endpoint matching: control, the masked evaluation gate by gate, values. These are done. Next:

1. That `EndpointMatching` and `Intersection` use the network only through its operators, so that their projections implement `Channels`.
2. Bounded sockets in `NetIOMP`, and at which size the level exchange needs them.
3. That the state `Connect` ends in is `NetIOMP`'s initial one, as a refinement of the two in sequence.

The number of runs is kept small by joining questions about one instance in one run.
