# Meant / candid-core: a TLA+ verification project

This directory holds TLA+ models of the program in `../src`, TLC runs over
small instances of them, and theorems checked by TLAPS. Paths below are
relative to the repository root (`src/...` in `PROJECT.json` is that root, so
`src/src/canonical.rs` is the crate's `src/canonical.rs`).

The program turns Candid `.did` source into a validated canonical *Contract*:
a type graph with declarations and an actor, two identities (hashes) that do
not depend on how the source was written, and provenance for every node. Around
that core stand runtimes that act on a Contract: generated TypeScript clients
and a Candid codec, a WebAssembly build with a compatibility checker, and the
Meant profile packages, which compile, plan, render and reconcile what a signer
is asked to consent to.

## 1. Inventory

### Rust core (`src/`)

| component | state | operations | what is hard |
|---|---|---|---|
| limits, budget (`limits.rs`, `budget.rs`, `bounded.rs`) | per-call counters, a shared cancellation flag, a deadline | `checkpoint`, `charge`, `observe`, decoding under limits | the flag is raised by another thread; a counter at its limit; charging once and not twice |
| resolver (`resolver.rs`) | in-memory map, or a workspace root | `identify`, `load` with checks before and after the host's call | the host answers with something else than it identified; symbolic links; interruption around the call |
| import loader (`compile/loading.rs`) | pending stack, units, index, counters | identify, pop, load, accept, expand | cycles, diamonds, order of imports, depth, limits hit half-way |
| nesting guards (`compile/nesting.rs`, `compile/lower.rs:317-491`) | an explicit stack, token cursors, name graph | source nesting, comment pre-flight, type depth, opt-only cycles, record field overflow | must never recurse before the recursive parser runs; cyclic definitions |
| bundle check (`compile/bundle.rs`, `mod.rs`, `materialize.rs`) | a temporary directory, merged program | merge actors, resolve the actor, materialize for the checker | order of units; partial failure while writing files; cleanup |
| lowering (`compile/lower.rs`) | environment, arena, memo, provenance | definitions to nodes, old-to-new provenance remap | recursion through names; placeholder nodes |
| canonicalizer (`canonical.rs`) | partition, quotient, renumbering, work counter | refine, quotient, re-index, hash | result must not depend on the input's numbering; termination; work limit |
| validator (`validate.rs`) | violation collector | structure, references, class placement, reachability | every violation reported up to a limit; validation against canonicality |
| source info, artifacts (`source.rs`, `artifact*.rs`, `envelope.rs`) | identities, text units, spans | derive, validate, decode, bundle identity | provenance stale against the Contract; re-derived identity |
| host values (`value.rs`) | explicit stacks | encode, decode, validate a value against a type | depth and node limits, option nesting, recursive types |
| diagnostics, doc attributes | lists | spans, doc comments to declarations | formatting |

Interactions: the compiler calls the loader (which calls the host resolver),
then the nesting guards, the checker, lowering, the canonicalizer, the
validator and the source-info derivation, all with one `Budget` that the three
`checkpoint`/`charge`/`observe` calls share. The cancellation token is the only
state another thread writes.

### Other crates (`crates/`)

| component | state | operations | what is hard |
|---|---|---|---|
| TypeScript generator (`candid-core-ts/src`) | name table, cycle set | emit types, schema, docs | name collisions, recursive types, omissions |
| TypeScript runtime (`candid-core-ts/ts`) | codec work stack, type table, validation issues | encode/decode Candid, validate, forms | subtyping on decode, hostile sizes, recursion without the stack, option coercion |
| WebAssembly (`candid-core-wasm/src`) | session-less calls, assumption set | compile, compat (subtyping), project | coinductive subtyping with options, caching assumptions that later fail |
| npm CLI (`candid-core-wasm/npm`) | argument parsing, files | compile, check, init | exit codes, partial writes |
| formatting (`meant-format`) | none | amounts, integers, text | rounding, width, grouping |

### Profile packages (`profile/packages/`)

| component | state | operations | what is hard |
|---|---|---|---|
| tool layer (`tools/src/layer.mjs`) | one intent per identity, its previews, the stamps handed out and sent | prepare, commit, settle, reconcile | calls interleave at every `await`; a call may run after its sender gave up; retries, new stamps |
| tool plans, inputs (`tools/src/plan.mjs`, `input.mjs`) | none | a form to tools, a tool's input to arguments | skipping a method against failing on it |
| reconcile | none | a call to the block it leaves, judging the blocks of a range | saying `absent` of a call that ran or may still run; a twin's block |
| consent | terms, ERC-7730, EVM, SNS, ICRC-21, display, grant | decode and render what is consented to | mirrored in Rust: two implementations must agree |
| resolver | ABI graph, documentation annotations | resolve, analyze, compile, subtype, check | subtype recursion, stale annotations |
| format | none | amounts, times, text | units, rounding |

Left aside: `docs/`, `website/`, `fuzz/`, `benches/`, `examples/`, tests and
goldens (read, not modelled), packs and generated files.

## 2. Modules

Each module opens with a comment that says what it models and what it leaves
out; "map" in `PROJECT.json` names the lines of every definition.

### Compiling

| module | models | how its state and actions correspond |
|---|---|---|
| `ImportLoader` | `compile/loading.rs:3-256`, the budget calls it makes, `resolver.rs:209-250` | `stack`, `units`, `actor`, `spelled` are the loader's `pending`, `units` and `indexes`, `include_actor` and the last pass; `consumed` the budget's counters; one action per stretch between two places where the token or the clock is read (`Cancel` and `Expire` come between any two) |
| `PartitionRefinement` | what refinement promises: split classes until none splits; an abstract specification | `class` names the class of each node, `Split` renames by any injective naming of (class, label, classes of the children) |
| `Canonicalizer` | `canonical.rs`, work costs included | one action per phase (`FirstPartition`, `RefineRound`, `TakeQuotient`, `Reindex`, `HashContract`, `HashInterface`, `Finish`); after a first success the environment rewrites the result (renumbers, reverses, duplicates, drops or adds declarations) and the phases run again |

### Two runtimes for Candid

| module | models | how its state and actions correspond |
|---|---|---|
| `Leb128` | the variable-length integers of `codec.ts` | functions; a group has `GroupBits` bits instead of 7, so that long forms can be enumerated |
| `CandidTypes` | what the walks share: schema nodes, wire types, host values, labels (`schema.ts`, `codec.ts`, `labels.ts`) | functions |
| `TypeTable` | `codec.ts:786-1592`, `typetable.ts`: the type walk with its memo, and the canonical table | folds over the schema objects; `policy.mints` says that a thunk builds its body anew |
| `CandidEncode`, `CandidValidate` | `encodeArgs`, and `validate.ts` | a walk is (elements charged, bytes or issues, over); each is one synchronous call |
| `CandidDecode` | `decodeArgs`: header, coercion, skipping, rewinding | `stack` is the explicit stack of frames, `call` what the walk does next; one action per way a value, a skip or a missing field begins, per kind of frame resumed, and for the unwinding to the nearest expected `opt` (`Absorb`) |
| `CandidCodec` | the three walks as one resource model | `Send` validates and encodes host values in one step, and the bytes become the message that `Receive` decodes |
| `Contracts`, `ContractCodec` | `contract.ts`: a Contract document becomes schemas, or issues | a load is one synchronous call: `Load`, the passes in the code's order as functions; `Use` hands its schemas to the codec |
| `RefSubtype` | `codec.ts:3399-3414`, `3467-3887`: `referenceAt`, `wireSubtypeOfSchema` | a frame of `stack` is a `SubFrame`, `memo` the decoder's `subtypeMemo`, `opened` the bodies built by recs; `Ask` is the next reference of the message, the other actions are one obligation of the top frame each |
| `CompatWalk` | `compat.rs` `Checker`, one method | a frame of `stack` is one call of `sub`; `proven`, `log`, `failed`, `warnings`, `truncated`, `steps` are the checker's fields; one action per obligation met and per way a call returns |
| `PackSubtype` | `subtype.mjs`, the resolver's checker of the same relation | `Begin`, one `MatchPosition` for each position of a method, `Finish`; the recursion of a position is a recursive operator that hands its assumptions on |

### Profiles and calls

| module | models | how its state and actions correspond |
|---|---|---|
| `Formats` | the `format` package: amounts, times, durations, bytes, accounts, names | functions from the parts of a text to a value and back |
| `Interfaces`, `Envelopes`, `Profiles` | the resolver: addresses and layers of tags; envelopes of other tools; profiles and packs analyzed and merged | functions of documents and interfaces; the refinement of a foreign graph is stepped by `ProfileTools!SplitBlocks` |
| `ToolInputs`, `ToolPlans` | `input.mjs`, `plan.mjs`: a form to tools, a tool's schema, inputs to arguments, identity, outcome classes | functions |
| `ProfileTools` | the steps of a host from a compiled service to a call prepared twice and a reply classified | one action per call of the packages (`CheckEnvelope` to `ClassifyAnswer`); each variable is what one of them returned |
| `DedupLedger` | the canister and the network, external: what `layer.mjs` and `docs/profile-v0.md` expect of `replay_same_payload` | clock, executed calls and messages in flight |
| `ToolLayer` | `layer.mjs` `createToolLayer` over `DedupLedger` | one action from each `await` to the next; `call[c]` is what caller c awaits and the locals it holds over the await; `woken` are continuations queued as microtasks |
| `Reconcile` | `reconcile/src/index.mjs`, with the ledger, the network and the caller around it (external) | `log` is the ledger's, `inflight` the network's, `sends` and `floor` the caller's; `BeginReading` reads the clock, `FinishReading` the log, and judges it as `matchBlocks` does |

`MC...` modules hold the instances TLC runs; `..._proofs` modules the theorems.
A definition `Name_Variant` beside `Name` is a plausible mistake in that piece of
the code: the specification does not use it, and with it in the place of `Name`
the property listed under "mutants" in `PROJECT.json` fails.

Composition: `ToolLayer` EXTENDS `DedupLedger` (they share messages and time);
`ContractCodec` EXTENDS `CandidCodec`, which EXTENDS the three walks;
`PackSubtype` EXTENDS `CompatWalk`, so that one run holds two implementations
of one relation against it; `ProfileTools` EXTENDS `Envelopes`, `Profiles` and
`ToolPlans`. `MCProfileCalls` puts the host's half of a call and the caller's
half in one run; they share no state. `Canonicalizer` is shown to implement
`PartitionRefinement` by `INSTANCE ... WITH`, the labels being local signatures
and the classes the code's partition numbers.

### What is abstracted

- Loader: a source is its list of imports and a size. Parsing, the nesting
  pre-checks and the per-source type depth are one outcome (`unparsable`), since
  all three end the load and change nothing. The resolver is any resolver the
  trait allows, wrong in one of eight ways per source.
- Canonicalizer: a hash is its payload, so "equal identities" means "equal
  payloads"; a node is its kind, the part of its local signature that is not a
  reference, and its edges; work costs are kept, with the same formulas. Sorting is
  what it results in (`Sorted`: the ascending sequence of the same elements), and what
  validation guarantees of a contract is the assumption `JobsAssumption`.
- CompatWalk, RefSubtype, PackSubtype: labels are numbers; the wording of a
  reason is left out, its path is kept. In RefSubtype the value walk is any
  sequence of references of matching kind; record, tuple, unit, blob and vector
  are a record and a vector; an object's identity is its node and, when bodies
  are built anew, the opening that built it. `Holding`, `Walks` and `Rule` in
  the properties are reference definitions written from the subtyping rules and
  not from the walks.
- Codec: bytes are numbers; floats are only skipped; a text is its bytes. Charges and limits
  are kept, also where the walks differ: a blob's bytes are charged one level
  below on decode only (`verification.md:63`). Whether a reference is a subtype
  belongs to the world here, since RefSubtype is about it. Two knots of one
  recursive type stay two types, so `BytesFollowTypes` speaks of types with one
  knot each.
- Contracts: paths and messages of issues, freezing, and the hash of a name
  are left out. With hash-honest names `duplicate_field_name` cannot be reached.
- Profiles: a text is what its syntax splits it into; days have their real
  calendar, smaller units the scale of the instance. Wording, titles, `fixed`
  pins, base64, the EVM half and the matching of packs to a service are not modelled;
  nor is `lossyOpt`, which is off where packs are matched (`pack-match.mjs:17`).
- ToolLayer: one identity (the same canister, method and arguments), because
  intents of different identities share no state; encoding is the stamp the
  arguments carry; a preview's rendering is left out. `MAX_ANSWERED_UNKNOWN` and
  `MAX_RETRY_SAME` are constants, 1 and 2 in the runs instead of 2 and 3, so that
  the runs reach them. Awaiting a preparation that has already failed, which only a third
  caller can meet, is no wait (`Pending`).
- Reconcile: accounts and memos are opaque; the ledger writes a block in any of
  the shapes the package's comments and tests name.

## 3. Runs

A component is checked in one run, whose initial states range over its families
of inputs and limits; a composed component in the run of the composition.

| run | question | bounds, and why they are enough |
|---|---|---|
| `loader` | Does a load accept exactly the reachable, acyclic, faultless bundle within the limits, in depth-first order with its actors, refuse only for what is there, and end? | all graphs of three sources with two imports of both kinds (one for the last): self-imports, cycles of two and three, diamonds, one target imported twice in both kinds; then four sources with every fault at every source; depth 2, 3 sources, 4 edges, 3 bytes, each limit broken by some graph and met exactly by another |
| `type_graphs` | One canonical result for all ways of writing a contract? Nothing alike left? Does the interface identity depend on the actor alone? Does the code implement the abstract refinement? And of the decoder's reference checks: is a refusal right, is an acceptance with no refusal before it right? | two algorithms on cyclic graphs that share no state, a behaviour being of one or of the other. Every arena of three nodes (primitive, optional, two-field record) with every rewriting; service contracts of six nodes under a limit that is never met, a few of them under 400 units, which they exceed. Three nodes are the fewest with a cycle and a node off it. Two references of a message (the second meets what the first left); funcs that take and return each other, and every other kind of type with members missing on one side; schema bodies built once or anew; a depth limit that is never met and one that is; a rec without an end |
| `compat` | Verdict, warnings and failure path against the reference relation, for the report and for packs; does a bound ever become a verdict? | two arenas of three nodes each, two of them free: recursion through either side, both, and through contravariant arguments, under bounds no walk meets; then nested records and optionals under depth 4, 30 steps and one warning, where each is met |
| `codec` | Is decoding what the specification says, of every message? Do encoder, validator and decoder agree, do bytes depend on types alone, and are documents from outside accepted exactly when sound, do their schemas and their actor denote what the document says, and is exactly the tainted left out? | short bodies over a few bytes for every kind of type, headers with one byte changed, every number of four bytes; host values of every kind, at limits and past them; schema graphs with shared and rebuilt bodies; documents of three types, and a good one with one place changed. The run checks for deadlock: a codec call always goes on to its result |
| `tool_calls` | Two callers, one identity: can anything run twice unknowingly, a settled intent run, an answer lie, a call wait for ever? | two intents, three messages, one re-stamp, a clock to 6 with a window of 1: enough for expire-then-arrive, resend-and-late-arrival, re-stamp-and-late-arrival; methods with a stamp and without |
| `profile_calls` | What the profile packages make of a call; and can a call whose outcome is unknown be judged wrongly from the log? | ledgers, commands and queries with one position per kind of tag; documents at every layer; inputs that differ in at most one parameter from a good one; calls of the three methods, each with rivals that differ from it in one thing, two blocks of other traffic and a clock past the window |
| `tool_race`, `tool_repeated`, `tool_stamps`, `loader_depth`, `reference_again`, `contract_actor` | what comments and documents say (violated) | the smallest instance that shows each |

All runs but `codec` and `contract_actor` set `CHECK_DEADLOCK FALSE`: a load, a canonicalization and a
walk are calls that return, and an agent or a clock may stop.

### Fairness

- `ImportLoader`: `WF_vars(Step)`. The loader is one synchronous call; nothing
  parks it. The host's `Cancel` and `Expire` are not fair.
- `ToolLayer!FairSpec`: `WF_vars(Resumes(c))` for each caller, that is, a host
  function that was awaited settles, with any of its outcomes. The layer has no
  timeout of its own, so without that assumption nothing is promised. The
  network and the clock are not fair: a lost message shows as the transport
  throwing, which `NoAnswer` may do at any time.
- The others: safety only. That a refinement ends is the safety property
  `WorkRefusalIsReal`, which is proved.

## 4. What the runs found

- `loader_depth`: the early return for a source that is already a unit
  (`loading.rs:68`) also skips the depth check of everything below it. Whether
  a graph is refused depends on which of two paths comes first in the text.
- `reference_again`: a pair proven while an enclosing pair was assumed stays
  `true` in the decoder's memo when the enclosing pair is refuted
  (`codec.ts:3499`). An expected `opt` absorbs that refusal, and a later
  reference of the message is accepted on the stale answer.
- `contract_actor`: an actor of kind `class` that names a service node is loaded
  (`contract.ts:1366` checks the node of a service actor only), where the comments there
  and `contract-strictness.test.ts:1` say that both loaders refuse the same documents and
  `validate.rs:525` refuses it. `AcceptedIffSound` says of all other documents that the
  accepted ones are exactly the sound ones.
- `tool_race`: a preparation that finds another in progress waits once and then
  registers without looking again (`layer.mjs:279`). When the first one's
  encoder rejects, two waiters each register an intent and a stamp.
- `tool_repeated`: preparing an intent while its commit is being sent answers
  "It has not executed." of a call that may have (`layer.mjs:86`, `:287`).
- `tool_stamps`: only sent stamps raise the floor (`layer.mjs:247`), so after a
  declined preview a clock reading behind it gives the next intent an earlier
  stamp than `profile-v0.md:222` asks for.

Two properties name exceptions the code's own comments make. `FoundIsTheCall`
allows a block without spender and without a transfer's btype that a twin left,
and a capped approval, whose block reads as the approval of exactly the cap
(`index.mjs:20,35,233`). `AcceptedBeforeRefusals` stops at the first refusal, as
`reference_again` shows it must.

## 5. Theorems

For every value of the constants that satisfies the modules' ASSUMEs: any graph,
arena, message, number of callers, clock and limit, where a run has a few.

| theorem | states | a run checks |
|---|---|---|
| `LoadedExactly`, `ActorsKept`, `AcceptedAcyclic`, `DepthFirst`, `VerdictsHaveReasons`, `TotalsAreThoseOfTheGraph` | what an accepted bundle is, and why the others were refused | `loader` |
| `OneNodeForEachType`, `MeaningDecides`, `RefusedForItsWork` | what canonicalization computes, on what that depends, and what it costs | `type_graphs` |
| `RoundsRefine`, `ClassesAreExact` | the code's rounds are abstract refinement, and they end at the greatest bisimulation | `type_graphs` (the first) |
| `VerdictIsRight`, `ReportsAreReal` | the report's verdict is the relation's, its warnings are the places where a value decodes as null, and the path of a failure leads to a reason | `compat` |
| `AcceptedIsRight`, `RefusedIsRight` | what the decoder's reference check says | `type_graphs` |
| `SettledIsOver`, `AnswersAreHonest`, `OneIsLive`, `RunsAgainOnlyKnown` | the tool layer's promises | `tool_calls` |
| `FoundIsRight`, `AbsenceIsForEver`, `RegularBlockIsFound` | what a judgement of the log is worth | `profile_calls` |

**Loader** (`ImportLoader_proofs`). `LoadedExactly` and `ActorsKept` rest on an
accounting invariant, `WalkInvariant`: every import of a loaded source is either
still pending on the stack (or is the request being loaded) or already a unit
whose actor flag covers it, and everything pending or loaded is reachable from
the entry through such an import. The properties themselves are not inductive:
they speak of the end. `AcceptedAcyclic` needs more, because a cycle is searched
for only along the path of the request that is popped. The invariant `ChainInv`
says what that search leaves out: the loaded units off the open path import only
each other and hold no cycle; an import of a unit on the open path is such a
closed unit, or the next on the path, or still pending with a path of that
length; and a request for an open source has that source on the path that is
searched. `VerdictsHaveReasons` rests on `RealInv`: a request's path is a chain of
imports from the entry as long as its depth, so a repeated source on it is a cycle
and a depth past the limit a chain that long; one charge was made per unit; what
had to be checked of a source was, when it became a unit. It assumes that the
sources are finitely many, because a refusal for their number is compared with
how many the entry reaches. `TotalsAreThoseOfTheGraph` rests on `TotalsInv`: the
counters are the totals of what was loaded, a total being the number of units in the
weights (`Ones`), so it does not depend on the order in which it was added up, and
fewer sources have less of it. `DepthFirst` rests on `OrderInv`: the requests waiting
are sorted by the unit that made them and, for one unit, against the order of its
imports, and no import is missing among them; so the one popped is the first
unlisted import of the latest unit that has one.

**Canonicalizer** (`CanonicalForm_proofs` about values, `Canonicalizer_proofs` about
states). The invariant `CanonicalInv` says of each phase what the code has by then: the
partition is one that the rounds reach from the signatures (`Reached`), and after the
last round its next partition has no more classes (`Final`); the quotient, the result
and the identities are those functions of the input; and what the first pass returned is
what it would return. None of the three safety properties is inductive, because each
compares results, and the results do not say what they came from.

- `RoundsRefine`: a round numbers the signatures in their order, and a number names a
  signature, so it is a `Split` under some injective naming. That the naming exists is
  what `FirstPartitionAssigns` and `RefineRoundRefines` prove.
- `ClassesAreExact` is then a fact of abstract refinement: no round separates two nodes
  that some bisimulation relates (`BisimilarStayTogether`), and when none splits, the
  classes are themselves a bisimulation (`StopsAtGreatest`).
- `OneNodeForEachType`: the final partition relates only nodes that mean the same and
  all of those, so two nodes of the result that meant the same would be two classes that
  some round had to separate and none could. Every input node has the canonical node of
  its class (`Stands`), with its signature and with its edges sent along.
- `MeaningDecides`: contracts whose nodes can be paired so that signatures are equal and
  edges lead to pairs (`Alike`) go through the same rounds with the same numbers, because
  a number counts the smaller signatures and both have the same ones (`FinalAgrees`). The
  visit that renumbers looks at class numbers and edges alone, so it meets both in
  the same order (`WalkPairs`), and the results are equal. Declarations are paired by
  name and not by position; the interface identity needs the actor alone. That any
  rewriting by the environment gives such a pairing is part of `FirstInv`.
- `RefusedForItsWork`: `SpentInv` bounds the work of the rounds by their number, and
  every round but the first and the last adds a class, of which there are no more than
  nodes. The quotient and the result embed in the input, one node for a class, so sorting,
  indexing and hashing them costs no more than the input would. `WorkInv` adds these up.

**Compatibility walk** (`CompatWalk_proofs`). A walk that finished may have been
cut at pairs that are still in progress, so "proven" is not "true": the
invariant speaks of `Relies(A)`, what holds once the pairs of A do. What a walk
got past relies on the pairs it was cut at and its own (`Passed`); when it
finishes it may drop its own (`ReliesOnLess`, the coinductive step); what is kept
as proven relies on pairs of the stack, the deepest of which knows to forget it
(`Justified`). When the walk of the method ends, nothing is left to rely on, and
`Relies` of nothing is the relation. Failures are of pairs outside the relation
(`Refuted`, `Failing`), because each walk waits for a pair that its caller cannot
do without, probes apart (`Linked`). Two lemmas with a meaning of their own:
`ObligationsAreTheRules`, the walk asks of a pair exactly what the rules of
subtyping do; `HoldingIsTheLargest`, dropping pairs until none is left to drop
reaches the largest relation. `FailurePathIsReal` (the half of `ReportedPathsAreReal`
about failures) rests on `FailureInv`: what is remembered of a refuted pair, and what
travels up, leads from its pair to a lack (`Leads`), and no two steps of a list share
a segment (`TodoApart`), so following segments finds the step that was taken.

**Its warnings** (`CompatWarnings_proofs`). `ReportsAreReal` adds the half about warnings:
of a compatible method they are the routes, paths without a repeated pair at whose end a
value decodes as null, each once, or as many as the bound allows. While a walk is under
way neither half of that is true of the list: it holds warnings of pairs that may yet
fail, and misses those past a pair where a walk was cut. So `WarningInv` makes a claim for
every frame, conditional on the pairs the walk is inside of (`Claims`): what was kept are
routes through the steps the frames are at, and every route past a step that a frame got
past is kept, unless it meets a pair where that frame was cut. A proof of the memo makes
the same claim of its pair, which is what lets `repeat` copy its warnings under another
path; and a probe keeps what its mark would restore (`SavedAt`), so a failure inside it
undoes its warnings and proofs and nothing else. When the method ends no pair is left to
assume, and no cut.

**Reference checks** (`RefSubtype_proofs`). The memo is unsound in general
(`reference_again`), so the invariant is conditional: while nothing was refused, the
pairs of the memo, the assumed ones included, carry one another (`Supported`), so
they are part of the largest relation once the stack is empty. The other
direction is unconditional but for the depth: a pair on the stack is a subtype
only if those above it are (`Linked`), so a failure refutes them all and every
`false` of the memo is right (`Refuted`). `RulesAreObligations` and
`SubtypesAreTheLargest` are the counterparts of the two lemmas above.

**Tool layer** (`ToolLayer_proofs`). At most one caller works on an intent
(`busy`, `WorkInv`), so what the layer knows of an intent is what that caller was
told. While no outcome was unknown, each message under way is the one its
caller waits for (`MessageInv`, `SendInv`); with no attempt there was no unknown
outcome; stamps are unique, so `already_done` is about the caller's own preview
(`StampInv`); a superseded preview never runs (`PreviewInv`). `OneIsLive` and
`RunsAgainOnlyKnown` need one hypothesis, `Undisturbed`: no host function fails,
or no three different callers exist. Without it they are false, as `tool_race`
shows; `tool_calls`, whose host functions do fail, has two callers.

**Reconcile** (`Reconcile_proofs`). `FoundIsRight` and `RegularBlockIsFound` come
down to facts about one block and one call, whatever shape the ledger wrote it
in (`Wrote`): a block with the call's stamp, payload and payer is of the call, or
is one of the twins the comments name. `AbsenceIsForEver` rests on `AbsentInv`:
the clock that was read before the log is past the window, so nothing that is
still in flight can be executed.

Assumptions used are the modules' ASSUMEs: that constants are of their kinds,
that arenas are finite and refer to their own nodes, that keys within a node are
distinct, for `Canonicalizer` what the validator has checked of a contract before it gets
there (references that exist, members and declarations named once), and for `Reconcile`
that a payer's account belongs to one caller.

Recursive functions over data are reasoned about by a least counterexample
(`WFMin` of the well-foundedness theorems), which needs no induction theorem
with an operator as its parameter.

### Only model-checked

- Liveness (`Terminates`, `NobodyWaitsForEver`): it needs ENABLED.
- Everything of the codec, the contracts, the packs and the profile packages
  before the log: their modules need RECURSIVE operators, which the provers do not take.

## 6. Plan

Still to write, in this order:

1. `CompatReport`: the loop over the methods (`compat.rs:1364-1772`,
   `lib.rs:440-497`): a pass means all methods hold, a report is fail-closed
   when its budget ends, every method is accounted for.
2. `Budget` with a second thread raising the token, as the component the loader
   and the canonicalizer share; `NestingGuards` (type depth, opt-only cycles,
   recursive names) against reference definitions.
3. `BundleMerge`, `Lowering`, `Validator`: from merged programs to a Contract,
   composed with `Canonicalizer` (validated implies canonicalizable; provenance
   survives the remap); `SourceInfo`: identities of sources and spans.
4. `HostValues`; the matching of packs to a service; the terms of `consent`; the
   generator's cycle rule.

Known places where model and code were compared and no property speaks, because
the code's intent is not written down: idempotency whose stamp's timestamp tag
came from a pack tag that was dropped (`analyze.mjs`); an equal duplicate of a
stale profile's tag, which is lost; a `named` set declared by an overridden
names tag; two outcome keys spelled differently with equal ids; `names` entries
whose values are null.

Not planned: text rendering (formatters, diagnostics, documentation comments),
which is data without control; the npm CLI, which is argument parsing around
one call; the third-party parser and hash functions.
