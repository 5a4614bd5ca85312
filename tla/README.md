# TLA+ models of unlynx

This directory holds TLA+ specifications of the distributed protocols of
unlynx (`src/`), the TLC configurations that check them, and `PROJECT.json`.
`PROJECT.json` maps every definition to the source lines it models and lists
the runs, the mutants, the findings and the hazards.

## 1. The system

unlynx lets a roster of conodes compute aggregates over ElGamal-encrypted
records. The parts in `src/` are:

| part | source | what it does |
|---|---|---|
| collective aggregation | `protocols/collective_aggregation_protocol.go` | A tree protocol. The root announces a round down the tree. Every node merges its children's per-group sums into its own map and sends the map to its parent as a length header followed by a byte payload. The root delivers the total on `FeedbackChannel`. |
| shuffling + DDT | `protocols/shuffling+ddt_protocol.go` | A ring protocol over `Tree().List()`. The root sends the encrypted list and the roster's aggregate key to the next node. Every node shuffles and rerandomises the list, adds `s*B` (step 2) and applies the deterministic tag step (step 3), then forwards the list with the key minus its public key. The root, which processes last, delivers the C points as tags. |
| deterministic tag | `lib/deterministic_tag/deterministic_tag.go` | The tag step `K' = sK`, `C' = s(C - xK)`, its per-vector form, and `CipherVectorToDeterministicTag`, which tags a vector, optionally proves the step and turns the C points into a `GroupingKey`. |
| shuffle proofs | `lib/shuffle/shuffle_proofs.go` | Creation and verification of Neff shuffle proofs; the creation of a list of them in parallel chunks, and the batch verification of a fraction of them. |
| test data | `services/data/handle_data.go` | Random test data, file I/O, the expected result and the comparison of results. |
| simulations | `simul/*.go` | Benchmark drivers that time one run of a protocol of the unlynx library (not in this repository). |

### How the parts interact

Nodes are onet actors. Each has its own goroutine running `Dispatch`, and they
talk by messages over typed channels.

- A non-root instance is created by the first message it receives.
- A channel of slice type (`chan []X`) is filled by onet. It delivers once one
  message per child has arrived, in arrival order.
- The two protocols do not call each other. The tags the ring produces are the
  grouping keys the aggregation merges on.

### Hard behaviours

- The interleaving of the nodes' steps and the arrival order of the children's
  messages, on two independent channels.
- Serialisation in which a single header describes a list of groups.
- Padding on merge.
- Waits that may or may not have a timeout.
- A ring whose correctness depends on the order of the nodes and on the key
  that is passed along.

## 2. Modules

### `CollectiveAggregation.tla` (instantiated by `MC_CollectiveAggregation.tla`)

**State:**

| variable | code |
|---|---|
| `input` | the data reference the caller sets (`GroupedData` / `SimpleData`) |
| `grouped` | `*p.GroupedData` after `checkData` |
| `pc` | where each `Dispatch` is |
| `started` | the root's `Start` has run |
| `annc` | a `DataReferenceMessage` is in the node's channel |
| `lenQ` | `LengthNodeChannel`, in arrival order |
| `dataQ` | `ChildDataChannel`, in arrival order |
| `result` | what the caller reads from `FeedbackChannel` |
| `cvMap` | the `cvMap` of `Dispatch`: per key, the columns of contributions kept for the proofs |
| `hook` | the `(data, dataRes)` each node passed to `ProofFunc`, per key |

**Actions:**

| action | code |
|---|---|
| `Start` | `Start` |
| `CheckDataStep` | `Dispatch` → `checkData`, including its two error returns |
| `Announce` | `aggregationAnnouncementPhase` |
| `Ascend` | `ascendingAggregationPhase` up to the sends: the wait for all children, pairing the i-th header with the i-th payload, `FromBytes` with its error return, the merge |
| `SendLen` | the local `ToBytes`/`FromBytes` check (a decoding error is returned) and the first `SendToParent` |
| `SendData` | the second `SendToParent` |
| `Prove` | proof generation (b), lines 177-186: with `Proofs`, the call of `ProofFunc` with the flattened columns and aggregates, a panic when `ProofFunc` is nil |
| `Report` | the `FeedbackChannel` send |

With `Proofs`, `Ascend` also fills `cvMap` from the node's own groups (proof
generation (a), lines 162-169) and from each child's groups as they are merged
(line 236). `FormatAggregationProofs` is in the unlynx library, not in this
repository; following the spec's proof hook ("pre-aggregation ciphertexts,
post-aggregation ciphertext, per group") it appends the j-th attribute of a
contribution to column j of its key. That layout, and the widening of a
column map when a later contribution is longer, is this model's assumption
about the library; `ProofHookAligned` is only as good as it.

**Data abstraction:**

- A ciphertext is the plaintext it encrypts, because homomorphic addition is
  `+` on plaintexts.
- A `FilteredResponse` is `[gb, aa]`.
- A payload is the map it encodes.
- `ToBytes` is modelled by its header: the lengths of whichever group's
  goroutine wrote last (`Headers` is the set of possible headers).
- `FromBytes` is modelled by what it does with a header (lines 378-398). A
  zero element length or an empty payload gives no groups and no error. If
  every group has the header's shape, the groups come back. Otherwise the
  payload is cut across groups: when no element fits, no groups and no error;
  when some do, either a point fails to decode (an error) or the elements
  decode to groups that are not the sender's, which the model represents by
  none of the sender's groups arriving. No pass run reaches the mismatched
  cases: every non-root node of `agg_uniform` holds groups of one shape.

### `ShufflingPlusDDT.tla` (instantiated by `MC_ShufflingPlusDDT.tla`)

**Group model:** a point is its exponent mod a prime `Q`, with `B = 1`.
ElGamal, rerandomisation and tagging keep their exact algebra.

**State:**

| variable | meaning |
|---|---|
| `clear` | the clients' records |
| `target` | their encryption under the roster key |
| `started` | the root's `Start` has run |
| `pc` | where each node's `Dispatch` is |
| `msg` | the data and key that reached each node; the length message always matches the data, so it is folded in |
| `result` | the tag list the root delivers |
| `perr` | a step-3 tag proof of the node failed (`err` was set at line 244) |
| `tproof` | the step-3 tag proofs the node created, by response index (lines 240-248) |

**Actions:**

| action | code |
|---|---|
| `Start` | `Start` |
| `Process(n)` | the whole `Dispatch` after the two receives: shuffle with any permutation and blinding, under `ShuffleKey`, steps 2 and 3 with any set of failing step-3 proofs, then the root's result or the forward with `ForwardKey` |
| `Timeout` | the root's `time.After(libunlynx.TIMEOUT)` branch |
| `ProofError(n)` | a shuffle-proof or step-2 proof error, returned by `Dispatch` |

A non-root node is created by the length message, and the data follows on the
same connection, so its waits do not time out in the model.

Two constants widen the ring:

- `Proofs` turns proof creation on. `ProofError(n)` is a step-1 or step-2
  proof error, which `Dispatch` returns. In `Process(n)` any step-3 tag proofs
  may fail too. A failure makes its goroutine return before the `copy` at
  line 249, so that response and the rest of its chunk of `VPARALLELIZE`
  responses (`LeftUntagged`) keep their untagged vectors; `err` is never
  checked, so the node goes on. The runs use `VPARALLELIZE = 2`, which for two
  responses behaves like the library's default (one chunk).
- `Precompute` is the set of nodes with `p.Precomputed` set. Such a node
  rerandomises under `Roster().Aggregate`, the key the precomputed values are
  built for (`simul/shuffling_simul.go:92`), whatever key it received
  (`ShuffleKey`).

### `DeterministicTagLib.tla` and `DeterministicTagging.tla` (instantiated by `MC_DeterministicTagging.tla`)

`DeterministicTagLib` holds the operators of `deterministic_tag.go`:
`DeterministicTag`, `DeterministicTagSequence` and
`CipherVectorToDeterministicTag`, whose proof-creation error returns the empty
key. The ring uses the first two. A creation proof
(`DeterministicTagCrListProofCreation`, in the library) is modelled by its
statement `(vBef, vAft, K)` and its witnesses `(k, s)`; following spec 4.3 it
verifies when `K = kB` and `vAft` is the tag of `vBef` under `(k, s)`.

`DeterministicTagging` is a conode that tags its clients' vectors, encrypted
under its own key (the last step of a chain, or a conode alone), with
`CipherVectorToDeterministicTag`, one client per `Tag` step, in any order.

### `ShuffleProofList.tla` (instantiated by `MC_ShuffleProofList.tla`)

`ShuffleListProofCreation` and `ShuffleListProofVerification`. Proof `i` is
identified by the index of the list it proves, and whether it verifies is an
input (`valid`), the outcome `ShuffleProofs` computes for a single proof.

| action | code |
|---|---|
| `CreateStep(g)` | one iteration of the goroutine of chunk `g`: `Pslp[g+j] = ShuffleProofCreation(...)` |
| `CreateWait` | `wg.Wait()`: every goroutine has left its loop |
| `StartVerify` | `nbrProofsToVerify := int(math.Ceil(percent*n))`, `results`, and the loop that reads `Pslp[i]`, which panics past the end |
| `VerifyOne(i)` | the verification goroutine of index `i` |
| `Finish` | `EndParallelize` and the AND of `results` |

`percent` is a fraction `<<num, den>>`, and `percent*n` is taken exactly.
Float rounding of the product can only raise the count by one when
`percent*n` is an integer; for `percent < 1` that integer is below `n`, so
rounding can add one verification but never causes a panic.

### `CipherAlgebra.tla`

Holds the group and ElGamal operations that the other modules share:
- points and scalars as exponents mod `Q`;
- `CAdd`, `CMul`, `EncryptInt`, `Rerandomize`, `ShuffleSequence`.

They come from kyber and `libunlynx`, which are not under `src/`. They are
modelled from the spec and marked `spec_modelled`.

### `ShuffleProofs.tla` (instantiated by `MC_ShuffleProofs.tla`)

A conode shuffles a list (`ShuffleAndProve`) and proves the shuffle with
`ShuffleProofCreation`. It then publishes the `PublishedShufflingProof`, and
a verifier runs `ShuffleProofVerification` (`Verify`). Two parts are
translated exactly:
- the compression of every row by the challenge, `compressCipherVector` and
  `compressListCipherVector`;
- the compression of the blinding matrix, `compressBeta`.

kyber's `PairShuffle` and the Fiat-Shamir hash are modelled by what they
bind (`PairShuffleProve`):
- `ps.Prove` (line 77) receives only the compressed original, `pi` and the
  compressed blinding. It computes the shuffled pair itself; `XhatBar` and
  `YhatBar` are computed (lines 52-53, 209-211) but never passed to it, so
  creation cannot fail on the shuffled list;
- `HashVerify` succeeds when the compressed lists the verifier recomputes
  from the published lists are the ones the transcript binds.

`ShuffleAndProveEmpty` is the creation on an empty list, which panics on
`originalList[0]` (line 47).

`Tamper` is a dishonest conode. It publishes the proof with the C points of
one row changed.

### `AggregationAbstract.tla`

This is what a collective aggregation round promises. The caller eventually
receives, once, the column-wise zero-padded sum of every conode's vectors for
every key. `CollectiveAggregation` instantiates it with:
- `local <- AbsLocal`: each node's data after `checkData`;
- `delivered <- AbsDelivered`: the result with its ciphertexts read as
  plaintexts.

The run checks `AggregationRefines == Abs!Spec` as a property.

### `TestData.tla` (instantiated by `MC_TestData.tla`)

Models the helpers of `services/data/handle_data.go`, called in the order
`handle_data_test.go` calls them.

| action | code |
|---|---|
| `GenerateData` | `GenerateData` with both `log.Fatal` checks, filling `Groups` through the recursive `AllPossibleGroups`/`Loop` when the groups are not random |
| `ComputeExpectedResult` | `ComputeExpectedResult`: scales every response in place, because the attribute maps are shared with the caller, then applies `AddInClear` |
| `Compare` | `CompareClearResponses` against a result holding some of the expected responses, in any order, possibly with one extra |
| `WriteDataToFile` | `WriteDataToFile`: a `#` header per provider in any map iteration order, then six lines per response (`flushInt64Data`: each value followed by a space) |
| `ReadBack` | `ReadDataFromFile`, the recursive `Parse` over the lines with the function's locals `id`, `dataIn` and `container` (nil until the first header), and the store after the loop |

- An attribute map is modelled by the slice `ConvertDataToMap` built it from.
- A file is a sequence of lines and a line a sequence of tokens: a value, the
  model value `Space` or the model value `Hash` (`#`). The key of provider
  `i` is the one-token text `<<i>>`.
- `lib.StringToInt64Array` is not under `src/` either. It is modelled as
  splitting at the spaces (`spec_modelled`), which the test's equality assert
  requires.
- `AddInClear` is in `lib`, not under `src/`. It is modelled as the sum per
  group and marked `spec_modelled`.

## 3. Runs

| run | cfg | expect | what it shows |
|---|---|---|---|
| `agg_uniform` | `MC_CollectiveAggregation.cfg` | pass (23664 states) | See below. |
| `agg_empty_child` | `MC_CollectiveAggregation_empty.cfg` | violation of `ResultCorrect` | **Finding.** If one child of the root has no groups, its header `(0,0,0)` can be paired with the other child's payload, which is then silently dropped (line 223 with line 382). |
| `agg_child_error_hang` | `MC_CollectiveAggregation_hang.cfg` | violation of `RoundEnds` | **Finding.** A node that fails in `checkData` (no data reference) or in `FromBytes` (a decoding error) never reports. Its ancestors read `LengthNodeChannel` with no timeout and block forever. The spec bounds these waits by a timeout. |
| `ddt_ring` | `MC_ShufflingPlusDDT.cfg` | pass (98457 states) | See below. |
| `ddt_precomputed_stale` | `MC_ShufflingPlusDDT_precomputed.cfg` | violation of `TagsCorrect` | **Finding.** Precomputed rerandomisation made under the roster's aggregate key is used by the last node of the ring, which received a reduced key. The root's tags come out wrong (line 184). |
| `ddt_tagproof_error` | `MC_ShufflingPlusDDT_prooferr.cfg` | violation of `TagsCorrect` | **Finding.** A step-3 tag-proof error makes its goroutine return before the `copy` (lines 246, 249), and `err` is never checked after `wg.Wait()`. The node carries on with responses that miss its tag step, and the root delivers wrong tags. The spec, section 7, says proof failures are fatal. |
| `ddt_tagproof_args` | `MC_ShufflingPlusDDT_tagproof.cfg` | violation of `TagProofsVerify` | **Finding.** Step 3 creates its proof with `(Public(), SurveySecretKey, Private())` where the library passes `(K, privKey, secContrib)`: the two scalars are swapped, so the proof of any node whose private key differs from its secret does not verify (line 241). |
| `tag_lib` | `MC_DeterministicTagging.cfg` | pass (2304 states) | Two clients' vectors of two attributes, every encryption randomness and proof outcome: equal keys exactly for equal attributes (`TagDeterminism`). |
| `proofs_honest` | `MC_ShuffleProofs.cfg` | pass (2180 states) | For every permutation and blinding matrix of two 2x2 lists, verification accepts the published honest proof (`HonestProofVerifies`): compressing the shuffled rows gives the compressed original shuffled with the compressed blinding (`compressBeta`). The empty list panics at creation. |
| `proofs_forged` | `MC_ShuffleProofs_forged.cfg` | violation of `VerifiedIsShuffle` | **Finding.** The challenge `e` depends only on the seed. Adding `d` with `e·d = 0` to the C points of a row leaves the compressed statement unchanged, so a proof of a list that is not a shuffle still verifies (line 111). |
| `proof_batches` | `MC_ShuffleProofList.cfg` | pass (304 states) | Lists of 0 to 3 proofs, chunks of 2, percent -1/2, 0, 1/2, 1 and 3/2: every slot holds its own proof after the join (`ListProofsInOrder`), a true verdict covers the requested fraction rounded up (`BatchVerdictSound`), and only a fraction outside [0, 1] panics (`PanicsOnlyBeyondAll`). |
| `data_expected` | `MC_TestData.cfg` | pass (239150 states) | `AllPossibleGroups` lists every group exactly once, in lexicographic order (`GroupsEnumerated`). `RoundTrip`: reading the file back gives exactly the data written, in every provider order. `CompareDecides`: on same-length results `CompareClearResponses` is equality. |

**`agg_uniform`.** The tree is r → {a, b}, a → c. There are two grouping keys.
Every non-root node's header has the same shape, so crosswise pairing and the
`ToBytes` header race change nothing here; `agg_empty_child` shows the
pairing going wrong.
The non-root nodes hold vectors of length 2; the root holds vectors of length
1 or 3, or flat `SimpleData`. Proofs are on and `ProofFunc` is set. For every
interleaving:

- `ResultCorrect` holds: the root delivers, for every key, the column-wise
  padded sum of every node's vectors, as `AggregationAbstract` computes it
  from the inputs with no merge.
- `ProofHookAligned` holds: each node hands `ProofFunc`, per key, as many
  columns as its aggregate has attributes, and column j adds up to attribute
  j, padding included. `ProofFunc` receives the keys flattened into two lists,
  so one misaligned key would shift every later one.
- `AggregationRefines` holds: every behaviour is a behaviour of the abstract
  round, with the delivery eventually taken.

**`ddt_ring`.** The ring has three nodes, with Q = 5. The data is two
responses of one column, with two encryption randomness values and two
blindings. Proofs are on, and precomputation is at the first node after the
root. Every permutation and every set of failing step-3 proofs is tried. While
every tag proof so far has been created (`NoTagFailure`):

- `RingInvariant` holds: the key in flight is the sum of the public keys of
  the nodes that have not tagged yet. The list decrypts under that key to the
  records tagged, in ring order, by the nodes that have.
- `ProvedTagsCorrect` holds: the root's tags are, as a multiset, the
  reference tags `s(m+s)` folded over the ring order.

When a tag proof fails, the tags are wrong: that is `ddt_tagproof_error`.

Every property of a pass run has a mutant in `PROJECT.json` that TLC must find
violating it.

### Observations without a run

The project keeps at most twelve runs, so these are recorded here and as
hazards rather than as violation runs:

- **Nil proof hook** (`collective_aggregation_protocol.go:186`). Nothing in
  the repository assigns `ProofFunc`, so `Proofs = true` makes every node
  panic in `Prove` and the root never returns; the spec says an absent hook
  is a no-op. Setting `ProofFuncSet = FALSE` in the aggregation cfg shows it.
- **Root timeout** (`shuffling+ddt_protocol.go:159`). The root's wait is
  bounded by `time.After`, so "the ring round ends" holds by the timer alone
  and is not checked. A late ring message reaching a root that has returned
  is not modelled.
- **Empty shuffle** (`shuffle_proofs.go:47`). `ShuffleProofCreation` of an
  empty list panics on `originalList[0]`; the spec does not say what it
  should return.
- **`ComputeExpectedResult` twice** (`handle_data.go:265`). It scales the
  caller's shared attribute maps in place, so a second call on the same
  data, as `handle_data_test.go` makes, returns sums scaled twice. The run
  allows one call (`MaxCalls = 1`). The test calls the function with three
  arguments while it takes two, so the test file does not build against this
  source.
- **`CompareClearResponses`** (`handle_data.go:280`). It is a subset test:
  true when `y` holds extra responses, false when both are empty. On results
  of the same length it does decide equality (`CompareDecides`).
- **File round trip at zero sizes** (`handle_data.go:199, 246`). `container`
  starts as a nil slice: a first provider with no responses reads back as
  nil, not as the empty slice `GenerateData` made, and an empty map reads back
  as `{"": nil}`. `reflect.DeepEqual` tells these apart, so `assert.Equal`
  would fail. The test only uses positive sizes, and so does the run; adding
  `0` to `NumEntriesChoices` shows it.

### Bounds

- **Tree.** Four nodes in three levels give the crosswise pairing, and an
  inner node (a, with child c) that itself waits.
- **Vector lengths.** Lengths 1, 2 and 3 exercise padding on both sides.
- **Keys.** Two keys give groups of two shapes in one map, which makes the
  `ToBytes` header race possible.
- **Ring.** Three nodes give a non-root relay between two others. With
  precomputation at `n3`, the one node that receives a reduced key uses stale
  values.
- **Modulus.** A prime Q = 5 with distinct secrets keeps the tags distinct,
  so a wrong tag is visible. Private keys 1, 3, 3 make sums wrap mod Q.
- **Shuffle proofs.** Two columns are the least for which an alteration can
  be orthogonal to the challenge.
- **Tagging library.** Two clients with two attributes over `{1, 2}` and two
  encryption randomness values give equal and unequal vectors, each encrypted
  two ways, so a key that depended on the randomness would show.
- **Proof lists.** Lengths 0 to 3 with chunks of 2 give a full chunk, a
  partial chunk and no chunk; percent 1/2 on 3 proofs is where rounding up
  and truncating differ, percent 1 where the count equals the length, 3/2
  the panic past the list, and -1/2 a negative count on 3 proofs (a panic)
  and a count of 0 on 1 proof.
- **Test data.** `numType` is `<<1,2>>`, `<<2,1>>` or the wrong-length `<<2>>`,
  with `numEntries` 1 or 2. This reaches both `log.Fatal` checks, both group
  modes, and ordering on either coordinate. Two providers give both orders of the written file, with one or two responses each.

### Fairness

- **Node steps.** Weak fairness of every node step and of `Start`/`Report`.
  Every node runs its own goroutine and onet delivers every message sent, so
  an enabled step is eventually taken.
- **Ring.** The ring's properties are safety properties; its specification
  has no fairness.
- **Deadlock checking.** `CHECK_DEADLOCK FALSE` is set because a round really
  ends. A hang is checked as a liveness property instead. The proof,
  tagging and test-data runs are sequences of calls that end (the batch
  verification ends in `done` or `panicked`).

## 4. Not modelled

- **Proof transcripts.** kyber's `PairShuffle`, the Fiat-Shamir hash and the
  tag-proof transcripts are modelled by what they establish (the statement a
  transcript binds, the witnesses a proof needs), not computed. The
  aggregation `ProofFunc` is an external callback; the model records its
  arguments.
- **Byte encodings.** This covers `ToBytes` and `FromBytes` of proofs and
  tags. The test-data file is modelled at the level of tokens; the error
  paths of `os.Create`, `os.Open` and the scanner (`log.Fatal`) are not,
  because nothing the program does makes them happen.
- **Simulations.** `simul/*.go` set up a roster and time one run of
  `KeySwitchingProtocol`, `LocalAggregationProtocol` or `ShufflingProtocol`.
  Those protocols come from the unlynx library, not from this repository, and
  the drivers themselves hold no protocol logic, so there is no source here
  to model.
