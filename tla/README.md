# rust_h264 in TLA+

A specification of the H.264 decoder in `src/`, checked with TLC and, in parts, proved with TLAPS.
Paths are relative to the repository; `decoder.rs` stands for `src/src/decoder.rs`, and so on.

Contents: 1 the system · 2 modules and the code they model · 3 runs · 4 fairness · 5 proofs ·
6 divergences · 7 what is not modelled · 8 plan

## 1. The system

An application splits a byte stream into NAL units (`nal.rs`) and feeds them one by one to a
`Decoder`, or to an `OrderedDecoder` that wraps one.  Everything runs on the caller's thread; the
only state shared between threads is the lazily built lookup tables.

```
bytes -> nal.rs -> NAL units -> OrderedDecoder -> Decoder -> slice.rs/sps.rs/pps.rs -> bitstream.rs
                                 (reorder, meta)    |   \
                                                    |    macroblock loop (slice_context.rs,
                                                    |    decode_cabac.rs, decode_cavlc.rs)
                                                    |      -> cabac.rs | cavlc.rs -> residual.rs
                                                    |      -> neighbor.rs, mv_pred.rs
                                                    |      -> intra_pred.rs, inter_pred.rs
                                                    +-> deblock.rs, dpb.rs (on finalizing a picture)
```

| Component | State | Operations | What makes it correct |
|---|---|---|---|
| `Dpb`, marking (`dpb.rs`) | entries (picture, status), `max_ref_frames` | `insert`, the MMCO methods, `clear` | a long-term index names one picture; capacity; the marking is the standard's (8.2.5) |
| `Dpb`, POC (`dpb.rs:415-555`) | `prev_poc_msb`, `prev_poc_lsb` | `compute_poc` once per slice; two resets | the order count the encoder meant is recovered |
| `Dpb`, lists (`dpb.rs:122-412`) | none of its own | initial lists, modification | each `ref_idx` names the standard's picture (8.2.4); the list covers every `ref_idx` |
| `Decoder` (`decoder.rs:135-1114`) | parameter set tables, pending picture, pending field, the DPB | `decode_nal`, `flush` | a frame has all slices of one picture, and only those; errors lose nothing they need not |
| `OrderedDecoder` (`decoder.rs:1166-1414`) | reorder buffer, GOP counter, metadata at hand | `decode_nal`, `decode_nal_with_meta`, `flush`, `flush_with_meta` | display order, completeness, bounded latency, metadata with its frame |
| `OnceLock` (`once.rs`) | an atomic state and an atomic pointer | `get_or_init` | one table, fully visible to whoever gets it; calls return |
| NAL framing (`nal.rs`) | none | Annex B and AVCC splitting, emulation prevention | round trip with an encoder's framing |
| Bit reader (`bitstream.rs`) | position in a padded payload | `read_*`, `more_rbsp_data` | equals the bit-string definition, also at the end |
| Header parsing (`sps.rs`, `pps.rs`, `slice.rs`, `sei.rs`) | none | `parse` | fields depend on earlier fields as in 7.3 |
| CABAC engine (`cabac.rs`) | range, scaled offset, position, contexts | `get_cabac`, bypass, terminate, PCM restart | equals the bitwise engine of 9.3.3 at every refill phase |
| CAVLC (`cavlc.rs`) | static tables | coefficient parsing | table lookup equals code matching |
| Macroblock layer (`slice_context.rs`, `decode_cabac.rs`, `decode_cavlc.rs`) | per-slice and per-picture arrays, QP, skip run | one pass over the macroblocks of a slice | each macroblock once; predictors from the slice's own macroblocks |
| Neighbours, vectors (`neighbor.rs`, `mv_pred.rs`) | none | derivations | availability and median rules, MBAFF |
| Deblocking (`deblock.rs`) | the samples of a picture | one pass over the edges | edge order, strengths, slice boundaries |
| Sample arithmetic (`intra_pred.rs`, `inter_pred.rs`, `residual.rs`, `simd/`) | none | per block | transforms and filters; the SIMD code equals the scalar code |

How the parts interact, and what is hard about it:

- `decode_nal` is one picture late: the frame it returns was finished by the NAL unit that begins
  the next one.  So a call reports on two pictures with one `Result`, and the metadata that comes
  with a call belongs to another picture than the frame that leaves.
- `decode_slice` takes the pending picture out of the decoder, works on it and may fail; a clone
  made beforehand is put back.  Which slices belong together is decided from `first_mb_in_slice`
  and the picture size alone.
- A field is held until *some* other field has been finalized, and may be held forever.
- Marking commands run before the finished picture is inserted, op 6 after it, and the insertion
  slides the window between the two.  `frame_num` wraps while pictures and commands refer to it.
- The POC state moves once per reference picture, although it is computed once per slice and reset
  by an event (finalizing an IDR picture or one with op 5) that lies between two slices.
- An SPS takes effect on the DPB when it is parsed, with pictures of the previous one still held.
- Two threads that decode at once race to build the tables in builds without `std`.
- The macroblock routines exist in several copies (intra, P and B, two entropy modes), and each
  copy must read and write the same dozen per-macroblock arrays; what one copy forgets to store
  shows in a neighbour, macroblocks later, or in the deblocking filter after the last slice.
- An MBAFF pair is two macroblocks whose rows interleave or not as one flag says, and the flag may
  be read by the second of the two, or by none.
- The arithmetic decoder fetches two bytes at a time and keeps its place in the lowest one bit of
  the word it computes with; a bin, a bypass, a terminating bin and a restart behind samples all
  have to leave that bit where the next one looks for it.
- A header field that is read under the wrong condition shifts every field behind it.

`PROJECT.json` lists these hazards at their lines, with the properties that answer them.

## 2. Modules and the code they model

Pictures and their order:

| Module | Models | Correspondence |
|---|---|---|
| `DpbOps` | the marking operations of `dpb.rs` as operators on the set of entries | a picture carries its insertion rank `id`, which stands for its place in the `Vec` (the code only appends and retains), so "first" and "last" entry are the least and the greatest `id`.  The eviction loop is described by where it stops.  `remove_unused` is part of each operation |
| `Dpb` | `Dpb` as a library object: any method, any order, any arguments | one action per method; a long-term insertion only into an empty buffer, as `finalize_pending` does it.  `limit` and `repeated` are history: the capacity when the last short-term frame came, and whether one has repeated a `frame_num` still in use |
| `RefMarking` | *abstract:* clause 8.2.5 for frames, with the stream rules of 7.4.3 | state is what is marked, by `FrameNumWrap` and index |
| `DpbMarking` | `finalize_pending`'s marking (`decoder.rs:302-398`) on a stream that keeps those rules | one action per picture: IDR, reference with its commands, non-reference.  `numbers` and `plus1` are the encoder's knowledge |
| `RefListSpec` | *abstract:* clause 8.2.4, initial lists and modification by `PicNum` | |
| `RefList` | the lists of a slice: `dpb.rs:122-412` and `decoder.rs:530-615` | `Init` chooses a buffer and a slice header and builds the list; one action per modification command.  Short stable sorts are given by rank |
| `PocLsb` | `compute_poc_type0` with the resets around it | one action per slice and per picture; the stream's side holds the true high part |
| `PocFrameNum` | `compute_poc_type1` and `compute_poc_type2` | the code's closed form over `frame_num`; the stream's side adds one offset per reference frame, as 8.2.1 does |
| `PicOrder` | `compute_poc`: the SPS chooses the type | composes the two |
| `Decoder` | `Decoder` as operators: parameter sets, pending picture and field, backup, `flush` | macroblock decoding is the set of slices that went into a picture, plus where it fails: before `decode_slice` takes the pending picture ("header"; "empty" if not even `first_mb_in_slice` can be read) or after ("data").  A picture has the size its SPS gives it, a field half the height: from it come `total_mbs`, which decides whether a slice continues the pending picture or replaces it, and whether the planes of two fields fill the frame they are interleaved into; if not, the call panics and the program ends |
| `OrderedDecoder` | `OrderedDecoder` around it, and the caller's stream | one action per kind of NAL unit; loss and failure are choices of the action; a panic ends the stream.  Metadata is the number of the frame it was sent with |
| `DisplayOrder` | *abstract:* display order, each frame once | refinement mapping: a shown frame is the number its slices carry |
| `OnceLock` | `get_or_init`, one action per atomic access | release/acquire memory: each atomic has its sequence of stores, each thread a view; a load may return any store not older than what the thread knows.  The table's contents are part of views, so reading it unseen is visible as a missing view |
| `Once` | *abstract:* one table, built once, returned by every call | refinement mapping: the table is the last published pointer |

Macroblocks:

| Module | Models | Correspondence |
|---|---|---|
| `SliceContext` | the state of `slice_context.rs`, the neighbour helpers of `neighbor.rs`, prediction and what it reads; `filter_frame_inner` and `derive_bs` of `deblock.rs` | the per-4x4 arrays hold one value per 8x8 quadrant.  A sample is a recipe: from which macroblocks or pictures, with which weight, it was predicted and whether a residual was added.  `used` logs each syntax element read with its context increment, nC or range.  Which edge is filtered and how strongly follows from the records `finalize_mb_info` leaves |
| `MbSyntax` | what the macroblock's syntax may say | a record; values are those the branches of the code tell apart |
| `MbCabac` | `decode_cabac_mb` | an operator per copy of a path (intra in P and B, P, B, intra slice), in the order the code reads |
| `MbCavlc` | `decode_cavlc_mb` and the skip run | the same |
| `MbStandard` | *abstract:* 7.3.5, 9.2.1, 9.3.3.1.1, 8.3, 8.4, 8.7.2.1 for a macroblock, by location | has no arrays: a neighbour is found by coordinates among what has been decoded |
| `MbLayer` | the loop of `decode_slice` over the macroblocks of a picture, then `finalize_mb_info` | one action per macroblock or pair, one for the end of a slice |
| `MvPred` | `mv_pred.rs`: prediction, skip, direct, motion comparison | a cell per 4x4 block, addressed as the code addresses it |
| `MvStandard` | *abstract:* 8.4.1 and the motion part of 8.7.2.1, by location and order of decoding | |
| `MvLayer` | the calls of `mv_pred.rs` for a picture | one action per macroblock; both stores are written in the order of the two entropy decoders |

Bits:

| Module | Models | Correspondence |
|---|---|---|
| `BitReader` | `bitstream.rs` | the padding is zeros; an error makes the reader not `ok` from then on |
| `NalFraming` | `nal.rs`: Annex B, AVCC, avcC, emulation prevention | functions of byte sequences.  The scan for start codes is given by where it stops |
| `HeaderSyntax` | `parse_sps` with VUI and HRD, `parse_pps`, `parse_slice_header` | a syntax is a sequence of items with their conditions, read one after the other |
| `StreamWriter` | *abstract:* 7.3.2, 7.3.3, 7.4.1, 9.1, Annex B and ISO/IEC 14496-15, written | has its own tables: what is sent and in which order does not come from `HeaderSyntax`.  8x8 scaling lists are written whenever a matrix is, because the code's fallback for absent ones differs (section 6) |
| `CabacTables` | the number tables of `cabac.rs` | the range table is the code's and the standard's |
| `CabacEngine` | `CabacReader` | one action per kind of bin; the 32-bit word as a number |
| `ArithmeticDecoder` | *abstract:* 9.3.1.2, 9.3.3.2, bit by bit | refinement mapping: the offset is the word above bit 17, the bits read follow from `pos` and the marker |
| `CabacSyntax` | syntax elements and residual blocks of `cabac.rs` | functions of the bins to come; they return the value and the contexts used |
| `CabacBinarization` | *abstract:* 9.3.2 and 9.3.3.1 as tables from value to bin string | |
| `CavlcSyntax` | the code tables of `cavlc.rs`, `build_*_lut`, `*_lut_lookup`, and `parse_residual_block_cavlc` | a table is its codewords; the entry found is the last one whose codeword begins the bits that are peeked, which is what filling the lookup table leaves there.  A block is a function of the bits to come; its value is the places with their levels, and the number of bits taken |
| `CavlcCoding` | *abstract:* clause 9.2, written: from a block to its bits | has its own arithmetic: escapes as intervals of `levelCode`, zeros left as the empty places below.  Codewords are taken from `CavlcSyntax`: the tables are complete or nearly complete prefix codes, so that a wrong entry collides with another one and the block comes back changed |
| `BitInput` | how `decode_nal` and `decode_slice` compose these | frame, split, parse, start the engine behind the header, decode bins or elements; without CABAC, residual blocks |

`MC*` modules are instances; where constants are plain sets and numbers the `.cfg` alone gives them,
and `PicOrder` names the headers of its own runs.  The `*Proofs` modules hold theorems (section 5).
The abstract modules hold no translation of code: they are what the code is compared with.
(`RefMarking` shares `CurrPicNum` and `MaxPicNum` with the code, as the clause does.) Mutants,
operators marked as such, stand next to what they vary: each is a plausible mistake that one of the
checked properties rejects.

## 3. Runs

Passing:

| Run | Shows | Bounds, and why they are enough |
|---|---|---|
| `dpb_calls` | `LongTermIndexUnique`, `ShortTermWithinCapacity`, `WindowEvictsOldest` under arbitrary calls | 3 frame numbers, 2 indices, capacities 1 and 2, 4 insertions: a field pair, a long-term picture and two short-term frames meet in one buffer, and 3 frames overflow the larger capacity.  `ShortTermWithinCapacity` counts frames, not `frame_num`s as the code does; a capacity of 0 and frames that repeat a `frame_num` in use are left out (section 6).  All three are also proved for all values |
| `marking` | the code implements `RefMarking`; `TotalWithinCapacity` | `frame_num` modulo 4 and 7 pictures wrap it; 2 reference frames fill the buffer; 2 commands per picture interact (4 then 6, 1 then 3).  `Avoided` names three legal situations in which the code is known to go wrong (section 6); op 5 is left out for the same reason.  Both, and `TypeOK`, are also proved for all values |
| `ref_lists` | `ListFollowsStandard`: wherever the standard's list names a picture, so does the code's; the list is as long as `num_ref_idx_active` asks | up to 3 frames (any long-term subset) or field pairs, every display order, every current `frame_num` modulo 4, so wraps fall anywhere; active lengths 1 and 3; 3 commands, each within what the ones before have moved.  Avoided: P slices after reordering, long-term commands, pictures pushed out (section 6).  Both properties are also proved for all values |
| `display_order` | a clean stream comes out complete (`AllShownOnceFlushed`, `FramesWhole`), in display order (`ImplementsDisplayOrder`), with its metadata (`MetaAssociation`), at most `max_depth` + 1 frames late (`LatencyBounded`) | 4 frames or field pairs of 2 slices, IDR anywhere, 2 picture heights of which one is half the other, 2 POCs, depth 1: with depth 1 and 4 frames the buffer overflows, drains at an IDR and flushes |
| `damaged` | lost slices and three kinds of failure: no frame without metadata (the panic of `expect_meta`), no slice in two frames, a failed continuation slice changes nothing | 2 frames of 2 slices suffice for first/second slice × first/second field × next picture; heights 32 and 64, so that a field of the one has as many macroblocks as a frame of the other and half as many as a frame of its own: a stray slice joins the pending picture or replaces it, and two fields do or do not fill their frame |
| `pic_order` | `PocRecovered` under type 0; under types 1 and 2 `CountsAccumulate`: the closed form over `frame_num` gives each reference picture the sum of the offsets so far | type 0: 4-bit low parts are the narrowest the syntax has; high parts one turn either way.  Types 1 and 2: cycles of 0, 1 and 2 offsets of either sign, `frame_num` modulo 8 and 7 reference frames between two resets, so that every cycle is run through several times; no wrap of `frame_num`, section 6.  All of this is also proved, for all widths and all cycles |
| `once_lock` | `InitOnce`, `ReferenceValid`, the lock implements `Once`, `EveryCallReturns` | 3 threads: one builds, one waits in the loop, one comes late; three stores to the state and two to the pointer exist at all, so nothing else is bounded |
| `mb_layer` | every element is read with the increment or nC of the standard (`ContextsFollowStandard`), every quadrant predicted from its samples, pictures and weights (`SamplesFollowStandard`), QP carried on as it should (`QpFollowsStandard`), edges filtered as they should (`EdgesFollowStandard`), each row written once (`RowsWrittenOnce`) | pictures of 4 macroblocks, 2 wide (or two MBAFF pairs, side by side or one below the other), in up to 2 slices: a macroblock with neighbours on the left, above and above right, each in its slice or not.  16 headers in both entropy modes and 2 more for P_8x8ref0, which only CAVLC has, each with 3 or 4 kinds of macroblock, so that every kind meets every other of its header in each direction.  QP 51 makes a delta wrap |
| `mv_pred` | `VectorsFollowStandard`, `DirectFollowsStandard` (spatial and temporal), `MotionEdgesFollowStandard` | 4 macroblocks, 2 slices; 10 headers: P, B with either direct mode, `direct_8x8_inference` on and off, with a co-located picture, MBAFF with frame and with field pairs.  All partition shapes follow one another |
| `bit_input` | units come back from every framing (`UnitsRecovered`), headers give back their fields (`HeadersRecovered`), elements take the bins and contexts of the standard, CAVLC blocks its bits (`ElementsFollowStandard`), the engine implements `ArithmeticDecoder`, `EngineInRange` | 315 slice headers that turn each condition of the syntax both ways, SPS and PPS with their optional parts and scaling lists; units of bytes 0, 1 and 3 with every ending under 17 framings, where emulation prevention and start codes meet; about 10,000 elements, each with two continuations; among them CAVLC blocks with every token of every table, every total of zeros and run before, each suffix length and escapes on both sides of prefixes 15 and 16; for the engine, payloads of 5 bytes, 5 bins after the start, three context variables at 4 QPs, one byte of samples per I_PCM macroblock, so that both halves of a refill are met.  Loops over commands are cut at 8 |

`CHECK_DEADLOCK FALSE` is set where a behaviour ends: the stream or the command list is over.

Runs that end in a counterexample, each against a sentence of the repository: `cavlc_8x8_flag`
(`TransformFlagReachesFilter`) and `poc_type1` (`NonReferenceCounts`).

What the inputs of the passing runs leave out because the code is known to differ there (section 6)
is named: `Avoided` in `marking` and `ref_lists`, `Wraps`, `NonReference` and `BottomFirst` in
`pic_order`, and the operators of `MbLayer` and `MvLayer` under the heading "Where the code is known
to differ".  `bit_input` further leaves out field-coded 8x8 luma blocks of CABAC, streams whose PPS
announces `redundant_pic_cnt`, RBSPs that end in a zero byte (not legal), and first offsets of 510
and 511 (not legal, `Conforming`).

## 4. Fairness

Only `once_lock` needs any.  `FairSpec` asks that a thread inside `get_or_init` be scheduled (weak
fairness of its next step) and that a spinning thread not be given the same old value for ever
(weak fairness of the load that returns the last store): Rust's memory model asks implementations
to make atomic stores visible in a finite time.  A thread need not ever call.  The progress of the
decoder itself is not a matter of fairness: each call returns what it returns, so "in the end" is
"once the caller has flushed", an invariant.

## 5. Proofs

All by TLAPS 1.4.5 (Z3, Zenon, LS4).  Each component has a module of proofs; its inductive invariant
is called `IInv` there (`RInv` for the engine's refinement).

| Module | Theorem | States |
|---|---|---|
| `DpbProofs` | `TypeCorrect`, `LongTermIndex`, `OldestEvicted` | `TypeOK`, `LongTermIndexUnique`, `WindowEvictsOldest` |
| | `ShortTermCapacity` | `ShortTermWithinCapacity`, if no SPS announces a capacity of 0 |
| `DpbMarkingProofs` | `TypeCorrect` | `TypeOK` |
| | `CapacityKept` | `TotalWithinCapacity`, on streams without op 5 and the situations of `Avoided` |
| | `MarkingImplemented` | the refinement `ImplementsMarking`, on such streams |
| | `NothingElseEvicted`, `NamedRemoved` | `AdaptiveEvictsNothingElse`, `Op1Removes`, on such streams |
| `RefListProofs` | `ListsCorrect`, `TypeCorrect` | `ListFollowsStandard`, `TypeOK`, on streams without the situations of `Avoided` |
| `PicOrderProofs` | `TypeCorrect` | `TypeOK`, of `PocLsb` |
| | `OrderCountsRecovered` | `PocRecovered`, if no bottom field comes first at a reset |
| | `LsbRecovered` | the same, of `PicOrder` |
| | `ClosedFormsAccumulate` | `CountsAccumulate`, if `frame_num` does not wrap between resets |
| `OnceLockProofs` | `TableBuiltOnce`, `ReferencesValid` | `InitOnce`, `ReferenceValid` |
| | `LockImplementsOnce` | the refinement `ImplementsOnce` |
| `OrderedDecoderProofs` | `TypeCorrect`, `MetaAlwaysPresent`, `SlicesStayApart` | `TypeOK`, `MetaPresent`, `NoSliceTwice` |
| | `ContinuationsRestore` | `FailedContinuationRestores` |
| | `FieldsFit` | `NeverPanics`, on clean streams |
| | `MetadataStays`, `PicturesWhole`, `LatencyIsBounded`, `FlushShowsAll` | `MetaAssociation`, `FramesWhole`, `LatencyBounded`, `AllShownOnceFlushed`, on clean streams |
| | `DisplayOrderImplemented` | the refinement `ImplementsDisplayOrder`, on clean streams |
| `FramingProofs` | `StreamRecovered` | `UnitsRecovered`, for legal units and framings |
| `CabacEngineProofs` | `EngineStaysInRange` | `EngineInRange` |
| | `EngineImplementsArithmetic` | the refinement `ImplementsArithmetic` |

How they go:

- `Dpb`.  `IInv` is `TypeOK`, `RanksUnique` and `LongTermIndexUnique`.  Uniqueness of an index is
  not inductive alone: `assign_long_term` gives the index to "the first entry with this
  `frame_num`", and that this is one entry rests on ranks being unique, which in turn rests on ranks
  growing with each insertion.  Lemmas: what `Insert` adds and removes (`InsertShape`, with
  `StopExists` and `SlidingWindow` for the loop), that removal preserves `IInv` (`Removal`), and
  that a promotion after freeing the index does (`Promotion`).  `OldestEvicted` is an action
  property: what the loop takes are the short-term frames with the least ranks (`OldestGoFirst`).
  `ShortTermCapacity` counts frames, a field with its complement as one (`ShortFrames`), while the
  code counts `frame_num`s.  `CapacityInv` adds to `IInv` that the code's count is within `limit`
  and that, as long as none has repeated, pictures of one `frame_num` are one frame
  (`FieldsShare`), from which the two counts are the same (`FramesNamed`).  What the window leaves
  has room for one more (`CapacityLeft`), a second field joins the first (`CapacityInsert`), and no
  command makes a long-term picture short-term again (`CapacityStep`).  With capacity 0 the code
  never evicts (section 6), hence the hypothesis.
- `DpbMarking`, for any range of `frame_num`, any capacity and any number of commands and pictures.
  `TypeCorrect` holds on every stream; the other theorems assume `AllAvoided`: no op 5, and none of
  the three situations that `Avoided` names, because in each of them the code differs from the
  clause (section 6), and those entries are the counterexamples to the theorems without the
  hypothesis.  What makes the code right elsewhere: it identifies a picture by its `frame_num`, so
  no two pictures of the buffer may share one (`Apart`); the window takes the first short-term
  entry, so `FrameNumWrap` must grow in the order of insertion (`InOrder`).  A new picture's number
  differs from the short-term ones by a rule of the stream, and from the long-term ones because
  numbers advance by at most one per picture, so that a number comes again only after `MaxFrameNum`
  pictures (`Near`), which "kept_across_wrap" rules out.  `IInv` adds `KnownByNumber` and
  `TotalWithinCapacity`.  A step is followed command by command (`CommandFollows`), then through the
  window (`WindowFollows`) or, after the insertion, op 6 (`SixResults`).  The loops over commands
  are recursive functions; that they exist and what they keep is shown by taking the least iteration
  that would fail (`LeastExists`, `EveryIteration`, `LoopRuns`).  `AdaptiveEvictsNothingElse`
  and `Op1Removes` are the sentences of the docs that fail in the avoided situations; the theorems
  say that they hold outside of them.
- `RefList`, for any buffer, any slice and any number of commands.  The three situations of
  `Avoided` are the hypotheses: in each the code differs from the clause (section 6).  *Initial
  lists.*  `Lists` says that a sequence has each element of a set once, `InOrder` that it shows them
  along an order.  There is at most one such sequence, so a sort is known as soon as one is shown,
  and the code and the standard agree where their orders do (`DescendingIs`, `OrderedIs`; that there
  is one at all is `ListByKey`).  For frames the orders are compared half by half (`FrameLists`).
  For fields the standard sorts frames and then takes fields by turns, the code sorts fields; both
  are the list of frames with each frame replaced by its two fields (`Woven`, `FieldLists`), which
  rests on the two fields of a frame having neighbouring order counts.  The exchange of the first
  two entries compares order counts in the code and pictures in the clause; within one buffer they
  tell the same apart (`SwapFollows`).  *Modification.*  `IInv` says the two lists are alike
  (`Alike`): the code's is equal to the standard's wherever the standard names a picture, and behind
  the place reached the standard's names pictures up to some place, each once, and none after that.
  Both commands turn out to be the same shift: a picture goes to its place, and those up to where it
  was move up (`Shifted`, `MovedToShifts` for the code's growing, shifting, compacting and
  truncating, `PlacedShifts` for the clause's loop).  That the code moves the picture the clause
  means is `ShortTermCommand`: a `PicNum` names one picture, and the code's arithmetic around the
  wrap ends at the same number (`NextNumber`).  `Without`, a filter defined by recursion on the
  length, is handled by a table of its values (`WithoutTable`).
- `PicOrder`, types 1 and 2, for every cycle of offsets and any range of `frame_num`.  The stream
  adds one offset of the cycle with each reference frame; the code divides the number of reference
  frames by the length of the cycle and adds up what is left.  `Own` is that closed form, and
  `OwnGrows`, that it grows by the next offset of the cycle with each frame, is what the proof is
  about; the invariant adds that `frame_num` says how many reference frames there were
  (`FrameNumInv`), which is true until it wraps: `Wraps = FALSE` is a hypothesis, and without it the
  theorem fails (section 6).  Sums are recursive functions; what they satisfy for every length is
  shown by looking at the least length for which it would fail.
- `PicOrder`, type 0.  The invariant adds to `PocRecovered` that the state is that of the last
  reference picture (`StateIsReference`) and that the picture being decoded is within reach of it;
  the core is `HighPartFound`, that two comparisons find the one order count within half a range.
  The theorem assumes `BottomFirst = FALSE` (section 6); the types hold without.
- `OnceLock`, for any set of threads and any store a load may return.  `IInv` describes the
  histories of the two atomics: the state is UNINIT, then INITING, then READY (`StateHistory`), the
  pointer null and then the table (`PtrHistory`), whoever is between the exchange and the last store
  is the only builder (`OneBuilder`), and the store of READY carries pointer and table with it
  (`ReadyCarriesTable`), so that a thread that has acquired it can no longer load the null pointer
  (`ReadersKnow`).  That last step is what the orderings in `once.rs` are for.
- `OrderedDecoder`, whatever is lost or fails to decode, and whichever picture a stray slice joins
  or replaces; after a panic nothing more is sent.  `IInv` has the types of the decoder, the stream
  sent so far up to the cursor (`UpToCursor`: the next slice is a new one), that all slices anywhere
  have been sent (`HeldIn`), that metadata is at hand while a picture or field is held (`MetaKept`),
  and `NoSliceTwice`.  The last is inductive only with all of these: a slice that arrives must be
  new, and a picture finalized leaves the decoder when it enters the buffer (`SliceInOnePlace`).
  `KeyOrders`, `RankNumbers`, `Split` and `Handout` say of the sort and the removals that they hand
  out a permutation of the buffer and keep the rest.
- Clean streams.  Nothing is lost, every slice decodes, frames are frames or pairs of fields: the
  constants of `display_order` but for their sizes (`Clean`).  The properties fail otherwise
  (section 6).  `CleanInv` counts: what has been shown and what waits are, each whole and with its
  own number as metadata, all frames but the one under construction, and the decoder holds exactly
  the slices of that one (`Building`), in the size that the active SPS gives it (`Sized`, until an
  SPS changes the size, after which an IDR picture comes).  So a slice with `first_mb` above 0
  always continues its own picture, and two fields always fill the frame they are interleaved into
  (`HalfCovers`), which is `FieldsFit`.  Latency, completeness and metadata are consequences; that
  no frame comes twice follows from `NoSliceTwice` (`WholeApart`).  `OrderInv` adds the order: what
  is shown precedes what waits and the frame under construction, and each frame shown of the current
  GOP has at least `max_depth` frames of its GOP above it (`FarBelow`).  So an encoder that reorders
  no further than the buffer is deep cannot send a frame that belongs before it (`ShownPrecedes`),
  and each release, at an IDR, beyond the depth or at the flush, is in order (`OrderEmitted`).
- `BitInput`, framing.  `StreamsAssumption` says what can be sent (`LegalStream`), nothing about how
  long it is: an RBSP of any bytes that ends in a byte other than 0 or in pairs of zeros, as
  `cabac_zero_words` are; types 1 to 31; Annex B with any number of zeros around the units; lengths
  of 1, 2 or 4 bytes in which the units fit, the last unit whole or cut off anywhere; an avcC box in
  front.  TLC evaluates it in `bit_input`.  *Emulation prevention.*  The writer's output is the RBSP
  with its bytes moved up by the number of 3s put in so far (`EscapedSpread`).  What
  `remove_emulation_prevention` makes of it is shown from the end of the unit backwards, as what the
  loop gives at a place depends on the places behind it: zeros are met in pairs, and a pair has a 3
  behind it in the unit exactly where the RBSP goes on with a byte up to 3 or ends (`PairStuffed`,
  `ReadStep`, `ReadAll`; so `Unescaped`).  *Annex B.*  A unit holds no start code and does not end
  in a zero (`NalClean`), so the scan, given by where it stops (`ScanForward`), stops at the start
  codes the writer put and nowhere else (`LaidNext`, `NoneWithin`), and the zeros around a unit
  belong to none (`AnnexBRead`).  *Samples.*  A length is a number in digits of base 256
  (`NumberRead`); the parser takes it, then as many bytes (`SampleAt`, `AvccRead`), and a sample cut
  off gives the units before the cut (`CutSample`).  *The box* is read by the fixed places of its
  fields (`BoxRead`).  The loops over bytes are recursive functions that only jump forward; that
  these exist is shown by the greatest place that would fail (`JumpsExist`).
- `CabacEngine`, in range.  The invariant says "some bit below bit 16 is set" by `low % 65536 # 0`,
  which is what the arithmetic uses (`MarkedBelow` shows they are the same), and bounds `pos` from
  below, without which the place of the samples could be negative.  `RoomAbove` is the heart of it:
  when the marker leaves the lower half it is bit 16 + i, `low` and the scaled range are multiples
  of 2^(16+i), and so two more bytes fit below the range; `RefillIsRefill2` says why the simpler
  refill is enough after a shift by one; `SplitAt` that the two comparisons of the code (`>` in one
  place, `<` in another) decide alike, since the marker keeps the offset from ever being equal to
  the bound.
- `CabacEngine`, the refinement.  Between two bins the word holds, below bit 17, the bits of the two
  bytes fetched last that have not been used, and behind them the marker (`Holds`).  A shift takes
  as many bits into the offset as it is wide (`BitsTaken`); the marker tells which bit is the next
  (`MarkerOfHolder`), also for the bytes of an I_PCM macroblock (`PcmPosition`); the bits below bit
  17 never decide a comparison (`OffsetDecides`); the merged state table is that of the standard,
  entry by entry (`LpsTransition`, `MpsTransition`).  The value of `n` bits is a recursive function
  of `n`; the seven widths that occur are unfolded one by one (`BitByBit`).

The constants are assumed to be what the assumptions named `<Module>Assumption` say: sets of
naturals, `FrameNumSet` finite; pairs of integers, integer QPs, a natural number of sample bytes; a
depth and a number of slices above 0; streams that can be sent.  `NoneAssumption` says that `None`
is no number, frame or picture, as an `Option` keeps them apart.

Model-checked only:

- `MbLayer`, `MvLayer`, and headers and syntax elements in `BitInput`: loops over quadrants, items
  and coefficients on both sides, each defined by a recursion or fold of its own.  That two of those
  agree for every input is induction over data: the library's induction theorems take an operator,
  which the provers here cannot instantiate.  (For the loops of `DpbMarking`, `PicOrder`, `RefList`
  and framing a set of failing lengths could take the operator's place; here the bodies of the loops
  are as large as the components.)
- `EveryCallReturns`: liveness.

## 6. Divergences

Where the code differs from what its docs, comments, or the clauses they cite say.  A run with the
named change of a constant ends in a counterexample; `Avoided` without an entry means that the
entry is taken out of the set in the `.cfg`.

Pictures and order:

| Where | What | Reproduced by |
|---|---|---|
| `decoder.rs:331` | op 1 and op 3 subtract without wrapping, so a picture from before a wrap of `frame_num` is not found | `marking`, `Avoided` without "named_across_wrap": `Op1Removes` |
| `dpb.rs:565` | a short-term and a long-term frame of one `frame_num` count as one | `marking`, `Avoided` without "kept_across_wrap": `TotalWithinCapacity` |
| `dpb.rs:114` | inserting as short-term before op 6 slides the window of a full buffer | `marking`, `Avoided` without "op6_when_full": `AdaptiveEvictsNothingElse` |
| `decoder.rs:394` | after op 5 the picture keeps its old `frame_num` | `marking`, `Ops = 1..6`: `StoredUnderItsNumber` |
| `decoder.rs:1339` | op 5 begins no new GOP for `OrderedDecoder`, so the frames after it mix with those before | `display_order`, `Kinds = {"frame", "reset"}`: `ImplementsDisplayOrder` |
| `dpb.rs:561` | capacity 0 never evicts | `dpb_calls`, `Capacities = {0}`: `ShortTermWithinCapacity` |
| `dpb.rs:565` | the window counts `frame_num`s: short-term frames that repeat one still in use, as after a loss, count as one, and the buffer outgrows any capacity | `dpb_calls`: `ShortTermWithinCapacity` without `~repeated` |
| `dpb.rs:159` | P lists are in descending POC, the doc says PicNum | `ref_lists`, `Avoided = {}`: `ByDescendingPicNum` |
| `dpb.rs:326` | list modification looks for a long-term picture by `frame_num` | `ref_lists`, `Avoided = {"p_after_reordering"}`: `ListFollowsStandard` |
| `dpb.rs:386` | list modification looks for a picture in the list, not in the buffer: two commands that name one picture push the last entry out, and a third that names that one finds nothing | `ref_lists`, `Avoided` without "pushed_out": `ListFollowsStandard` |
| `dpb.rs:502` | type 1: a non-reference picture takes its place in the cycle from its own `frame_num`, without the step back to the reference frame before it | `poc_type1` |
| `dpb.rs:482-555` | types 1 and 2 keep no `FrameNumOffset` across wraps | `pic_order`, `Wraps = TRUE`, `MaxRefFrames = 9`: `CountsAccumulate` |
| `dpb.rs:438`, `decoder.rs:349` | the order count after an IDR picture, or one with op 5, whose bottom field comes first | `pic_order`, `BottomFirst = TRUE`: `PocRecovered` |
| `decoder.rs:251` | a flush that returns a frame leaves a held field behind | `damaged`, `Loss = "none"`, `Outcomes = {"ok"}`, `Kinds = {"frame", "single"}`: `NoFieldLeftBehind` |
| `decoder.rs:1326` | metadata of a dropped frame goes to the next picture; a non-paired field and the next picture share theirs | `damaged`, `Loss = "none"`: with `Outcomes = {"ok", "header"}`, `Kinds = {"frame"}` or with `Outcomes = {"ok"}`, `Kinds = {"frame", "single"}`: `MetaAssociation` |
| `decoder.rs:240` | a finished frame is dropped when the slice that starts the next one fails | `damaged`, `Loss = "none"`, `Outcomes = {"ok", "header", "data"}`, `Kinds = {"frame"}`: `FinishedFramesReturned` |
| `decoder.rs:692` | the slices left of a picture whose first slice was lost join the previous picture, if that has as many macroblocks | `damaged`, `Outcomes = {"ok"}`, `Kinds = {"frame"}`: `SlicesOfOnePicture` |
| `decoder.rs:696` | if it has not, as a frame and a field have not, they start a picture of their own, which overwrites the pending one: a decoded picture is dropped without an error | `damaged`, `Outcomes = {"ok"}`: `FinishedFramesReturned` |
| `decoder.rs:457-481` | two fields are interleaved by the size of the second; if one of them is too small for the frame, slicing its planes panics, where a test says "Must not panic" (`decoder.rs:2559`) | `damaged`, with `Outcomes = {"ok"}`, or with `Loss = "none"`, `Outcomes = {"ok"}`, `Kinds = {"fields", "single"}`: `NeverPanics` |
| `dpb.rs:139` | in the second field of a frame the field lists are taken frame by frame, not by turns | by reading; outside the inputs of `RefList` |
| `decoder.rs:331` | op 1 in a field picture computes a field number and looks for a `frame_num` | by reading |
| `decoder.rs:502` | the first PPS of the table is used, not the one the slice names | by reading; the model sends one PPS |

Macroblocks, by reading and by counterexamples of `mb_layer` and `mv_pred` before the situation was
named and left out:

| Where | What |
|---|---|
| `slice_context.rs:1628`, `decode_cavlc.rs:1869` | CAVLC never sets `mb_is_8x8dct`, so the filter works inside 8x8 transform blocks (run `cavlc_8x8_flag`) |
| `decode_cabac.rs` I_PCM | `mb_cbp` and `prev_mb_qp` become 0: later contexts and QPs differ from 9.3.3.1.1 and 7.4.5 (`PcmBefore`, `BesidePcm`) |
| `decode_cabac.rs:3017-3047` | chroma of a B macroblock predicted from list 1 alone is not weighted (`ChromaOfList1`) |
| weights in MBAFF field macroblocks | the tables are indexed by the field's `ref_idx` (`FieldIndexOfWeights`); the chroma offset between fields of unlike parity is 0 there |
| CAVLC B macroblocks of field pairs | range of `ref_idx` and picture it names are those of frame macroblocks (`FieldIndexUnscaled`); B_Skip alike |
| skipped top, coded bottom macroblock of a pair | the top one is decoded with the flag of an earlier pair, rows overlap (`FlagAfterSkippedTop`); a pair skipped as a whole infers nothing |
| `mb_field_decoding_flag` | its context looks at pairs of other slices (`PairOfOtherSlice`) |
| `neighbor.rs:44`, `mv_pred.rs` | above a field pair the bottom macroblock is taken for both; above the bottom field macroblock the top one of its own pair (`BottomField`); references are not scaled between frame and field pairs (`OneKindOfPair`) |
| `mv_pred.rs` temporal direct | a co-located block that has a list 1 vector only counts as intra (`ColocatedList1`); no long-term references |
| `mv_pred.rs:523` spatial direct | a co-located picture that is a long-term reference sets `colZeroFlag` all the same (8.4.1.2.2); `longTerm` is FALSE in `MCMvLayer`, and with TRUE `DirectFollowsStandard` fails |
| `check_mv_diff` | 4 quarter samples vertically in field pictures too; differences and sums of vectors are computed in `i16` |
| `deblock.rs` | `disable_deblocking_filter_idc` 2 is taken for 0; the first slice's parameters hold for the picture; strength 4 on horizontal edges of field pictures |
| `finalize_mb_info` | the last slice's reference order counts stand for the whole picture |
| B_Skip without its reference | returns early and leaves the macroblock's flags as they were |
| first slice | `mb_slice_id` begins as 0, the first slice's id |

Bits:

| Where | What |
|---|---|
| `slice.rs` | `redundant_pic_cnt`, `colour_plane_id`, `sp_for_switch_flag` and `slice_qs_delta` are not read; `pred_weight_table` not for SP; `mb_skip_run` is cast to `i32` unchecked |
| `slice.rs:306` | op 3 packs its two operands into one word; an unknown op ends the list silently |
| `sps.rs:428`, `pps.rs:84` | no default for a scaling list whose first delta says so; absent 8x8 lists do not fall back to the defaults, absent 4x4 lists of a PPS keep the SPS's; a PPS keeps the lists of an SPS that has been sent again since |
| `cabac.rs:448`, `:518` | field-coded 8x8 luma blocks use the frame table of contexts |
| `cabac.rs:881` | the suffix of a vector difference may grow without bound on illegal data |
| `cabac.rs:183` | the first offsets 510 and 511 are accepted |

## 7. Not modelled

- Sample arithmetic (`intra_pred.rs`, `inter_pred.rs`, `residual.rs`, `simd/` and the filters of
  `deblock.rs`): functions of large blocks of numbers without control; the reference streams of
  `src/testdata` test them better.  What they are applied to, and with which parameters, is
  modelled.
- The values of the CABAC initialisation tables: data, constants of the model.
- Marking of fields, the second field's lists, several PPSs at once: the code differs from the
  standard there throughout (section 6), and a model could only say so again.
- Panics other than those of `expect_meta` and of two fields that do not fit: within a slice,
  decoding succeeds or fails.  Pictures with the same number of macroblocks are assumed to have as
  many in a row (`OrderedDecoderAssumption`), so that cropping (`decoder.rs:395-442`) drops no
  frame.
- SEI, which the decoder does not parse; cropping and frame rate arithmetic of `Sps`; concealment of
  lost macroblocks: no control depends on them.
- `profile.rs`, `sha256.rs`, `error.rs`, `lib.rs`, examples, the fuzz target: no decoder logic.

## 8. Plan

1. *Done:* marking, reference lists, order counts of all types, pictures and reordering, one-time
   initialisation; framing, bit reader, headers, arithmetic decoder and its syntax elements, CAVLC
   blocks; the macroblock layer in both entropy modes; vectors; edges.  The proofs of section 5.
2. Two PPSs on the air, and a slice that names the second one, through `BitInput` and `MbLayer`.
3. Proofs: the contexts of `MbLayer` for the macroblocks of one row.
