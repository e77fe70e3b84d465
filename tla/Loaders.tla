------------------------------ MODULE Loaders ------------------------------
(***************************************************************************)
(* The entries of src/implementations: what each declares of its scripts   *)
(* (the structure, where the public inputs and the proof are) and how its  *)
(* load() makes a scenario out of the contents of its vector files.  Files *)
(* that fit together load in the same way; an entry names the form of its  *)
(* files, the context its steps get, and the optional parts it reads.      *)
(*                                                                         *)
(* The contents of the files are the argument v: a record with the parts   *)
(* of all files of the entry, None for a part a file does not have.  A     *)
(* script that a file has in hexadecimal is the script itself.  A load()   *)
(* that throws gives None.  Positions count from one; only the positions   *)
(* the entries declare are written as in the code, from zero.              *)
(***************************************************************************)
EXTENDS ScenarioContract, SequencesExt

CONSTANTS
  P2sh32(_),    \* the locking that pays to the hash of a script
  PushOf(_),    \* the push of a script
  Flipped(_)    \* a push with one bit of its data flipped

Each(f(_), xs) == [k \in DOMAIN xs |-> f(xs[k])]

Optional(x) == IF x = None THEN << >> ELSE << x >>

-----------------------------------------------------------------------------
(* What an entry declares                                                   *)

(* The slots of the two public inputs: whole pushes, or fields of 32 bytes. *)
Slot(i, p, o, name) == [input |-> i + 1, push |-> p + 1, offset |-> o, name |-> name]

Numbers(inputs, n0, n1) ==
    {Slot(i, p, None, "n0") : i \in inputs, p \in n0} \cup {Slot(i, p, None, "n1") : i \in inputs, p \in n1}

Fields(inputs, p, n0, n1) ==
    {Slot(i, p, o, "n0") : i \in inputs, o \in n0} \cup {Slot(i, p, o, "n1") : i \in inputs, o \in n1}

SlotBytes == 32

NumericPushes(i, first, count) ==
    [k \in 1 .. count |->
        [input |-> i + 1, push |-> first + k, encoding |-> "vm-number", offset |-> None, length |-> None]]

(* Variant: the fields next to the proof are counted as proof.              *)
PackedFieldsPastEnd(i, p, first, length, count) ==
    [k \in 1 .. count + 1 |->
        [input |-> i + 1, push |-> p + 1, encoding |-> "bytes",
         offset |-> first + (k - 1) * length, length |-> length]]

PackedFields(i, p, first, length, count) ==
    [k \in 1 .. count |->
        [input |-> i + 1, push |-> p + 1, encoding |-> "bytes",
         offset |-> first + (k - 1) * length, length |-> length]]

AffineSingletonProofInputs == NumericPushes(0, 2, 8)
GenpowSingletonProofInputs == NumericPushes(0, 2, 8)
Bn254MinopProofInputs == NumericPushes(0, 193, 8)
Bls12381MinopProofInputs == NumericPushes(0, 13, 8)
Bls12381MinopRolledProofInputs == NumericPushes(0, 13, 8)
Bls12381FsSingletonProofInputs ==
    PackedFields(0, 22, 0, 1, 1) \o PackedFields(0, 22, 1, 48, 4) \o PackedFields(0, 22, 545, 48, 4)
Bn254SiGlsProofInputs == PackedFields(0, 1, 0, 32, 8)
Bls12381SiGlsProofInputs == PackedFields(0, 1, 0, 48, 8)
Bn254SiGlsDprojProofInputs == PackedFields(0, 1, 0, 32, 8)
Bls12381SiGlsDprojProofInputs == PackedFields(0, 1, 0, 48, 8)
Bn254RolledResidueProofInputs == PackedFields(0, 0, 0, 32, 8)
Bn254SoundNativeProofInputs == PackedFields(2, 1, 0, 32, 8)
Bls12381SoundNativeProofInputs == PackedFields(0, 1, 0, 48, 8)
IntratxResidueGenesis(i) ==
    PackedFields(i, 0, 0, 32, 2) \o PackedFields(i, 0, 13 * 32, 32, 4) \o PackedFields(i, 0, 6 * 32, 32, 2)
Bn254IntratxResidueProofInputs == IntratxResidueGenesis(2)
Bn254IntratxResidueLargeProofInputs == IntratxResidueGenesis(1)
Bn254CovenantResidueProofInputs == NumericPushes(0, 7, 8)
Bls12381CovenantResidueProofInputs == NumericPushes(4, 1, 8)
Bls12381IntratxFsProofInputs ==
    PackedFields(0, 1, 0, 1, 1) \o PackedFields(0, 1, 1, 48, 4) \o PackedFields(0, 1, 545, 48, 4)

Entry(id, structure, slots, proof, load) ==
    [id |-> id, structure |-> structure, slots |-> slots, proof |-> proof, load |-> load]

(* A load() by the form of its files; `requires' are parts it uses without  *)
(* asking whether they are there.                                           *)
Loading(form, context, reads, requires) ==
    [form |-> form, context |-> context, reads |-> reads, requires |-> requires]

Form(form) == Loading(form, None, {}, {})
Listed(context, reads) == Loading("runs", context, {"extras", "worst"} \cup reads, {})
Required(context, parts) == Loading("runs", context, parts, parts)
Chain(context, reads) == Loading("chain", context, reads, {})
Singleton(reads) == Loading("singleton", None, reads, {})
Wrapped(form) == Loading(form, None, {}, {})

FsEntry(id) ==
    Entry(id, "single-tx", Fields({0}, 1, {193}, {225}), Bls12381IntratxFsProofInputs,
          Required("intraTx", {"extras", "worst", "invalid"}))

Groth16Bls12381IntratxFsCompact == FsEntry("bch-groth16-bls12381-intratx-fs-compact")
Groth16Bls12381IntratxFsFusedCarrierPair == FsEntry("bch-groth16-bls12381-intratx-fs-fused-carrier-pair")
Groth16Bls12381IntratxFsFusedCoordinatorHeadFields == FsEntry("bch-groth16-bls12381-intratx-fs-fused-coordinator-head-fields")
Groth16Bls12381IntratxFsFusedCoordinatorHead == FsEntry("bch-groth16-bls12381-intratx-fs-fused-coordinator-head")
Groth16Bls12381IntratxFsFusedFinal == FsEntry("bch-groth16-bls12381-intratx-fs-fused-final")
Groth16Bls12381IntratxFsFusedFirstTail == FsEntry("bch-groth16-bls12381-intratx-fs-fused-first-tail")
Groth16Bls12381IntratxFsFusedMiddlePair == FsEntry("bch-groth16-bls12381-intratx-fs-fused-middle-pair")
Groth16Bls12381IntratxFsFusedRegularPairsPacked == FsEntry("bch-groth16-bls12381-intratx-fs-fused-regular-pairs-packed")
Groth16Bls12381IntratxFsFusedRegularPairs == FsEntry("bch-groth16-bls12381-intratx-fs-fused-regular-pairs")
Groth16Bls12381IntratxFsFusedRegularTriples == FsEntry("bch-groth16-bls12381-intratx-fs-fused-regular-triples")
Groth16Bls12381IntratxFsFusedRegular == FsEntry("bch-groth16-bls12381-intratx-fs-fused-regular")
Groth16Bls12381IntratxFsRegularInitializer == FsEntry("bch-groth16-bls12381-intratx-fs-regular-initializer")
Groth16Bls12381IntratxFs == FsEntry("bch-groth16-bls12381-intratx-fs")

Groth16Bls12381ChunkedCovenantResidue ==
    Entry("bch-groth16-bls12381-chunked-covenant-residue", "multi-tx",
          Numbers(0 .. 3, {4, 6}, {2, 5}) \cup Numbers({4}, {13, 15}, {11, 14}),
          Bls12381CovenantResidueProofInputs, Chain("kinded", {"extra", "invalidInputs"}))

Groth16Bls12381ChunkedCovenant ==
    Entry("bch-groth16-bls12381-chunked-covenant", "multi-tx",
          Numbers(4 .. 14, {1}, {0}) \cup Numbers(15 .. 46, {2}, {1}),
          << >>, Chain("kinded", {"extra", "invalidInputs"}))

Groth16Bls12381Chunked ==
    Entry("bch-groth16-bls12381-chunked", "multi-tx",
          Numbers(0 .. 3, {4, 6}, {2, 5}) \cup Numbers({4}, {13, 15}, {11, 14}),
          << >>, Chain("thread", {"extras", "worst", "invalidInputs"}))

Groth16Bls12381GroupedResidue ==
    Entry("bch-groth16-bls12381-grouped-residue", "multi-tx",
          Fields({0}, 0, {0, 96}, {48, 192}) \cup Fields(1 .. 4, 0, {144, 240}, {192, 336}),
          << >>, Listed("siblings", {"invalid", "invalidInputs"}))

(* Variant: what the entry of one transaction says is left in its copy.     *)
Groth16Bls12381GroupedAsOne ==
    Entry("bch-groth16-bls12381-grouped", "single-tx",
          Fields({0}, 0, {0, 96}, {48, 192}) \cup Fields(1 .. 4, 0, {144, 240}, {192, 336}),
          << >>, Listed("grouped", {"invalid", "invalidInputs"}))

Groth16Bls12381Grouped ==
    Entry("bch-groth16-bls12381-grouped", "multi-tx",
          Fields({0}, 0, {0, 96}, {48, 192}) \cup Fields(1 .. 4, 0, {144, 240}, {192, 336}),
          << >>, Listed("grouped", {"invalid", "invalidInputs"}))

Groth16Bls12381IntratxResidueLargeCorrected ==
    Entry("bch-groth16-bls12381-intratx-residue-large-corrected", "single-tx",
          Fields({0}, 0, {0}, {48}),
          << >>, Listed("intraTx", {}))

Groth16Bls12381IntratxResidueLarge ==
    Entry("bch-groth16-bls12381-intratx-residue-large", "single-tx",
          Fields({0}, 0, {0, 96}, {48, 192}),
          << >>, Listed("intraTx", {"invalid", "invalidInputs"}))

Groth16Bls12381IntratxResidue ==
    Entry("bch-groth16-bls12381-intratx-residue-corrected", "single-tx",
          Fields({0}, 0, {0, 96}, {48, 192}) \cup Fields(1 .. 4, 0, {144, 240}, {192, 336}),
          << >>, Listed("intraTx", {"invalid", "invalidInputs"}))

Groth16Bls12381Intratx ==
    Entry("bch-groth16-bls12381-intratx", "single-tx",
          Fields({0}, 0, {0, 96}, {48, 192}) \cup Fields(1 .. 4, 0, {144, 240}, {192, 336}),
          << >>, Listed("intraTx", {"invalid", "invalidInputs"}))

Groth16Bls12381SingletonFsSpecShared ==
    Entry("bch-groth16-bls12381-singleton-fs-spec-shared", "single-tx",
          Fields({0}, 22, {193}, {225}),
          Bls12381FsSingletonProofInputs, Wrapped("fixturesP2sh"))

Groth16Bls12381SingletonFsSpecZero ==
    Entry("bch-groth16-bls12381-singleton-fs-spec-zero", "single-tx",
          Fields({0}, 22, {193}, {225}),
          Bls12381FsSingletonProofInputs, Wrapped("fixturesP2sh"))

Groth16Bls12381SingletonFsSpec ==
    Entry("bch-groth16-bls12381-singleton-fs-spec", "single-tx",
          Fields({0}, 22, {193}, {225}),
          Bls12381FsSingletonProofInputs, Wrapped("fixturesP2sh"))

Groth16Bls12381SingletonFs ==
    Entry("bch-groth16-bls12381-singleton-fs", "single-tx",
          Fields({0}, 22, {193}, {225}),
          Bls12381FsSingletonProofInputs, Wrapped("fixtures"))

Groth16Bls12381SingletonGenpow ==
    Entry("bch-groth16-bls12381-singleton-genpow", "single-tx",
          Numbers({0}, {1}, {0}),
          GenpowSingletonProofInputs, Singleton({"proofs"}))

Groth16Bls12381SingletonMinOpRolled ==
    Entry("bch-groth16-bls12381-singleton-minop-rolled", "single-tx",
          Numbers({0}, {4, 12}, {2, 11}),
          Bls12381MinopRolledProofInputs, Wrapped("rolled"))

Groth16Bls12381SingletonMinOp ==
    Entry("bch-groth16-bls12381-singleton-minop", "single-tx",
          Numbers({0}, {4, 12}, {2, 11}),
          Bls12381MinopProofInputs, Singleton({"proofs", "more", "worst"}))

Groth16Bls12381SingletonOpcodeOptimized ==
    Entry("bch-groth16-bls12381-singleton-opcode-optimized", "single-tx",
          Numbers({0}, {1}, {0}),
          AffineSingletonProofInputs, Singleton({"proofs", "more"}))

Groth16Bls12381Singleton ==
    Entry("bch-groth16-bls12381-singleton", "single-tx",
          Numbers({0}, {1}, {0}),
          AffineSingletonProofInputs, Singleton({"proofs", "more"}))

Groth16Bls12381SoundNative ==
    Entry("bch-groth16-bls12381-sound-native", "single-tx",
          Fields({0}, 1, {384}, {416}),
          Bls12381SoundNativeProofInputs, Listed("intraTx", {"invalid"}))

Groth16Bls12381SoundSiGlsDproj ==
    Entry("bch-groth16-bls12381-sound-si-gls-dproj", "single-tx",
          Fields({0}, 1, {384}, {416}),
          Bls12381SiGlsDprojProofInputs, Listed("intraTx", {"invalid"}))

Groth16Bls12381SoundSiGlsSingle ==
    Entry("bch-groth16-bls12381-sound-si-gls-single", "single-tx",
          Fields({0}, 1, {384}, {416}),
          Bls12381SiGlsProofInputs, Listed("intraTx", {"invalid", "variant"}))

Groth16Bn254SoundNative ==
    Entry("bch-groth16-bn254-sound-native", "single-tx",
          Fields({2}, 1, {256}, {288}),
          Bn254SoundNativeProofInputs, Listed("intraTx", {"invalid"}))

Groth16ChunkedCovenantResidue ==
    Entry("bch-groth16-chunked-covenant-residue", "multi-tx",
          Numbers({0}, {4, 6}, {2, 5}) \cup Numbers(1 .. 2, {12, 14}, {10, 13}) \cup Numbers({3}, {40, 42}, {38, 41}),
          Bn254CovenantResidueProofInputs, Chain("kinded", {"extra", "worst", "identity", "invalidRuns", "invalidInputs"}))

Groth16ChunkedCovenant ==
    Entry("bch-groth16-chunked-covenant", "multi-tx",
          Numbers(8 .. 14, {1}, {0}) \cup Numbers(15 .. 36, {2}, {1}),
          << >>, Chain("kinded", {"extra", "invalidInputs"}))

Groth16Chunked ==
    Entry("bch-groth16-chunked", "multi-tx",
          Numbers(0 .. 5, {2}, {1}) \cup Numbers({6}, {11}, {10}),
          << >>, Chain("thread", {"extras", "worst", "invalidInputs"}))

Groth16GroupedResidue ==
    Entry("bch-groth16-grouped-residue-corrected", "multi-tx",
          Fields({3}, 0, {0, 64}, {32, 98}) \cup Fields(4 .. 5, 0, {96, 160}, {128, 194}),
          << >>, Listed("grouped", {"invalid", "invalidInputs"}))

Groth16Grouped ==
    Entry("bch-groth16-grouped", "multi-tx",
          Fields({3}, 0, {0}, {32}) \cup Fields(4 .. 8, 0, {96}, {128}),
          << >>, Listed("grouped", {"invalid", "invalidInputs"}))

Groth16IntratxAuthenticatedP2s ==
    Entry("bch-groth16-intratx-authenticated-p2s-corrected", "single-tx",
          Fields({3}, 0, {0}, {32}) \cup Fields(4 .. 8, 0, {96}, {128}),
          << >>, Listed("intraTx", {"invalid"}))

Groth16IntratxCrown8Rawchain ==
    Entry("bch-groth16-intratx-crown8-rawchain", "single-tx",
          Fields({6}, 16, {0}, {}) \cup Fields({6}, 15, {}, {0}),
          << >>, Form("crown8"))

Groth16IntratxDirectStatePublic ==
    Entry("bch-groth16-intratx-direct-state-public", "single-tx",
          Numbers({7}, {90}, {89}),
          << >>, Listed("intraTx", {"invalid"}))

Groth16IntratxGeneral ==
    Entry("bch-groth16-intratx-general", "single-tx",
          Numbers({10}, {91}, {90}),
          << >>, Listed("intraTx", {"invalid"}))

Groth16IntratxPairfold5DenslessMsmSlim ==
    Entry("bch-groth16-intratx-pairfold5-densless-msm-slim", "single-tx",
          Numbers({4}, {53}, {52}),
          << >>, Listed("intraTx", {"invalid"}))

Groth16IntratxPairfold5DenslessMsmSpec ==
    Entry("bch-groth16-intratx-pairfold5-densless-msm-spec", "single-tx",
          Numbers({3}, {23}, {22}),
          << >>, Listed("intraTx", {"invalid"}))

Groth16IntratxPairfold5DenslessMsm ==
    Entry("bch-groth16-intratx-pairfold5-densless-msm", "single-tx",
          Numbers({3}, {22}, {21}),
          << >>, Listed("intraTx", {"invalid"}))

Groth16IntratxPairfold5Densless ==
    Entry("bch-groth16-intratx-pairfold5-densless", "single-tx",
          Numbers({3}, {39}, {38}),
          << >>, Listed("intraTx", {"invalid", "invalidInputs"}))

Groth16IntratxPairfold5PevalfuseDeterministic ==
    Entry("bch-groth16-intratx-pairfold5-pevalfuse-deterministic", "single-tx",
          Numbers({3}, {37}, {36}),
          << >>, Form("cases"))

Groth16IntratxPairfold5Pevalfuse ==
    Entry("bch-groth16-intratx-pairfold5-pevalfuse", "single-tx",
          Numbers({3}, {37}, {36}),
          << >>, Listed("intraTx", {"invalid", "invalidInputs"}))

Groth16IntratxPairfold5 ==
    Entry("bch-groth16-intratx-pairfold5", "single-tx",
          Numbers({3}, {37}, {36}),
          << >>, Listed("intraTx", {"invalid", "invalidInputs"}))

Groth16IntratxPairfold7 ==
    Entry("bch-groth16-intratx-pairfold7", "single-tx",
          Numbers({5}, {36}, {35}),
          << >>, Listed("intraTx", {"invalid", "invalidInputs"}))

Groth16IntratxResidueLarge ==
    Entry("bch-groth16-intratx-residue-large", "single-tx",
          Fields({0}, 0, {0, 64}, {32, 98}),
          Bn254IntratxResidueLargeProofInputs, Listed("intraTx", {"invalid", "invalidInputs"}))

Groth16IntratxResidue ==
    Entry("bch-groth16-intratx-residue", "single-tx",
          Fields({0}, 0, {0, 64}, {32, 98}) \cup Fields({1}, 0, {96, 160}, {128, 194}),
          Bn254IntratxResidueProofInputs, Listed("intraTx", {"resource", "invalid", "invalidInputs"}))

Groth16Intratx ==
    Entry("bch-groth16-intratx", "single-tx",
          Fields({3}, 0, {0}, {32}) \cup Fields(4 .. 8, 0, {96}, {128}),
          << >>, Listed("intraTx", {"invalid", "invalidInputs"}))

Groth16SingletonGenpow ==
    Entry("bch-groth16-singleton-genpow", "single-tx",
          Numbers({0}, {1}, {0}),
          GenpowSingletonProofInputs, Singleton({"proofs"}))

Groth16SingletonMinOp ==
    Entry("bch-groth16-singleton-minop", "single-tx",
          Numbers({0}, {5, 192}, {3, 191}),
          Bn254MinopProofInputs, Singleton({"proofs", "mustWorst"}))

Groth16SingletonOpcodeOptimized ==
    Entry("bch-groth16-singleton-opcode-optimized", "single-tx",
          Numbers({0}, {1}, {0}),
          AffineSingletonProofInputs, Singleton({"proofs", "zero", "more", "worst"}))

Groth16SingletonRolledResidueMulc ==
    Entry("bch-groth16-singleton-rolled-residue-mulc", "single-tx",
          Fields({0}, 0, {256}, {288}),
          Bn254RolledResidueProofInputs, Listed("intraTx", {"invalid"}))

Groth16SingletonRolledResidue ==
    Entry("bch-groth16-singleton-rolled-residue", "single-tx",
          Fields({0}, 0, {256}, {288}),
          Bn254RolledResidueProofInputs, Listed("intraTx", {"invalid"}))

Groth16Singleton ==
    Entry("bch-groth16-singleton", "single-tx",
          Numbers({0}, {1}, {0}),
          AffineSingletonProofInputs, Singleton({"proofs", "zero", "more", "worst"}))

Groth16SoundSiGlsDproj ==
    Entry("bch-groth16-sound-si-gls-dproj", "single-tx",
          Fields({0}, 1, {256}, {288}),
          Bn254SiGlsDprojProofInputs, Listed("intraTx", {"invalid"}))

Groth16SoundSiGlsSingle ==
    Entry("bch-groth16-sound-si-gls-single", "single-tx",
          Fields({0}, 1, {256}, {288}),
          Bn254SiGlsProofInputs, Listed("intraTx", {"invalid", "variant"}))

MultistepDemo ==
    Entry("bch-multistep-demo", "multi-tx", {}, << >>, Form("demo"))

PairingBls12381Chunked ==
    Entry("bch-pairing-bls12381-chunked", "multi-tx", {}, << >>, Chain("thread", {"extras"}))

PairingBls12381Intratx ==
    Entry("bch-pairing-bls12381-intratx", "single-tx", {}, << >>, Listed("intraTx", {"invalid"}))

PairingBls12381Singleton ==
    Entry("bch-pairing-bls12381-singleton", "single-tx", {}, << >>, Singleton({}))

PairingChunked ==
    Entry("bch-pairing-chunked", "multi-tx", {}, << >>, Chain("thread", {"extras", "worst"}))

PairingIntratx ==
    Entry("bch-pairing-intratx", "single-tx", {}, << >>, Listed("intraTx", {"invalid"}))

PairingSingleton ==
    Entry("bch-pairing-singleton", "single-tx", {}, << >>, Singleton({}))

VkxBls12381ChunkedCovenant ==
    Entry("bch-vkx-bls12381-chunked-covenant", "multi-tx", {}, << >>, Chain("thread", {"extras"}))

VkxBls12381Singleton ==
    Entry("bch-vkx-bls12381-singleton", "single-tx", {}, << >>, Singleton({"lockingBAD"}))

VkxBls12381SuccessorCorrected ==
    Entry("bch-vkx-bls12381-successor-corrected", "multi-tx", {}, << >>,
          Required("successor", {"extras"}))

VkxChunkedCovenant ==
    Entry("bch-vkx-chunked-covenant", "multi-tx",
          Numbers(0 .. 5, {2}, {1}) \cup Numbers({6}, {3}, {2}),
          << >>, Chain("thread", {"extras", "worst"}))

VkxChunkedShamir ==
    Entry("bch-vkx-chunked-shamir", "multi-tx", {}, << >>, Form("shamir"))

VkxChunkedTwoloop ==
    Entry("bch-vkx-chunked-twoloop", "multi-tx", {}, << >>, Form("twoloop"))

VkxScalarmult ==
    Entry("bch-vkx-scalarmult", "single-tx", {}, << >>, Form("one"))

VkxSingleton ==
    Entry("bch-vkx-singleton", "single-tx", {}, << >>, Singleton({"lockingBAD"}))

Nchain ==
    Entry("nchain", "single-tx", {}, << >>, Form("one"))

ScryptBn256 ==
    Entry("scrypt-bn256", "single-tx", {}, << >>, Form("one"))

(* The entries made from a catalog: corrected frames, one per original.     *)
BnExactFrameCorrected ==
    LET entry(id, structure, context, slots) == Entry(id, structure, slots, << >>, Listed(context, {}))
        msm == Fields({3}, 0, {0}, {32}) \cup Fields(4 .. 8, 0, {96}, {128})
    IN  { entry("bch-groth16-intratx-exact-frame-corrected", "single-tx", "intraTx", msm),
          entry("bch-groth16-grouped-exact-frame-corrected", "multi-tx", "grouped", msm),
          entry("bch-pairing-intratx-exact-frame-corrected", "single-tx", "intraTx", {}),
          entry("bch-groth16-intratx-residue-exact-frame-corrected", "single-tx", "intraTx",
                Fields({0}, 0, {0, 64}, {32, 98}) \cup Fields({1}, 0, {96, 160}, {128, 194})),
          entry("bch-groth16-grouped-residue-exact-frame-corrected", "multi-tx", "grouped",
                Fields({3}, 0, {0, 64}, {32, 98}) \cup Fields(4 .. 5, 0, {96, 160}, {128, 194})) }

(* Archived programs behind a checker of the equation, one per original.    *)
Groth16Bn254LegacyEquationChecked ==
    LET entry(original, guard, n0, n1) ==
            Entry("bch-groth16-intratx-" \o original \o "-equation-checked", "single-tx",
                  Numbers({guard}, {n0}, {n1}), << >>, Form("cases"))
    IN  { entry("pairfold5", 3, 37, 36), entry("pairfold5-pevalfuse", 3, 37, 36),
          entry("pairfold5-densless", 3, 39, 38), entry("pairfold5-densless-msm", 3, 22, 21),
          entry("pairfold5-densless-msm-slim", 4, 53, 52), entry("pairfold5-densless-msm-spec", 3, 23, 22),
          entry("pairfold7", 5, 36, 35) }

(* The entries that are benchmarked when none is named.                     *)
Registry ==
    { Nchain, ScryptBn256, Groth16Singleton, Groth16SingletonOpcodeOptimized,
      Groth16SingletonGenpow, Groth16SingletonMinOp, Groth16Bls12381Singleton,
      Groth16Bls12381SingletonOpcodeOptimized, Groth16Bls12381SingletonGenpow,
      Groth16Bls12381SingletonMinOp, Groth16Bls12381SingletonFs, Groth16Bls12381SingletonFsSpec,
      Groth16Bls12381SingletonFsSpecShared, Groth16Bls12381SingletonFsSpecZero, Groth16Chunked,
      Groth16ChunkedCovenant, Groth16ChunkedCovenantResidue, VkxScalarmult, VkxSingleton,
      VkxBls12381Singleton, VkxChunkedTwoloop, VkxChunkedShamir, VkxChunkedCovenant,
      PairingSingleton, PairingBls12381Singleton, PairingChunked, PairingBls12381Chunked,
      Groth16Bls12381Chunked, Groth16Bls12381ChunkedCovenant,
      Groth16Bls12381ChunkedCovenantResidue, Groth16IntratxDirectStatePublic,
      Groth16IntratxResidue, Groth16IntratxResidueLarge, Groth16IntratxCrown8Rawchain,
      Groth16SoundSiGlsSingle, Groth16Bls12381SoundSiGlsSingle, Groth16Bn254SoundNative,
      Groth16Bls12381SoundNative, Groth16SoundSiGlsDproj, Groth16Bls12381SoundSiGlsDproj,
      Groth16SingletonRolledResidue, Groth16SingletonRolledResidueMulc,
      Groth16Bls12381SingletonMinOpRolled, Groth16IntratxGeneral, PairingBls12381Intratx,
      Groth16Bls12381Intratx, Groth16Bls12381IntratxFs, Groth16Bls12381IntratxFsCompact,
      Groth16Bls12381IntratxFsFusedFinal, Groth16Bls12381IntratxFsFusedRegular,
      Groth16Bls12381IntratxFsFusedRegularPairs, Groth16Bls12381IntratxFsFusedRegularPairsPacked,
      Groth16Bls12381IntratxFsFusedRegularTriples, Groth16Bls12381IntratxFsFusedCarrierPair,
      Groth16Bls12381IntratxFsFusedMiddlePair, Groth16Bls12381IntratxFsRegularInitializer,
      Groth16Bls12381IntratxFsFusedFirstTail, Groth16Bls12381IntratxFsFusedCoordinatorHead,
      Groth16Bls12381IntratxFsFusedCoordinatorHeadFields, Groth16Bls12381Grouped, MultistepDemo }

(* The others, which only a comparison or an admission names.               *)
Candidates ==
    { Groth16Bls12381GroupedResidue, Groth16Bls12381IntratxResidueLargeCorrected,
      Groth16Bls12381IntratxResidueLarge, Groth16Bls12381IntratxResidue, Groth16GroupedResidue,
      Groth16Grouped, Groth16IntratxAuthenticatedP2s, Groth16IntratxPairfold5DenslessMsmSlim,
      Groth16IntratxPairfold5DenslessMsmSpec, Groth16IntratxPairfold5DenslessMsm,
      Groth16IntratxPairfold5Densless, Groth16IntratxPairfold5PevalfuseDeterministic,
      Groth16IntratxPairfold5Pevalfuse, Groth16IntratxPairfold5, Groth16IntratxPairfold7,
      Groth16Intratx, PairingIntratx, VkxBls12381ChunkedCovenant, VkxBls12381SuccessorCorrected }
    \cup BnExactFrameCorrected \cup Groth16Bn254LegacyEquationChecked

-----------------------------------------------------------------------------
(* The steps of a run, from its raw steps                                   *)

Plain(s) ==
    [lock |-> s.lock, unlock |-> s.unlock, checkpoint |-> s.checkpoint,
     covenant |-> None, intraTx |-> None, grouped |-> None]

InputsOfRun(raw) == [i \in DOMAIN raw |-> [lock |-> raw[i].lock, unlock |-> raw[i].unlock]]

ToIntraTx(raw) ==
    [i \in DOMAIN raw |-> [Plain(raw[i]) EXCEPT !.intraTx = [index |-> i, inputs |-> InputsOfRun(raw)]]]

(* Variant: the position is counted in the run, not in the group.           *)
ToGroupedInRun(run, category) ==
    [i \in DOMAIN run.steps |->
        LET g == run.groups[run.steps[i].group]
        IN  [Plain(run.steps[i]) EXCEPT !.grouped =
              [group |-> run.steps[i].group, index |-> i,
               inputs |-> InputsOfRun(SubSeq(run.steps, g.lo, g.hi)), category |-> category,
               inToken |-> g.inToken, inputTokens |-> g.inputTokens, outToken |-> g.outToken,
               outLock |-> IF g.outLock = EmptyBytes THEN None ELSE g.outLock]]]

(* The inputs of a group are the steps from lo to hi.                       *)
ToGrouped(run, category) ==
    [i \in DOMAIN run.steps |->
        LET g == run.groups[run.steps[i].group]
        IN  [Plain(run.steps[i]) EXCEPT !.grouped =
              [group |-> run.steps[i].group, index |-> i - g.lo + 1,
               inputs |-> InputsOfRun(SubSeq(run.steps, g.lo, g.hi)), category |-> category,
               inToken |-> g.inToken, inputTokens |-> g.inputTokens, outToken |-> g.outToken,
               outLock |-> IF g.outLock = EmptyBytes THEN None ELSE g.outLock]]]

(* Loaders that have no tokens for single inputs leave them out.            *)
WithoutSiblings(run) ==
    [i \in DOMAIN run |-> [run[i] EXCEPT !.grouped.inputTokens = None]]

Carried(c, inputCapability, baton, outLock) ==
    [category |-> c.category, capability |-> c.capability, inCommitment |-> c.inCommitment,
     outCommitment |-> c.outCommitment, outLock |-> outLock,
     inputCapability |-> inputCapability, baton |-> baton]

ToThread(raw) ==
    [i \in DOMAIN raw |->
        LET c == raw[i].covenant
        IN  [Plain(raw[i]) EXCEPT !.covenant = IF c = None THEN None ELSE Carried(c, None, FALSE, c.outLock)]]

(* Variant: the last step is not told apart.                                *)
SpentCapabilityNoTerminal(s) == IF s.kind = "genesis" THEN "minting" ELSE s.covenant.capability

(* The first step mints its token, the last one burns its token's right.    *)
SpentCapability(s) ==
    CASE s.kind = "genesis" -> "minting"
      [] s.kind = "terminal" -> "mutable"
      [] OTHER -> s.covenant.capability

ToKindedThread(raw) ==
    [i \in DOMAIN raw |->
        LET c == raw[i].covenant
        IN  [Plain(raw[i]) EXCEPT !.covenant =
               Carried(c, SpentCapability(raw[i]), raw[i].kind = "genesis", c.outLock)]]

(* Variant: every step hands its token to itself, as the vectors say.       *)
ToSuccessorItself(raw, selected) ==
    [i \in DOMAIN raw |->
        [Plain(raw[i]) EXCEPT !.lock = selected[i],
                              !.covenant = Carried(raw[i].covenant, None, FALSE, selected[i])]]

(* Other lockings, each bound to the next.                                  *)
ToSuccessor(raw, selected) ==
    [i \in DOMAIN raw |->
        [Plain(raw[i]) EXCEPT
            !.lock = selected[i],
            !.covenant = Carried(raw[i].covenant, None, FALSE,
                                 IF i + 1 \in DOMAIN selected THEN selected[i + 1] ELSE selected[i])]]

ToRun(context, v, raw) ==
    CASE context = "intraTx"   -> ToIntraTx(raw)
      [] context = "grouped"   -> WithoutSiblings(ToGrouped(raw, v.category))
      [] context = "siblings"  -> ToGrouped(raw, v.category)
      [] context = "thread"    -> ToThread(raw)
      [] context = "kinded"    -> ToKindedThread(raw)
      [] context = "successor" -> ToSuccessor(raw, v.selected)

-----------------------------------------------------------------------------
(* The scenario, from the files                                             *)

Scenario(valid, extras, worst, invalid) ==
    [valid |-> valid, extras |-> extras, worst |-> worst, invalid |-> invalid,
     invalidInputs |-> None, tamperable |-> FALSE, variant |-> None]

(* Complete runs under their names.                                         *)
RunsOf(load, v) ==
    LET read(part)  == IF part \in load.reads THEN v[part] ELSE None
        run(raw)    == ToRun(load.context, v, raw)
        runs(part)  == Each(run, Given(read(part), << >>))
        worst(w)    == IF w = None THEN None ELSE run(w)
        pad(f)      == Scenario(run(f.valid), Each(run, Given(f.extras, << >>)), worst(f.worst),
                                Each(run, Given(f.invalid, << >>)))
        other(raw)  == \E i \in DOMAIN raw : raw[i].lock # v.originals[i]
    IN  IF \/ \E part \in load.requires : v[part] = None
           \/ load.context = "successor" /\ (other(v.valid) \/ \E k \in DOMAIN v.extras : other(v.extras[k]))
        THEN None
        ELSE [Scenario(run(v.valid), runs("extras") \o Each(run, Optional(read("resource"))),
                       worst(read("worst")), runs("invalid"))
              EXCEPT !.invalidInputs = runs("invalidInputs"),
                     !.variant = IF read("variant") = None THEN None ELSE pad(v.variant)]

(* The steps a chain is tampered with at, counted from one.                 *)
Probes(id, n) ==
    CASE id = "bch-groth16-chunked-covenant" -> << 1, 16, 37, n >>
      [] id = "bch-groth16-bls12381-chunked-covenant" -> << 1, 16, 46, n >>
      [] id = "bch-groth16-bls12381-chunked-covenant-residue" -> << 1, 16, n - 1, n >>
      [] id = "bch-groth16-chunked-covenant-residue" -> << 1, IF n < 7 THEN n ELSE 7, n - 1, n >>
      [] OTHER -> << 1, n >>

(* One transaction a step; an invalid run is one step with another          *)
(* unlocking, in the context it has in the run.                             *)
ChainOf(id, load, v) ==
    LET read(part)  == IF part \in load.reads THEN v[part] ELSE None
        run(raw)    == ToRun(load.context, v, raw)
        runs(part)  == Each(run, Given(read(part), << >>))
        single(part) == Each(run, Optional(read(part)))
        valid       == run(v.valid)
        probes      == Probes(id, Len(v.valid))
        tampered(p) == << [valid[p] EXCEPT !.unlock = v.valid[p].invalidUnlock] >>
    IN  IF \E k \in DOMAIN probes : probes[k] \notin DOMAIN v.valid \/ v.valid[probes[k]].invalidUnlock = None
        THEN None
        ELSE [Scenario(valid,
                       IF load.context = "thread" THEN runs("extras")
                       ELSE single("extra") \o single("worst") \o runs("identity"),
                       IF read("worst") = None THEN None ELSE run(v.worst),
                       Each(tampered, probes) \o runs("invalidRuns"))
              EXCEPT !.invalidInputs = runs("invalidInputs")]

(* The committed proof is the valid run, the others are the extra ones.     *)
Committed(proofs) == SelectSeq(proofs, LAMBDA p : p.committed)
Uncommitted(proofs) == SelectSeq(proofs, LAMBDA p : ~p.committed)

(* The invalid unlockings of all proofs.                                    *)
InvalidOf(proofs) == FlattenSeq(Each(LAMBDA p : p.invalid, proofs))

(* A program of one input: all runs are the valid step with another         *)
(* unlocking, or, for an invalid run of the vk_x entries, another locking.  *)
SingletonOf(load, v) ==
    LET read(part) == IF part \in load.reads THEN v[part] ELSE None
        base       == Plain(v)
        with(u)    == << [base EXCEPT !.unlock = u] >>
        proof(p)   == with(p.unlock)
        zeros      == Given(read("zero"), << >>)
    IN  IF "mustWorst" \in load.reads /\ v.worst = None THEN None
        ELSE Scenario(<< base >>,
                      Each(proof, Uncommitted(Given(read("proofs"), << >>))) \o Each(proof, zeros),
                      IF load.reads \cap {"worst", "mustWorst"} = {} \/ v.worst = None THEN None ELSE with(v.worst),
                      << with(v.invalidUnlock) >>
                      \o Each(with, InvalidOf(zeros))
                      \o Each(with, Given(read("more"), << >>))
                      \o Each(LAMBDA l : << [base EXCEPT !.lock = l] >>, Optional(read("lockingBAD"))))

WrappedStep(redeem, u) ==
    [lock |-> P2sh32(redeem), unlock |-> u \o << PushOf(redeem) >>, checkpoint |-> "verify",
     covenant |-> None, intraTx |-> None, grouped |-> None]

(* Invalid witnesses other than the one that is there already.              *)
OwnInvalid(proofs, known) == SelectSeq(proofs, LAMBDA p : p.invalid # None /\ p.invalid # known)

(* The rolled minimal-operation program and its own invalid witnesses.      *)
RolledOf(v) ==
    LET with(u) == << WrappedStep(v.lock, u) >>
    IN  Scenario(with(v.unlock),
                 Each(LAMBDA p : with(p.unlock), Uncommitted(v.proofs)),
                 IF v.worst = None THEN None ELSE with(v.worst.unlock),
                 << with(v.invalidUnlock) >> \o Each(with, v.more)
                 \o Each(LAMBDA p : with(p.invalid), OwnInvalid(v.proofs, v.invalidUnlock))
                 \o (IF v.worst = None \/ v.worst.invalid = None THEN << >> ELSE << with(v.worst.invalid) >>))

(* The Fiat-Shamir programs: the committed fixture is the valid run.        *)
FixturesOf(wrapped, v) ==
    LET with(u)   == << IF wrapped THEN WrappedStep(v.lock, u) ELSE [Plain(v) EXCEPT !.unlock = u] >>
    IN  IF Committed(v.proofs) = << >> THEN None
        ELSE Scenario(with(Head(Committed(v.proofs)).unlock),
                      Each(LAMBDA p : with(p.unlock), Uncommitted(v.proofs)),
                      with(v.worst), Each(with, v.more))

(* The pushes of an unlocking that push data, by their positions.           *)
DataPushes(u) ==
    SelectSeq([k \in DOMAIN u |-> k], LAMBDA k : BytesOf(u[k]) # None /\ BytesOf(u[k]) # << >>)

(* Where the crown8 mutations strike: which input, data push and lengths.   *)
Mutated(m) ==
    CASE m.kind = "executor-rawchain-bit"   -> [inputs |-> 1 .. 6, push |-> 3, lengths |-> {576, 768}]
      [] m.kind = "terminal-root-prefix-bit" -> [inputs |-> {8}, push |-> 3, lengths |-> {80}]
      [] m.kind = "terminal-bq-bit"          -> [inputs |-> {8}, push |-> 2, lengths |-> {103 * 32}]
      [] OTHER                               -> [inputs |-> {7}, push |-> 1, lengths |-> {24 * 32}]

Mutable(raw, m) ==
    /\ m.input \in Mutated(m).inputs
    /\ Mutated(m).push \in DOMAIN DataPushes(raw[m.input].unlock)
    /\ LET u == raw[m.input].unlock
       IN  Len(BytesOf(u[DataPushes(u)[Mutated(m).push]])) \in Mutated(m).lengths

(* Variant: the other inputs do not see the changed unlocking.              *)
MutateAlone(raw, m) ==
    LET u == raw[m.input].unlock
        k == DataPushes(u)[Mutated(m).push]
    IN  [ToIntraTx(raw) EXCEPT ![m.input].unlock = [u EXCEPT ![k] = Flipped(u[k])]]

Mutate(raw, m) ==
    LET u == raw[m.input].unlock
        k == DataPushes(u)[Mutated(m).push]
    IN  ToIntraTx([raw EXCEPT ![m.input].unlock = [u EXCEPT ![k] = Flipped(u[k])]])

Crown8Of(v) ==
    IF \/ \E r \in {v.valid, v.worst} \cup {v.extras[k] : k \in DOMAIN v.extras} :
            Len(r) # 8 \/ \E i \in DOMAIN r : r[i].lock # v.valid[i].lock
       \/ \E k \in DOMAIN v.mutations : ~Mutable(v.valid, v.mutations[k])
    THEN None
    ELSE Scenario(ToIntraTx(v.valid), Each(ToIntraTx, v.extras), ToIntraTx(v.worst),
                  Each(LAMBDA m : Mutate(v.valid, m), v.mutations))

(* Public-input chunks, baked for one statement.                            *)
Chunks(v) ==
    [i \in DOMAIN v.valid |->
        [Plain(v.valid[i]) EXCEPT !.checkpoint = IF v.valid[i].final THEN "vk_x" ELSE None]]

Middle(v) == (Len(v.valid) \div 2) + 1

ShamirOf(v) ==
    LET bad(i) == [Chunks(v) EXCEPT ![i].unlock = v.valid[i].invalidUnlock]
    IN  [Scenario(Chunks(v), << >>, None, << bad(Len(v.valid)), bad(Middle(v)) >>)
         EXCEPT !.tamperable = TRUE]

(* The first coordinate of an unlocking: its first short data push.         *)
Coordinates(u) ==
    {k \in DOMAIN u : BytesOf(u[k]) # None /\ Len(BytesOf(u[k])) > 0 /\ Len(BytesOf(u[k])) < 1000}

TwoloopOf(v) ==
    LET unlock(i)  == v.valid[i].unlock
        first(i)   == CHOOSE k \in Coordinates(unlock(i)) : \A j \in Coordinates(unlock(i)) : k <= j
        bad(i)     == [Chunks(v) EXCEPT ![i].unlock = [unlock(i) EXCEPT ![first(i)] = Flipped(unlock(i)[first(i)])]]
    IN  Scenario(Chunks(v), << >>, None,
                 Each(bad, SelectSeq(<< Len(v.valid), Middle(v) >>, LAMBDA i : Coordinates(unlock(i)) # {})))

Tamperable(valid) ==
    [Scenario(valid, << >>, None, None) EXCEPT !.tamperable = TRUE]

(* Three counting steps, each bound to the number the last one left.        *)
DemoOf(v) ==
    Tamperable([i \in 1 .. 3 |->
        [Plain(v.valid[i]) EXCEPT !.checkpoint = CASE i = 1 -> "milestone-1" [] i = 3 -> "milestone-final"
                                                   [] OTHER -> None]])

(* Five archived cases, each program replaced by one that binds the frame.  *)
Adapted(v, raw) ==
    [i \in DOMAIN raw |->
        [raw[i] EXCEPT !.lock = v.lockings[i], !.unlock = Front(raw[i].unlock) \o << PushOf(v.programs[i]) >>]]

CasesOf(v) ==
    IF \/ Len(v.cases) # 5
       \/ \E k \in DOMAIN v.cases : \E i \in DOMAIN v.cases[k] :
            \/ v.cases[k][i].lock # v.originals[i]
            \/ Last(v.cases[k][i].unlock) # PushOf(v.originalPrograms[i])
    THEN None
    ELSE LET run(k) == ToIntraTx(Adapted(v, v.cases[k]))
         IN  Scenario(run(1), << run(2), run(3), run(4) >>, run(5), << >>)

Load(e, v) ==
    CASE e.load.form = "runs"         -> RunsOf(e.load, v)
      [] e.load.form = "chain"        -> ChainOf(e.id, e.load, v)
      [] e.load.form = "singleton"    -> SingletonOf(e.load, v)
      [] e.load.form = "rolled"       -> RolledOf(v)
      [] e.load.form = "fixtures"     -> FixturesOf(FALSE, v)
      [] e.load.form = "fixturesP2sh" -> FixturesOf(TRUE, v)
      [] e.load.form = "crown8"       -> Crown8Of(v)
      [] e.load.form = "shamir"       -> ShamirOf(v)
      [] e.load.form = "twoloop"      -> TwoloopOf(v)
      [] e.load.form = "one"          -> Tamperable(<< Plain(v.valid[1]) >>)
      [] e.load.form = "demo"         -> DemoOf(v)
      [] e.load.form = "cases"        -> CasesOf(v)
=============================================================================
