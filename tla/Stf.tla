--------------------------------- MODULE Stf ----------------------------------
(***************************************************************************)
(* The model format, kernel/stf.h: a header, tensor descriptors, data.     *)
(* Offsets and sizes in the file are any 64-bit numbers.                   *)
(***************************************************************************)
EXTENDS Integers, SequencesExt

CONSTANTS
    HeaderSize, TensorSize,     \* 64 and 128 in the code
    STF_MAX_TENSORS,            \* 256
    Word64                      \* 2^64

ASSUME StfAssumptions ==
    /\ {HeaderSize, TensorSize, STF_MAX_TENSORS, Word64} \subseteq Nat \ {0}
    /\ HeaderSize + STF_MAX_TENSORS * TensorSize < Word64

TableEnd(m) == HeaderSize + m.n_tensors * TensorSize

stf_validate(m) ==
    IF m.size < HeaderSize THEN -1
    ELSE IF ~ m.magic THEN -2
    ELSE IF ~ m.version THEN -3
    ELSE IF m.n_tensors = 0 \/ m.n_tensors > STF_MAX_TENSORS THEN -4
    ELSE IF m.size < TableEnd(m) THEN -5
    ELSE 0

stf_load(m) ==
    IF stf_validate(m) # 0 THEN stf_validate(m)
    ELSE IF m.data_offset >= m.size THEN -6
    ELSE IF TableEnd(m) > m.data_offset THEN -7
    ELSE 0

\* The first tensor of that name; 0 when there is none.
stf_find(m, name) ==
    SelectInSeq(SubSeq(m.tensors, 1, m.n_tensors), LAMBDA t : t.name = name)

\* Where in the file the tensor's data starts; 0 stands for NULL.
DataBySum(m, t) ==                              \* mutant: the sum is compared, and wraps
    IF (t.data_offset + t.data_bytes) % Word64 > m.size - m.data_offset THEN 0
    ELSE m.data_offset + t.data_offset

stf_tensor_data(m, t) ==
    LET data_size == m.size - m.data_offset
    IN  IF t.data_offset > data_size \/ t.data_bytes > data_size - t.data_offset THEN 0
        ELSE m.data_offset + t.data_offset

\* What a caller may rely on: the pointer it gets has data_bytes bytes of the file
\* behind it, none of them a descriptor; NULL means the tensor does not fit.
PointerSound(m, t) ==
    LET start == m.data_offset + t.data_offset
    IN  IF stf_tensor_data(m, t) # 0
          THEN /\ stf_tensor_data(m, t) = start
               /\ TableEnd(m) <= start /\ start + t.data_bytes <= m.size
          ELSE start + t.data_bytes > m.size
==============================================================================
