--------------------------------- MODULE Simd ---------------------------------
(***************************************************************************)
(* The INT8 kernels, kernel/simd.h: the level the processor allows, the    *)
(* three dot products, their dispatch, and the matrix product built on     *)
(* them.  The vector paths add 128 to a's elements to make them unsigned,  *)
(* multiply and add them in pairs with saturation to 16 bits, and subtract *)
(* 128 times the sum of b's elements.                                      *)
(***************************************************************************)
EXTENDS Integers, SequencesExt

CONSTANT Lanes                                  \* 16: elements in a 128-bit register

ASSUME SimdAssumptions == Lanes \in Nat \ {0} /\ Lanes % 2 = 0

SCALAR == 0
SSE42 == 1
AVX2 == 2

sam_simd_init(cpu) == IF cpu.avx2 THEN AVX2 ELSE IF cpu.sse42 THEN SSE42 ELSE SCALAR

sam_int8_dot_scalar(a, b) == SumFunction([k \in DOMAIN a |-> a[k] * b[k]])

Sat16(n) == IF n > 32767 THEN 32767 ELSE IF n < -32768 THEN -32768 ELSE n

\* PMADDUBSW on elements 2k - 1 and 2k.
Pair(a, b, k) == Sat16((a[2 * k - 1] + 128) * b[2 * k - 1] + (a[2 * k] + 128) * b[2 * k])

\* Two products without the bias; ExactPair says that saturation does not show.
PlainPair(a, b, k) == a[2 * k - 1] * b[2 * k - 1] + a[2 * k] * b[2 * k]

ExactPair(a, b, k) ==
    Pair(a, b, k) - 128 * (b[2 * k - 1] + b[2 * k]) = PlainPair(a, b, k)

DotAllBiased(a, b, lanes) ==                    \* mutant: the tail is compensated too
    LET done == (Len(a) \div lanes) * lanes
    IN  SumFunction([k \in 1 .. done \div 2 |-> Pair(a, b, k)])
        - 128 * SumFunction(b)
        + sam_int8_dot_scalar(SubSeq(a, done + 1, Len(a)), SubSeq(b, done + 1, Len(b)))

DotVector(a, b, lanes) ==
    LET done == (Len(a) \div lanes) * lanes
    IN  SumFunction([k \in 1 .. done \div 2 |-> Pair(a, b, k)])
        - 128 * SumFunctionOnSet(b, 1 .. done)
        + sam_int8_dot_scalar(SubSeq(a, done + 1, Len(a)), SubSeq(b, done + 1, Len(b)))

sam_int8_dot_sse42(a, b) == DotVector(a, b, Lanes)
sam_int8_dot_avx2(a, b) == DotVector(a, b, 2 * Lanes)

\* The AVX2 path is there only in a build for AVX2.
sam_int8_dot(level, avx2_built, a, b) ==
    IF level = AVX2 /\ avx2_built THEN sam_int8_dot_avx2(a, b)
    ELSE IF level = SSE42 THEN sam_int8_dot_sse42(a, b)
    ELSE sam_int8_dot_scalar(a, b)

\* C, row-major, of A and B's transpose, both row-major with rows of K.
sam_int8_matmul(level, avx2_built, A, BT, M, K, N) ==
    [c \in 1 .. M * N |->
        LET i == (c - 1) \div N
            j == (c - 1) % N
        IN  sam_int8_dot(level, avx2_built, SubSeq(A, i * K + 1, i * K + K),
                                            SubSeq(BT, j * K + 1, j * K + K))]
==============================================================================
