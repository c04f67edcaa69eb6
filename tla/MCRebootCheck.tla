--------------------------- MODULE MCRebootCheck ---------------------------
(***************************************************************************)
(* A host with one sensitive package and some kernels; and all pairs of    *)
(* releases over a few characters.                                         *)
(***************************************************************************)
EXTENDS RebootCheck

CONSTANT glibc

Kernel(n, r) == [name |-> n, release |-> r]

\* The releases 9, 10 and 10.1, and what the debug kernel adds to them.
R9 == <<57>>
R10 == <<49, 48>>
R101 == <<49, 48, 46, 49>>
Debug == <<43, 100>>

MCSuffix == [n \in {"kernel-core", "kernel-rt-core", "kernel-debug-core", "kernel-tools"} |->
               IF n = "kernel-debug-core" THEN Debug ELSE <<>>]

MCKernels == {Kernel("kernel-core", R9), Kernel("kernel-core", R10),
              Kernel("kernel-rt-core", R10), Kernel("kernel-rt-core", R101),
              Kernel("kernel-debug-core", R10), Kernel("kernel-debug-core", R101),
              Kernel("kernel-tools", R10)}

TwoKernels == {Kernel("kernel-core", R9), Kernel("kernel-core", R10)}

\* 0, 1, 2, a, b and the period.
Characters == {48, 49, 50, 97, 98, 46}

MCReleases == UNION {[1..n -> Characters] : n \in 0..3}
=============================================================================
