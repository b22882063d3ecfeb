-------------------------- MODULE MCWalletMonitor --------------------------
(* Model checking of WalletMonitor: the cycles are interchangeable.        *)
EXTENDS WalletMonitor, TLC

CycleSymmetry == Permutations(Cycles)

=============================================================================
