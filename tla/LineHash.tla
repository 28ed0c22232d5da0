---- MODULE LineHash ----
(***************************************************************************)
(* The hash by which src/Sources/SSBDiffCore.c compares lines: FNV-1a. A   *)
(* line is a sequence of bytes.                                            *)
(***************************************************************************)
EXTENDS Words

CONSTANTS FNV_OFFSET_BASIS, FNV_PRIME    \* modulo 2^W

ssb_diff_hash_line(line) ==
  Iterate(LAMBDA hash, i: (XOR(hash, line[i + 1]) * FNV_PRIME) % 2^W,
          FNV_OFFSET_BASIS, Len(line))
====
