---------------------------- MODULE MCBlockstore ----------------------------
(***************************************************************************)
(* Two blocks, two codecs and three hash codes: Blake2b256 (the one the   *)
(* syscall accepts), Sha2_256 (a Code the crate knows but the syscall     *)
(* rejects) and Unknown (a code Code::try_from rejects).                  *)
(***************************************************************************)
EXTENDS Blockstore

CONSTANTS d1, d2, DAG_CBOR, RAW, Blake2b256, Sha2_256, Unknown

MCData         == {d1, d2}
MCCodecs       == {DAG_CBOR, RAW}
MCHashCodes    == {Blake2b256, Sha2_256, Unknown}
MCKnownCodes   == {Blake2b256, Sha2_256}
MCSyscallCodes == {Blake2b256}
=============================================================================
