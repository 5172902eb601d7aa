----------------------------- MODULE Blockstore -----------------------------
(***************************************************************************)
(* blockstore.rs: the Blockstore through which the HAMTs of HamtState     *)
(* read and write IPLD blocks.  It delegates to the fvm_sdk::ipld         *)
(* syscalls: put stores a block under the CID the host computes from its  *)
(* codec and hash, get returns the block of a CID.  put_keyed stores a    *)
(* block the caller has already named and checks the name afterwards.     *)
(*                                                                         *)
(* A multihash digest is abstracted to the pair <<hash code, data>>, which *)
(* is injective as a collision-free hash is; byte layout is left out.     *)
(***************************************************************************)
EXTENDS FiniteSets, TLC

CONSTANTS
  Data,          (* block contents                                       *)
  Codecs,        (* IPLD codecs of a block (DAG_CBOR, ...)                *)
  HashCodes,     (* multihash codes a CID may carry                       *)
  KnownCodes,    (* codes that cid::multihash::Code::try_from accepts     *)
  SyscallCodes   (* codes that the ipld::put syscall accepts              *)

ASSUME SyscallCodes \subseteq KnownCodes /\ KnownCodes \subseteq HashCodes

Cid(code, codec, d) == [code |-> code, codec |-> codec, digest |-> <<code, d>>]

\* Every CID a caller can name, including ones whose digest is not that of
\* the block it comes with.
Cids == {[code |-> h, codec |-> c, digest |-> <<g, d>>] :
           h \in HashCodes, c \in Codecs, g \in HashCodes, d \in Data}

VARIABLES
  blocks,   (* the host's block store: CID -> data                       *)
  ret       (* operation, result code, CID and data of the last call     *)

vars == <<blocks, ret>>

Return(op, code, k, d) == ret' = [op |-> op, code |-> code, cid |-> k, data |-> d]

\* fvm_sdk::ipld::put: the host hashes the block and stores it under the
\* resulting CID, or rejects the hash code.
IpldPut(code, codec, d) ==
  IF code \in SyscallCodes
    THEN [code |-> "Ok", cid |-> Cid(code, codec, d),
          blocks |-> (Cid(code, codec, d) :> d) @@ blocks]
    ELSE [code |-> "PutFailed", cid |-> Cid(code, codec, d), blocks |-> blocks]

\* Variant of get: an unknown CID answered with Ok(None).
GetOptional(k) ==
  /\ IF k \in DOMAIN blocks
       THEN Return("get", "Ok", k, blocks[k])
       ELSE Return("get", "Ok", k, "none")
  /\ UNCHANGED blocks

\* Blockstore::get: Ok(Some(block)) for a stored CID; the syscall fails
\* for any other CID, so Ok(None) is never returned.
Get(k) ==
  /\ IF k \in DOMAIN blocks
       THEN Return("get", "Ok", k, blocks[k])
       ELSE Return("get", "NotFound", k, "none")
  /\ UNCHANGED blocks

\* Blockstore::put.
Put(code, codec, d) ==
  LET r == IpldPut(code, codec, d)
  IN  /\ blocks' = r.blocks
      /\ Return("put", r.code, r.cid, d)

\* Variant of put_keyed: putting without comparing the CID the host returns.
PutKeyedNoCompare(k, d) ==
  /\ k.code \in KnownCodes
  /\ LET r == IpldPut(k.code, k.codec, d)
     IN  /\ blocks' = r.blocks
         /\ Return("put_keyed", r.code, k, d)

\* Blockstore::put_keyed: the hash code of k must be a known Code; the
\* block is put with it, and an error follows if the host's CID is not k.
\* The block stays stored under the host's CID even then.
PutKeyed(k, d) ==
  IF k.code \notin KnownCodes
    THEN /\ Return("put_keyed", "UnknownCode", k, d)
         /\ UNCHANGED blocks
    ELSE LET r == IpldPut(k.code, k.codec, d)
         IN  /\ blocks' = r.blocks
             /\ Return("put_keyed",
                       IF r.code # "Ok" THEN r.code
                       ELSE IF r.cid # k THEN "CidMismatch" ELSE "Ok", k, d)

Init ==
  /\ blocks = [k \in {} |-> k]
  /\ ret = [op |-> "none", code |-> "Ok", cid |-> "none", data |-> "none"]

Next ==
  \/ \E k \in Cids : Get(k)
  \/ \E h \in HashCodes, c \in Codecs, d \in Data : Put(h, c, d)
  \/ \E k \in Cids, d \in Data : PutKeyed(k, d)

Spec == Init /\ [][Next]_vars

(***************************************************************************)
(* Properties.                                                             *)
(***************************************************************************)
TypeOK ==
  /\ DOMAIN blocks \subseteq Cids
  /\ \A k \in DOMAIN blocks : blocks[k] \in Data
  /\ ret.op \in {"none", "get", "put", "put_keyed"}
  /\ ret.code \in {"Ok", "NotFound", "PutFailed", "UnknownCode", "CidMismatch"}
  /\ ret.op = "get" /\ ret.code = "Ok" => ret.data \in Data

\* A put_keyed that returns Ok leaves the block retrievable by get under
\* the caller's key (the k != k2 check of Blockstore::put_keyed).
PutKeyedRetrievable ==
  [][ret'.op = "put_keyed" /\ ret'.code = "Ok" =>
       ret'.cid \in DOMAIN blocks' /\ blocks'[ret'.cid] = ret'.data]_vars
=============================================================================
