---------------------------- MODULE FhePrecompiles ----------------------------
(***************************************************************************)
(* The FHE part of the mock precompiles                                    *)
(* (crates/covenant-evm-runtime/src/precompiles.rs): a heap that maps      *)
(* ciphertext handles to plaintexts.  Every operation mints a new handle;  *)
(* the operators below take a heap and return the heap after the call.     *)
(*                                                                         *)
(* A handle is keccak256("covenant-fhe" || fhe_nonce); the hash is taken   *)
(* as injective, so a handle is represented by the nonce it hashes.  NULL, *)
(* the zero word of an unset storage slot, is no handle.                   *)
(***************************************************************************)
EXTENDS Naturals

CONSTANT Width   \* 2^256: plaintexts are U256

ASSUME FheAssumption == Width \in Nat /\ 2 <= Width

NULL == 0
Plain == 0 .. Width - 1

Heap == [fhe_nonce : Nat, fhe_handles : UNION {[H -> Plain] : H \in SUBSET Nat}]

EmptyHeap == [fhe_nonce |-> 0, fhe_handles |-> [h \in {} |-> 0]]

\* The handle the last mint returned.
Minted(heap) == heap.fhe_nonce

\* HashMap::insert: a handle already in the map would be overwritten.
mint_fhe(heap, plaintext) ==
  LET handle == heap.fhe_nonce + 1 IN
    [fhe_nonce |-> handle,
     fhe_handles |-> [h \in DOMAIN heap.fhe_handles \cup {handle} |->
                        IF h = handle THEN plaintext ELSE heap.fhe_handles[h]]]

\* An unknown word resolves to zero.
resolve_fhe(heap, h) ==
  IF h \in DOMAIN heap.fhe_handles THEN heap.fhe_handles[h] ELSE 0

FHE_ENCRYPT_TRIVIAL(heap, plaintext) == mint_fhe(heap, plaintext)

FHE_ADD(heap, a, b) ==
  mint_fhe(heap, (resolve_fhe(heap, a) + resolve_fhe(heap, b)) % Width)

FHE_SUB(heap, a, b) ==
  mint_fhe(heap, (resolve_fhe(heap, a) + Width - resolve_fhe(heap, b)) % Width)

FHE_CMP_GE(heap, a, b) ==
  mint_fhe(heap, IF resolve_fhe(heap, a) >= resolve_fhe(heap, b) THEN 1 ELSE 0)

\* The one-bit decryption behind AssertEncrypted.
FHE_THRESHOLD_DECRYPT_BOOL(heap, h) == resolve_fhe(heap, h) # 0

FHE_REVEAL_DECRYPT(heap, h) == resolve_fhe(heap, h)

\* impl Clone for MockPrecompileState: the map is copied, fhe_nonce is left
\* at its default.
CloneHeap(heap) == [EmptyHeap EXCEPT !.fhe_handles = heap.fhe_handles]
=============================================================================
