---------------------------- MODULE MockChainProofs ----------------------------
(***************************************************************************)
(* Proofs about the in-memory chain, for any accounts, programs, plaintext *)
(* width, and bounds on handles, opcodes and transactions.                 *)
(***************************************************************************)
EXTENDS MockChain, FiniteSetTheorems, TLAPS

\* A heap whose handles are those minted so far.
HeapOK(h) ==
  /\ h.fhe_nonce \in Word
  /\ DOMAIN h.fhe_handles = 1 .. h.fhe_nonce
  /\ \A x \in 1 .. h.fhe_nonce : h.fhe_handles[x] \in Plain

\* Heap g holds everything heap h does.
Grown(h, g) ==
  /\ h.fhe_nonce <= g.fhe_nonce
  /\ \A x \in 1 .. h.fhe_nonce : g.fhe_handles[x] = h.fhe_handles[x]

\* The words that are zero, a handle of heap h or brought from outside.
KnownIn(h) == (0 .. h.fhe_nonce) \cup Given

\* The opcodes that end a call, and the reason of a call to nobody.
LastOp == {"SSTORE", "LOG", "RETURN", "REVERT", "INVALID", "unsupported", "step limit",
           "no contract"}

EndOf == [kind : {"Ok", "Revert", "Abort"}, op : LastOp]

ReceiptSet ==
  [kind : {"Deploy", "Call"}, from : Account, to : ContractAddress \cup {NULL},
   status : {"Success", "Reverted", "Aborted"}, op : LastOp, logs : Seq(Word)]

\* Receipts whose events are known to heap h; a failed transaction has none.
ReceiptsOK(receipts, h) ==
  /\ receipts \in Seq(ReceiptSet)
  /\ \A i \in DOMAIN receipts :
       /\ receipts[i].logs \in Seq(KnownIn(h))
       /\ receipts[i].status # "Success" => receipts[i].logs = <<>>

\* What lasts: the chain between transactions.
ChainOK ==
  /\ DOMAIN contracts \subseteq ContractAddress
  /\ \A a \in DOMAIN contracts : contracts[a] \in [Slot -> KnownIn(heap)]
  /\ deploy_nonces \in [Account -> Nat]
  /\ clock \in 0 .. MaxU64
  /\ block_number \in 1 .. MaxU64
  /\ HeapOK(heap)
  /\ ReceiptsOK(tx_log, heap)

\* What a call under way can name is in the heap it was lent, and that heap
\* still holds all the chain's.  A static call's scratch heap starts over at
\* nonce 0, so nothing is claimed of its words: it cannot write any.
CallOK ==
  env # NoEnv =>
    /\ env \in [kind : {"Deploy", "Call", "StaticCall"}, caller : Account,
                address : ContractAddress, is_static : BOOLEAN]
    /\ env.is_static <=> env.kind = "StaticCall"
    /\ result \in EndOf \cup {Running}
    /\ env.kind = "Call" => env.address \in DOMAIN contracts /\ env.address \in DOMAIN storage
    /\ env.kind # "StaticCall" =>
         /\ HeapOK(precompiles)
         /\ Grown(heap, precompiles)
         /\ word \in KnownIn(precompiles)
         /\ logs \in Seq(KnownIn(precompiles))
         /\ \A a \in DOMAIN storage : storage[a] \in [Slot -> KnownIn(precompiles)]

IInv == ChainOK /\ CallOK

-----------------------------------------------------------------------------
(***************************************************************************)
(* The heap.                                                               *)
(***************************************************************************)
LEMMA GrownReflexive ==
  ASSUME NEW h, HeapOK(h)
  PROVE  Grown(h, h)
  BY EvmAssumption DEF Grown, HeapOK, Word

LEMMA GrownTransitive ==
  ASSUME NEW h, NEW g, NEW f, HeapOK(h), HeapOK(g), HeapOK(f), Grown(h, g), Grown(g, f)
  PROVE  Grown(h, f)
  BY EvmAssumption DEF Grown, HeapOK, Word

\* A mint adds one handle and keeps the others.
LEMMA Mint ==
  ASSUME NEW h, NEW v \in Plain, HeapOK(h), h.fhe_nonce < MaxHandles
  PROVE  /\ HeapOK(mint_fhe(h, v)) /\ Grown(h, mint_fhe(h, v))
         /\ mint_fhe(h, v).fhe_nonce = h.fhe_nonce + 1
  <1> DEFINE n == h.fhe_nonce
             g == mint_fhe(h, v)
  <1>1. n \in Nat /\ n + 1 \in Word /\ DOMAIN h.fhe_handles = 1 .. n
    BY EvmAssumption DEF HeapOK, Word
  <1>2. /\ g.fhe_nonce = n + 1
        /\ g.fhe_handles = [x \in (1 .. n) \cup {n + 1} |->
                              IF x = n + 1 THEN v ELSE h.fhe_handles[x]]
    BY <1>1 DEF mint_fhe
  <1>3. (1 .. n) \cup {n + 1} = 1 .. n + 1
    BY <1>1
  <1> QED
    BY <1>1, <1>2, <1>3 DEF HeapOK, Grown

\* What a word resolves to is a plaintext.
LEMMA Resolved ==
  ASSUME NEW h, NEW w, HeapOK(h)
  PROVE  resolve_fhe(h, w) \in Plain
  BY FheAssumption DEF resolve_fhe, HeapOK, Plain

LEMMA SumsArePlain ==
  ASSUME NEW x \in Plain, NEW y \in Plain
  PROVE  (x + y) % Width \in Plain
  BY FheAssumption DEF Plain

\* A grown heap knows the words the smaller one did.
LEMMA KnownGrows ==
  ASSUME NEW h, NEW g, HeapOK(h), HeapOK(g), Grown(h, g)
  PROVE  KnownIn(h) \subseteq KnownIn(g)
  BY EvmAssumption DEF KnownIn, Grown, HeapOK, Word

-----------------------------------------------------------------------------
(***************************************************************************)
(* The interpreter: one lemma per opcode.  chainVars are untouched.        *)
(***************************************************************************)
\* What CallOK says of a running call that can write.
Writes ==
  /\ HeapOK(precompiles)
  /\ Grown(heap, precompiles)
  /\ word \in KnownIn(precompiles)
  /\ logs \in Seq(KnownIn(precompiles))
  /\ \A a \in DOMAIN storage : storage[a] \in [Slot -> KnownIn(precompiles)]

Framed ==
  /\ env \in [kind : {"Deploy", "Call", "StaticCall"}, caller : Account,
              address : ContractAddress, is_static : BOOLEAN]
  /\ env.is_static <=> env.kind = "StaticCall"
  /\ result \in EndOf \cup {Running}
  /\ env.kind = "Call" => env.address \in DOMAIN contracts /\ env.address \in DOMAIN storage

LEMMA CallParts == CallOK <=> (env # NoEnv => Framed /\ (env.kind # "StaticCall" => Writes))
  BY DEF CallOK, Framed, Writes

\* A mint by an FHE precompile: every word the call knew it still knows.
LEMMA MintStep ==
  ASSUME ChainOK, CallOK, Step, NEW v,
         HeapOK(precompiles) => v \in Plain,
         OP_STATICCALL(mint_fhe(precompiles, v)), UNCHANGED chainVars
  PROVE  CallOK'
  <1>1. Framed /\ (env.kind # "StaticCall" => Writes)
    BY CallParts DEF Step
  <1>2. Framed'
    BY <1>1 DEF Framed, OP_STATICCALL, chainVars
  <1>3. ASSUME env.kind # "StaticCall" PROVE Writes'
    <2> DEFINE g == mint_fhe(precompiles, v)
    <2>1. Writes
      BY <1>1, <1>3
    <2>2. HeapOK(g) /\ Grown(precompiles, g) /\ g.fhe_nonce = precompiles.fhe_nonce + 1
      BY <2>1, Mint DEF OP_STATICCALL, Writes
    <2>3. KnownIn(precompiles) \subseteq KnownIn(g)
      BY <2>1, <2>2, KnownGrows DEF Writes
    <2>4. Grown(heap, g)
      BY <2>1, <2>2, GrownTransitive DEF Writes, ChainOK
    <2>5. precompiles' = g /\ word' = g.fhe_nonce
          /\ UNCHANGED <<env, storage, logs, result, heap>>
      BY DEF OP_STATICCALL, Minted, chainVars
    <2>6. word' \in KnownIn(g)
      BY <2>2, <2>5, EvmAssumption DEF KnownIn, HeapOK, Word
    <2>7. logs \in Seq(KnownIn(g))
      BY <2>1, <2>3 DEF Writes
    <2>8. \A a \in DOMAIN storage : storage[a] \in [Slot -> KnownIn(g)]
      BY <2>1, <2>3 DEF Writes
    <2> QED
      BY <2>2, <2>4, <2>5, <2>6, <2>7, <2>8 DEF Writes
  <1>4. env' = env
    BY DEF OP_STATICCALL
  <1> QED
    BY <1>2, <1>3, <1>4 DEF CallOK, Framed, Writes

LEMMA LoadStep ==
  ASSUME ChainOK, CallOK, NEW k \in Slot, OP_SLOAD(k), UNCHANGED chainVars
  PROVE  CallOK'
  <1>1. Framed /\ (env.kind # "StaticCall" => Writes)
    BY CallParts DEF OP_SLOAD, Step
  <1>2. Framed'
    BY <1>1 DEF Framed, OP_SLOAD, chainVars
  <1>3. ASSUME env.kind # "StaticCall" PROVE Writes'
    <2>1. Writes
      BY <1>1, <1>3
    <2>2. 0 \in KnownIn(precompiles)
      BY <2>1, EvmAssumption DEF Writes, HeapOK, Word, KnownIn
    <2>3. sload(env.address, k) \in KnownIn(precompiles)
      BY <2>1, <2>2 DEF sload, NULL, Writes
    <2> QED
      BY <2>1, <2>3 DEF Writes, OP_SLOAD, chainVars
  <1> QED
    BY <1>2, <1>3 DEF CallOK, Framed, Writes, OP_SLOAD

LEMMA PushStep ==
  ASSUME ChainOK, CallOK, NEW w \in Given, OP_CALLDATALOAD(w), UNCHANGED chainVars
  PROVE  CallOK'
  <1>1. Framed /\ (env.kind # "StaticCall" => Writes)
    BY CallParts DEF OP_CALLDATALOAD, Step
  <1>2. Framed'
    BY <1>1 DEF Framed, OP_CALLDATALOAD, chainVars
  <1>3. env.kind # "StaticCall" => Writes'
    BY <1>1 DEF Writes, KnownIn, OP_CALLDATALOAD, chainVars
  <1> QED
    BY <1>2, <1>3 DEF CallOK, Framed, Writes, OP_CALLDATALOAD

\* An opcode that ends the call leaves everything else.
LEMMA EndStep ==
  ASSUME ChainOK, CallOK, env # NoEnv, NEW kind \in {"Ok", "Revert", "Abort"},
         NEW op \in LastOp, End(kind, op), UNCHANGED chainVars
  PROVE  CallOK'
  <1>1. Framed /\ (env.kind # "StaticCall" => Writes)
    BY CallParts
  <1>2. Ended(kind, op) \in EndOf
    BY DEF Ended, EndOf
  <1>3. Framed'
    BY <1>1, <1>2 DEF Framed, End, chainVars
  <1>4. env.kind # "StaticCall" => Writes'
    BY <1>1 DEF Writes, End, chainVars
  <1> QED
    BY <1>3, <1>4 DEF CallOK, Framed, Writes, End

LEMMA StoreStep ==
  ASSUME ChainOK, CallOK, NEW k \in Slot, OP_SSTORE(k), UNCHANGED chainVars
  PROVE  CallOK'
  <1>1. env # NoEnv /\ Framed /\ (env.kind # "StaticCall" => Writes)
    BY CallParts DEF OP_SSTORE, Step
  <1>2. CASE env.is_static
    <2>1. End("Abort", "SSTORE") /\ "Abort" \in {"Ok", "Revert", "Abort"} /\ "SSTORE" \in LastOp
      BY <1>2 DEF OP_SSTORE, LastOp
    <2> QED
      BY <1>1, <2>1, EndStep
  <1>3. CASE ~ env.is_static
    <2>1. Writes
      BY <1>1, <1>3 DEF Framed
    <2>2. storage' = sstore(env.address, k, word)
          /\ UNCHANGED <<env, logs, precompiles, word, result, chainVars>>
      BY <1>3 DEF OP_SSTORE
    <2> DEFINE K == KnownIn(precompiles)
               old == IF env.address \in DOMAIN storage THEN storage[env.address] ELSE NoStorage
    <2>3. old \in [Slot -> K]
      <3>1. 0 \in K
        BY <2>1, EvmAssumption DEF Writes, HeapOK, Word, KnownIn
      <3> QED
        BY <2>1, <3>1 DEF Writes, NoStorage, NULL
    <2>4. [old EXCEPT ![k] = word] \in [Slot -> K]
      BY <2>1, <2>3 DEF Writes
    <2>5. /\ DOMAIN storage' = DOMAIN storage \cup {env.address}
          /\ \A a \in DOMAIN storage' : storage'[a] \in [Slot -> K]
      BY <2>1, <2>2, <2>4 DEF sstore, Writes
    <2>6. Writes'
      BY <2>1, <2>2, <2>5 DEF Writes, chainVars
    <2>7. Framed'
      BY <1>1, <2>2, <2>5 DEF Framed, chainVars
    <2> QED
      BY <2>6, <2>7 DEF CallOK, Framed, Writes
  <1> QED
    BY <1>2, <1>3

LEMMA LogStep ==
  ASSUME ChainOK, CallOK, OP_LOG, UNCHANGED chainVars
  PROVE  CallOK'
  <1>1. env # NoEnv /\ Framed /\ (env.kind # "StaticCall" => Writes)
    BY CallParts DEF OP_LOG, Step
  <1>2. CASE env.is_static
    <2>1. End("Abort", "LOG") /\ "Abort" \in {"Ok", "Revert", "Abort"} /\ "LOG" \in LastOp
      BY <1>2 DEF OP_LOG, LastOp
    <2> QED
      BY <1>1, <2>1, EndStep
  <1>3. CASE ~ env.is_static
    <2>1. Writes
      BY <1>1, <1>3 DEF Framed
    <2>2. logs' = Append(logs, word)
          /\ UNCHANGED <<env, storage, precompiles, word, result, chainVars>>
      BY <1>3 DEF OP_LOG
    <2>3. logs' \in Seq(KnownIn(precompiles))
      BY <2>1, <2>2 DEF Writes
    <2>4. Writes'
      BY <2>1, <2>2, <2>3 DEF Writes, chainVars
    <2>5. Framed'
      BY <1>1, <2>2 DEF Framed, chainVars
    <2> QED
      BY <2>4, <2>5 DEF CallOK, Framed, Writes
  <1> QED
    BY <1>2, <1>3

\* Whatever program runs.
LEMMA InterpretStep ==
  ASSUME ChainOK, CallOK, Interpreting
  PROVE  ChainOK' /\ CallOK' /\ UNCHANGED chainVars
  <1>1. UNCHANGED chainVars
    BY DEF Interpreting
  <1>2. ChainOK'
    BY <1>1 DEF chainVars, ChainOK
  <1>3. ASSUME NEW v \in Payload, Encrypt(v) PROVE CallOK'
    BY <1>1, <1>3, EvmAssumption, MintStep DEF Encrypt, FHE_ENCRYPT_TRIVIAL
  <1>4. ASSUME NEW k \in Slot, AddSlot(k) PROVE CallOK'
    <2> DEFINE v == (resolve_fhe(precompiles, word)
                       + resolve_fhe(precompiles, sload(env.address, k))) % Width
    <2>1. HeapOK(precompiles) => v \in Plain
      BY Resolved, SumsArePlain
    <2>2. Step /\ OP_STATICCALL(mint_fhe(precompiles, v))
      BY <1>4 DEF AddSlot, FHE_ADD
    <2> HIDE DEF v
    <2> QED
      BY <1>1, <2>1, <2>2, MintStep
  <1>5. ASSUME NEW k \in Slot, OP_SLOAD(k) \/ OP_SSTORE(k) PROVE CallOK'
    BY <1>1, <1>5, LoadStep, StoreStep
  <1>6. ASSUME OP_LOG PROVE CallOK'
    BY <1>1, <1>6, LogStep
  <1>7. ASSUME OP_RETURN \/ OP_REVERT \/ OP_INVALID \/ Unsupported \/ StepLimit
        PROVE  CallOK'
    <2>1. PICK kind \in {"Ok", "Revert", "Abort"}, op \in LastOp : End(kind, op)
      BY <1>7 DEF OP_RETURN, OP_REVERT, OP_INVALID, Unsupported, StepLimit, LastOp
    <2>2. env # NoEnv
      BY <1>7 DEF OP_RETURN, OP_REVERT, OP_INVALID, Unsupported, StepLimit, Step
    <2> QED
      BY <1>1, <2>1, <2>2, EndStep
  <1>8. ASSUME NEW w \in Given, OP_CALLDATALOAD(w) PROVE CallOK'
    BY <1>1, <1>8, PushStep
  <1> QED
    BY <1>1, <1>2, <1>3, <1>4, <1>5, <1>6, <1>7, <1>8 DEF Interpreting, Interpret

-----------------------------------------------------------------------------
(***************************************************************************)
(* The chain: one lemma per operation.                                     *)
(***************************************************************************)
\* Words a well-formed heap knows are words, and zero is one.
LEMMA KnownAreWords ==
  ASSUME NEW h, HeapOK(h)
  PROVE  KnownIn(h) \subseteq Word /\ 0 \in KnownIn(h)
  <1>1. 0 .. h.fhe_nonce \subseteq Word /\ 0 \in 0 .. h.fhe_nonce
    BY EvmAssumption DEF HeapOK, Word
  <1>2. Given \subseteq Word
    BY EvmAssumption DEF Word
  <1> QED
    BY <1>1, <1>2 DEF KnownIn

\* A receipt is added while the heap grows.
LEMMA AddReceipt ==
  ASSUME NEW h, NEW g, HeapOK(h), HeapOK(g), Grown(h, g), NEW t, ReceiptsOK(t, h),
         NEW r \in ReceiptSet, r.logs \in Seq(KnownIn(g)),
         r.status # "Success" => r.logs = <<>>
  PROVE  ReceiptsOK(Append(t, r), g)
  <1>1. t \in Seq(ReceiptSet) /\ Append(t, r) \in Seq(ReceiptSet)
    BY DEF ReceiptsOK
  <1>2. KnownIn(h) \subseteq KnownIn(g)
    BY KnownGrows
  <1> SUFFICES ASSUME NEW i \in DOMAIN Append(t, r)
               PROVE  /\ Append(t, r)[i].logs \in Seq(KnownIn(g))
                      /\ Append(t, r)[i].status # "Success" => Append(t, r)[i].logs = <<>>
    BY <1>1 DEF ReceiptsOK
  <1>3. CASE i \in DOMAIN t
    <2>1. Append(t, r)[i] = t[i]
      BY <1>1, <1>3
    <2>2. t[i].logs \in Seq(KnownIn(h)) /\ (t[i].status # "Success" => t[i].logs = <<>>)
      BY <1>3 DEF ReceiptsOK
    <2>3. t[i].logs \in Seq(KnownIn(g))
      BY <1>2, <2>2
    <2> QED
      BY <2>1, <2>2, <2>3
  <1>4. CASE i \notin DOMAIN t
    <2>1. Append(t, r)[i] = r
      BY <1>1, <1>4
    <2> QED
      BY <2>1
  <1> QED
    BY <1>3, <1>4

LEMMA InitInv == Init => IInv
  <1> SUFFICES ASSUME Init PROVE IInv
    OBVIOUS
  <1>1. HeapOK(heap)
    BY EvmAssumption DEF Init, EmptyHeap, HeapOK, Word
  <1>2. ReceiptsOK(tx_log, heap)
    BY DEF Init, ReceiptsOK
  <1>3. ChainOK
    BY <1>1, <1>2, MockChainAssumption DEF Init, ChainOK
  <1>4. CallOK
    BY DEF Init, CallOK
  <1> QED
    BY <1>3, <1>4 DEF IInv

\* A call starts on the heap it is lent, with nothing logged.
LEMMA Entered ==
  ASSUME ChainOK, NEW kind \in {"Deploy", "Call", "StaticCall"}, NEW from \in Account,
         NEW address \in ContractAddress, NEW host, NEW lent,
         Enter(CallEnv(kind, from, address)), Lend(host, lent),
         UNCHANGED <<contracts, heap>>,
         kind # "StaticCall" => lent = heap,
         \A a \in DOMAIN host : host[a] \in [Slot -> KnownIn(heap)],
         kind = "Call" => address \in DOMAIN contracts /\ address \in DOMAIN host
  PROVE  CallOK'
  <1> DEFINE callEnv == CallEnv(kind, from, address)
  <1>1. callEnv \in [kind : {"Deploy", "Call", "StaticCall"}, caller : Account,
                     address : ContractAddress, is_static : BOOLEAN]
        /\ (callEnv.is_static <=> callEnv.kind = "StaticCall")
        /\ callEnv.kind = kind /\ callEnv.address = address
    BY DEF CallEnv
  <1>2. env' = callEnv /\ word' = 0 /\ result' = Running
        /\ storage' = host /\ logs' = <<>> /\ precompiles' = lent
    BY DEF Enter, Lend, NULL
  <1> HIDE DEF callEnv
  <1>3. Framed'
    BY <1>1, <1>2 DEF Framed
  <1>4. ASSUME kind # "StaticCall" PROVE Writes'
    <2>1. HeapOK(heap) /\ Grown(heap, heap) /\ 0 \in KnownIn(heap)
      BY GrownReflexive, KnownAreWords DEF ChainOK
    <2> QED
      BY <1>2, <1>4, <2>1 DEF Writes
  <1> QED
    BY <1>1, <1>2, <1>3, <1>4 DEF CallOK, Framed, Writes

LEMMA DeployStartStep ==
  ASSUME IInv, NEW a \in Account, DeployStart(a)
  PROVE  IInv'
  <1> DEFINE address == derive_create_address(a, deploy_nonces[a])
  <1>1. address \in ContractAddress
    BY DEF IInv, ChainOK, derive_create_address, ContractAddress
  <1>2. ChainOK'
    <2>1. deploy_nonces' \in [Account -> Nat]
      BY DEF DeployStart, ConsumeNonce, IInv, ChainOK
    <2> QED
      BY <2>1 DEF DeployStart, IInv, ChainOK
  <1>3. /\ Enter(CallEnv("Deploy", a, address)) /\ Lend([b \in {} |-> NoStorage], heap)
        /\ UNCHANGED <<contracts, heap>>
    BY DEF DeployStart
  <1> HIDE DEF address
  <1>4. CallOK'
    BY <1>1, <1>3, Entered DEF IInv
  <1> QED
    BY <1>2, <1>4 DEF IInv

LEMMA NamedAreAddresses == Named \subseteq ContractAddress
  BY MockChainAssumption DEF Named, derive_create_address, ContractAddress

LEMMA CallStartStep ==
  ASSUME IInv, NEW kind \in {"Call", "StaticCall"}, NEW a \in Account, NEW to \in Named,
         CallStart(kind, a, to)
  PROVE  IInv'
  <1>1. UNCHANGED chainVars /\ to \in DOMAIN contracts /\ to \in ContractAddress
    BY NamedAreAddresses DEF CallStart
  <1>2. ChainOK'
    BY <1>1 DEF chainVars, IInv, ChainOK
  <1>3. /\ Enter(CallEnv(kind, a, to)) /\ Lend([b \in {to} |-> contracts[to]], LentHeap(kind))
        /\ kind # "StaticCall" => LentHeap(kind) = heap
        /\ UNCHANGED <<contracts, heap>>
    BY DEF CallStart, LentHeap, chainVars
  <1>4. \A b \in DOMAIN [x \in {to} |-> contracts[to]] :
          [x \in {to} |-> contracts[to]][b] \in [Slot -> KnownIn(heap)]
    BY <1>1 DEF IInv, ChainOK
  <1>5. CallOK'
    BY <1>1, <1>3, <1>4, Entered DEF IInv
  <1> QED
    BY <1>2, <1>5 DEF IInv

LEMMA CallNobodyStep ==
  ASSUME IInv, NEW a \in Account, NEW to \in Named, CallNobody(a, to)
  PROVE  IInv'
  <1> DEFINE r == Receipt("Call", a, to, "Reverted", "no contract", <<>>)
  <1>1. r \in ReceiptSet /\ r.logs = <<>>
    BY NamedAreAddresses DEF Receipt, ReceiptSet, LastOp
  <1>2. tx_log' = Append(tx_log, r)
        /\ UNCHANGED <<contracts, deploy_nonces, clock, block_number, heap, execVars>>
    BY DEF CallNobody, finalize_receipt
  <1> HIDE DEF r
  <1>3. ReceiptsOK(tx_log', heap)
    <2>1. r.logs \in Seq(KnownIn(heap))
      BY <1>1
    <2>2. HeapOK(heap) /\ Grown(heap, heap) /\ ReceiptsOK(tx_log, heap)
      BY GrownReflexive DEF IInv, ChainOK
    <2> QED
      BY <1>1, <1>2, <2>1, <2>2, AddReceipt
  <1>4. ChainOK'
    BY <1>2, <1>3 DEF IInv, ChainOK
  <1>5. CallOK'
    BY <1>2 DEF IInv, CallOK, execVars
  <1> QED
    BY <1>4, <1>5 DEF IInv

\* What a call that can write leaves behind: a grown heap, and a receipt whose
\* events are known to it.
LEMMA Left ==
  ASSUME IInv, Leave, env.kind # "StaticCall", KeepMints,
         NEW r \in ReceiptSet, r.logs \in {logs, <<>>},
         r.status # "Success" => r.logs = <<>>,
         tx_log' = Append(tx_log, r)
  PROVE  /\ Framed /\ Writes /\ result \in EndOf
         /\ HeapOK(heap') /\ ReceiptsOK(tx_log', heap')
         /\ \A a \in DOMAIN contracts : contracts[a] \in [Slot -> KnownIn(heap')]
         /\ 0 \in KnownIn(heap')
  <1>1. Framed /\ Writes /\ result \in EndOf
    BY CallParts DEF IInv, Leave, Framed
  <1>2. heap' = precompiles /\ HeapOK(precompiles) /\ HeapOK(heap) /\ Grown(heap, precompiles)
    BY <1>1 DEF KeepMints, Writes, IInv, ChainOK
  <1>3. r.logs \in Seq(KnownIn(precompiles))
    <2>1. logs \in Seq(KnownIn(precompiles)) /\ <<>> \in Seq(KnownIn(precompiles))
      BY <1>1 DEF Writes
    <2> QED
      BY <2>1
  <1>4. ReceiptsOK(tx_log', precompiles)
    BY <1>2, <1>3, AddReceipt DEF IInv, ChainOK
  <1>5. KnownIn(heap) \subseteq KnownIn(precompiles) /\ 0 \in KnownIn(precompiles)
    BY <1>2, KnownGrows, KnownAreWords
  <1>6. \A a \in DOMAIN contracts : contracts[a] \in [Slot -> KnownIn(precompiles)]
    BY <1>5 DEF IInv, ChainOK
  <1> QED
    BY <1>1, <1>2, <1>4, <1>5, <1>6

\* A call that has ended has a status.
LEMMA Statuses ==
  ASSUME result \in EndOf
  PROVE  /\ Status(result.kind) \in {"Success", "Reverted", "Aborted"}
         /\ Status(result.kind) = "Success" <=> result.kind = "Ok"
         /\ result.op \in LastOp
  BY DEF EndOf, Status

\* The receipts a deploy and a call leave.
LEMMA EndReceipts ==
  ASSUME IInv, Leave, env.kind # "StaticCall"
  PROVE  LET deployed ==
               IF result.kind = "Ok"
                 THEN Receipt("Deploy", env.caller, env.address, "Success", result.op, logs)
                 ELSE Receipt("Deploy", env.caller, NULL, Status(result.kind), result.op, <<>>)
             called ==
               Receipt("Call", env.caller, env.address, Status(result.kind), result.op,
                       IF result.kind = "Ok" THEN logs ELSE <<>>)
         IN  \A r \in {deployed, called} :
               /\ r \in ReceiptSet /\ r.logs \in {logs, <<>>}
               /\ r.status # "Success" => r.logs = <<>>
               /\ r.status = "Success" <=> result.kind = "Ok"
               /\ r.status = "Success" => r.to = env.address
  <1>1. Framed /\ Writes /\ result \in EndOf
    BY CallParts DEF IInv, Leave, Framed
  <1>2. logs \in Seq(Word) /\ <<>> \in Seq(Word)
    BY <1>1, KnownAreWords DEF Writes
  <1>3. env.caller \in Account /\ env.address \in ContractAddress
    BY <1>1 DEF Framed
  <1>4. /\ Status(result.kind) \in {"Success", "Reverted", "Aborted"}
        /\ Status(result.kind) = "Success" <=> result.kind = "Ok"
        /\ result.op \in LastOp
    BY <1>1, Statuses
  <1>5. ASSUME NEW kind \in {"Deploy", "Call"}, NEW to \in ContractAddress \cup {NULL},
               NEW status \in {"Success", "Reverted", "Aborted"}, NEW events \in Seq(Word)
        PROVE  Receipt(kind, env.caller, to, status, result.op, events) \in ReceiptSet
    BY <1>3, <1>4 DEF Receipt, ReceiptSet
  <1> DEFINE deployed ==
               IF result.kind = "Ok"
                 THEN Receipt("Deploy", env.caller, env.address, "Success", result.op, logs)
                 ELSE Receipt("Deploy", env.caller, NULL, Status(result.kind), result.op, <<>>)
             called ==
               Receipt("Call", env.caller, env.address, Status(result.kind), result.op,
                       IF result.kind = "Ok" THEN logs ELSE <<>>)
  <1>6. deployed \in ReceiptSet /\ called \in ReceiptSet
    BY <1>2, <1>3, <1>4, <1>5
  <1>7. /\ deployed.status = "Success" <=> result.kind = "Ok"
        /\ called.status = "Success" <=> result.kind = "Ok"
        /\ result.kind = "Ok" => deployed.to = env.address
        /\ called.to = env.address
        /\ deployed.logs = IF result.kind = "Ok" THEN logs ELSE <<>>
        /\ called.logs = IF result.kind = "Ok" THEN logs ELSE <<>>
    BY <1>4 DEF Receipt
  <1> HIDE DEF deployed, called
  <1> SUFFICES ASSUME NEW r \in {deployed, called}
               PROVE  /\ r \in ReceiptSet /\ r.logs \in {logs, <<>>}
                      /\ r.status # "Success" => r.logs = <<>>
                      /\ r.status = "Success" <=> result.kind = "Ok"
                      /\ r.status = "Success" => r.to = env.address
    BY DEF deployed, called
  <1> QED
    BY <1>6, <1>7

LEMMA DeployEndStep ==
  ASSUME IInv, DeployEnd
  PROVE  IInv'
  <1> DEFINE r == IF result.kind = "Ok"
                    THEN Receipt("Deploy", env.caller, env.address, "Success", result.op, logs)
                    ELSE Receipt("Deploy", env.caller, NULL, Status(result.kind), result.op, <<>>)
  <1>1. /\ Leave /\ env.kind = "Deploy" /\ KeepMints /\ tx_log' = Append(tx_log, r)
        /\ UNCHANGED <<deploy_nonces, clock, block_number>> /\ env' = NoEnv
    BY DEF DeployEnd, Drop, Leave, finalize_receipt
  <1>2. /\ r \in ReceiptSet /\ r.logs \in {logs, <<>>}
        /\ r.status # "Success" => r.logs = <<>>
    BY <1>1, EndReceipts
  <1> HIDE DEF r
  <1>3. /\ Framed /\ Writes
        /\ HeapOK(heap') /\ ReceiptsOK(tx_log', heap')
        /\ \A a \in DOMAIN contracts : contracts[a] \in [Slot -> KnownIn(heap')]
        /\ 0 \in KnownIn(heap')
    BY <1>1, <1>2, Left
  <1>4. /\ DOMAIN contracts' \subseteq ContractAddress
        /\ \A a \in DOMAIN contracts' : contracts'[a] \in [Slot -> KnownIn(heap')]
    <2> DEFINE written == [k \in Slot |-> sload(env.address, k)]
    <2>1. written \in [Slot -> KnownIn(heap')]
      BY <1>1, <1>3 DEF sload, NULL, Writes, KeepMints
    <2>2. CASE result.kind = "Ok"
      <3>1. contracts' = [a \in DOMAIN contracts \cup {env.address} |->
                            IF a = env.address THEN [k \in Slot |-> sload(a, k)]
                            ELSE contracts[a]]
        BY <2>2 DEF DeployEnd, Commits
      <3>2. env.address \in ContractAddress /\ DOMAIN contracts \subseteq ContractAddress
        BY <1>3 DEF Framed, IInv, ChainOK
      <3> QED
        BY <1>3, <2>1, <3>1, <3>2
    <2>3. CASE result.kind # "Ok"
      BY <1>3, <2>3 DEF DeployEnd, Commits, IInv, ChainOK
    <2> QED
      BY <2>2, <2>3
  <1>5. ChainOK'
    BY <1>1, <1>3, <1>4 DEF IInv, ChainOK
  <1>6. CallOK'
    BY <1>1 DEF CallOK
  <1> QED
    BY <1>5, <1>6 DEF IInv

LEMMA CallEndStep ==
  ASSUME IInv, CallEnd
  PROVE  IInv'
  <1> DEFINE r == Receipt("Call", env.caller, env.address, Status(result.kind), result.op,
                          IF result.kind = "Ok" THEN logs ELSE <<>>)
  <1>1. /\ Leave /\ env.kind = "Call" /\ KeepMints /\ tx_log' = Append(tx_log, r)
        /\ UNCHANGED <<deploy_nonces, clock, block_number>> /\ env' = NoEnv
    BY DEF CallEnd, Drop, Leave, finalize_receipt
  <1>2. /\ r \in ReceiptSet /\ r.logs \in {logs, <<>>}
        /\ r.status # "Success" => r.logs = <<>>
    BY <1>1, EndReceipts
  <1> HIDE DEF r
  <1>3. /\ Framed /\ Writes
        /\ HeapOK(heap') /\ ReceiptsOK(tx_log', heap')
        /\ \A a \in DOMAIN contracts : contracts[a] \in [Slot -> KnownIn(heap')]
    BY <1>1, <1>2, Left
  <1>4. /\ DOMAIN contracts' = DOMAIN contracts
        /\ \A a \in DOMAIN contracts' : contracts'[a] \in [Slot -> KnownIn(heap')]
    <2>1. storage[env.address] \in [Slot -> KnownIn(heap')]
      BY <1>1, <1>3 DEF Framed, Writes, KeepMints
    <2> QED
      BY <1>3, <2>1 DEF CallEnd, Commits
  <1>5. ChainOK'
    BY <1>1, <1>3, <1>4 DEF IInv, ChainOK
  <1>6. CallOK'
    BY <1>1 DEF CallOK
  <1> QED
    BY <1>5, <1>6 DEF IInv

\* The clock and the block number saturate.
LEMMA TimeStep ==
  ASSUME IInv, advance_time(1) \/ mine_block
  PROVE  IInv'
  <1>1. UNCHANGED <<contracts, deploy_nonces, tx_log, heap, execVars>>
    BY DEF advance_time, mine_block
  <1>2. clock' \in 0 .. MaxU64 /\ block_number' \in 1 .. MaxU64
    BY MockChainAssumption DEF advance_time, mine_block, Saturating, IInv, ChainOK
  <1>3. ChainOK'
    BY <1>1, <1>2 DEF IInv, ChainOK
  <1>4. CallOK'
    BY <1>1 DEF IInv, CallOK, execVars
  <1> QED
    BY <1>3, <1>4 DEF IInv

LEMMA NextInv == IInv /\ [Next]_vars => IInv'
  <1> SUFFICES ASSUME IInv, [Next]_vars PROVE IInv'
    OBVIOUS
  <1>1. ASSUME StaticCallEnd PROVE IInv'
    BY <1>1 DEF StaticCallEnd, Drop, Leave, chainVars, IInv, ChainOK, CallOK
  <1>2. ASSUME UNCHANGED vars PROVE IInv'
    BY <1>2 DEF vars, chainVars, execVars, IInv, ChainOK, CallOK
  <1>3. ASSUME Interpreting PROVE IInv'
    BY <1>3, InterpretStep DEF IInv
  <1> QED
    BY <1>1, <1>2, <1>3, DeployStartStep, CallStartStep, CallNobodyStep, DeployEndStep,
       CallEndStep, TimeStep DEF Next

LEMMA Invariance == Spec => []IInv
  BY InitInv, NextInv, PTL DEF Spec

-----------------------------------------------------------------------------
(***************************************************************************)
(* Addresses.  A deploy under way runs at the last nonce its account was   *)
(* given, and no receipt names an address with a nonce not given yet.      *)
(***************************************************************************)
Created == {i \in DOMAIN tx_log : tx_log[i].kind = "Deploy" /\ tx_log[i].status = "Success"}

Deploying == env # NoEnv /\ env.kind = "Deploy"

AddressesFresh ==
  /\ Deploying =>
       /\ deploy_nonces[env.caller] \in Nat \ {0}
       /\ env.address = <<env.caller, deploy_nonces[env.caller] - 1>>
  /\ \A i \in Created :
       /\ tx_log[i].to \in ContractAddress
       /\ tx_log[i].to[2] < deploy_nonces[tx_log[i].to[1]]
       /\ Deploying => tx_log[i].to # env.address

AInv == IInv /\ AddressesFresh /\ ReceiptsExplainContracts

\* What a new receipt adds.
LEMMA NewReceipt ==
  ASSUME tx_log \in Seq(ReceiptSet), NEW r \in ReceiptSet, tx_log' = Append(tx_log, r)
  PROVE  /\ Created' = IF r.kind = "Deploy" /\ r.status = "Success"
                         THEN Created \cup {Len(tx_log) + 1} ELSE Created
         /\ \A i \in Created : tx_log'[i] = tx_log[i] /\ i # Len(tx_log) + 1
         /\ tx_log'[Len(tx_log) + 1] = r
         /\ \A a \in Account :
              /\ Cardinality(ReceiptOf("Deploy", a)) \in Nat
              /\ Cardinality(ReceiptOf("Deploy", a)') =
                   Cardinality(ReceiptOf("Deploy", a))
                     + (IF r.kind = "Deploy" /\ r.from = a THEN 1 ELSE 0)
  <1> DEFINE n == Len(tx_log)
  <1>1. /\ n \in Nat /\ DOMAIN tx_log = 1 .. n /\ DOMAIN tx_log' = 1 .. n + 1
        /\ \A i \in 1 .. n : tx_log'[i] = tx_log[i]
        /\ tx_log'[n + 1] = r
    OBVIOUS
  <1>2. Created' = IF r.kind = "Deploy" /\ r.status = "Success"
                     THEN Created \cup {n + 1} ELSE Created
    BY <1>1 DEF Created
  <1>3. \A i \in Created : i \in 1 .. n
    BY <1>1 DEF Created
  <1>4. ASSUME NEW a \in Account
        PROVE  /\ Cardinality(ReceiptOf("Deploy", a)) \in Nat
               /\ Cardinality(ReceiptOf("Deploy", a)') =
                    Cardinality(ReceiptOf("Deploy", a))
                      + (IF r.kind = "Deploy" /\ r.from = a THEN 1 ELSE 0)
    <2> DEFINE S == ReceiptOf("Deploy", a)
    <2>1. S \subseteq 1 .. n /\ n + 1 \notin S
      BY <1>1 DEF ReceiptOf
    <2>2. IsFiniteSet(S)
      <3>1. IsFiniteSet(1 .. n)
        BY <1>1, FS_Interval
      <3> QED
        BY <2>1, <3>1, FS_Subset
    <2>3. Cardinality(S) \in Nat /\ Cardinality(S \cup {n + 1}) = Cardinality(S) + 1
      BY <2>1, <2>2, FS_CardinalityType, FS_AddElement
    <2>4. ReceiptOf("Deploy", a)' = IF r.kind = "Deploy" /\ r.from = a THEN S \cup {n + 1} ELSE S
      BY <1>1 DEF ReceiptOf
    <2> HIDE DEF S
    <2>5. Cardinality(ReceiptOf("Deploy", a)') =
            Cardinality(S) + (IF r.kind = "Deploy" /\ r.from = a THEN 1 ELSE 0)
      <3>1. CASE r.kind = "Deploy" /\ r.from = a
        <4>1. ReceiptOf("Deploy", a)' = S \cup {n + 1}
          BY <2>4, <3>1
        <4> QED
          BY <2>3, <3>1, <4>1
      <3>2. CASE ~ (r.kind = "Deploy" /\ r.from = a)
        <4>1. ReceiptOf("Deploy", a)' = S
          BY <2>4, <3>2
        <4> QED
          BY <2>3, <3>2, <4>1
      <3> QED
        BY <3>1, <3>2
    <2> QED
      BY <2>3, <2>5 DEF S
  <1> QED
    BY <1>1, <1>2, <1>3, <1>4

\* What leaves receipts, contracts and nonces alone, and starts or ends no
\* deploy, keeps it.
LEMMA SameAddresses ==
  ASSUME AddressesFresh, ReceiptsExplainContracts,
         UNCHANGED <<tx_log, deploy_nonces>>, DOMAIN contracts' = DOMAIN contracts,
         Deploying' <=> Deploying,
         Deploying => UNCHANGED env
  PROVE  AddressesFresh' /\ ReceiptsExplainContracts'
  <1>1. Created' = Created
    BY DEF Created
  <1>2. AddressesFresh'
    BY <1>1 DEF AddressesFresh, Deploying, Created
  <1>3. \A a \in Account : ReceiptOf("Deploy", a)' = ReceiptOf("Deploy", a)
    BY DEF ReceiptOf
  <1>4. ReceiptsExplainContracts'
    BY <1>1, <1>3 DEF ReceiptsExplainContracts, Deploying, Created
  <1> QED
    BY <1>2, <1>4

\* The receipt of a call explains no contract.
LEMMA CallReceipt ==
  ASSUME IInv, AddressesFresh, ReceiptsExplainContracts, ~ Deploying, ~ Deploying',
         NEW r \in ReceiptSet, r.kind = "Call", tx_log' = Append(tx_log, r),
         UNCHANGED deploy_nonces, DOMAIN contracts' = DOMAIN contracts
  PROVE  AddressesFresh' /\ ReceiptsExplainContracts'
  <1>1. /\ Created' = Created
        /\ \A i \in Created : tx_log'[i] = tx_log[i]
        /\ \A a \in Account :
             Cardinality(ReceiptOf("Deploy", a)') = Cardinality(ReceiptOf("Deploy", a))
    <2>1. tx_log \in Seq(ReceiptSet)
      BY DEF IInv, ChainOK, ReceiptsOK
    <2>2. \A a \in Account : Cardinality(ReceiptOf("Deploy", a)) \in Nat
                             /\ Cardinality(ReceiptOf("Deploy", a)')
                                  = Cardinality(ReceiptOf("Deploy", a)) + 0
      BY <2>1, NewReceipt
    <2>3. \A a \in Account :
            Cardinality(ReceiptOf("Deploy", a)') = Cardinality(ReceiptOf("Deploy", a))
      BY <2>2
    <2>4. Created' = Created /\ \A i \in Created : tx_log'[i] = tx_log[i]
      BY <2>1, NewReceipt
    <2> QED
      BY <2>3, <2>4
  <1>2. AddressesFresh'
    BY <1>1 DEF AddressesFresh
  <1>3. {tx_log'[i].to : i \in Created'} = {tx_log[i].to : i \in Created}
    BY <1>1
  <1>4. ReceiptsExplainContracts'
    BY <1>1, <1>3 DEF ReceiptsExplainContracts, Created, Deploying
  <1> QED
    BY <1>2, <1>4

LEMMA DeployStartAddresses ==
  ASSUME AInv, NEW a \in Account, DeployStart(a)
  PROVE  AddressesFresh' /\ ReceiptsExplainContracts'
  <1> DEFINE n == deploy_nonces[a]
             new == CallEnv("Deploy", a, <<a, n>>)
  <1>1. /\ env = NoEnv /\ env' = new
        /\ deploy_nonces' = [deploy_nonces EXCEPT ![a] = @ + 1]
        /\ UNCHANGED <<contracts, tx_log>>
    BY DEF DeployStart, Enter, ConsumeNonce, derive_create_address
  <1>2. deploy_nonces \in [Account -> Nat] /\ n \in Nat
    BY DEF AInv, IInv, ChainOK
  <1>3. new \in [kind : {"Deploy", "Call", "StaticCall"}, caller : Account,
                 address : Account \X Nat, is_static : BOOLEAN]
    BY <1>2 DEF CallEnv
  <1>4. new # NoEnv
    BY <1>3, MockChainAssumption
  <1>5. new.kind = "Deploy" /\ new.caller = a /\ new.address = <<a, n>>
    BY DEF CallEnv
  <1> HIDE DEF new
  <1>6. Created' = Created /\ ~ Deploying /\ Deploying'
    BY <1>1, <1>4, <1>5 DEF Created, Deploying
  <1>7. AddressesFresh'
    <2>1. deploy_nonces'[env'.caller] \in Nat \ {0}
          /\ env'.address = <<env'.caller, deploy_nonces'[env'.caller] - 1>>
      BY <1>1, <1>2, <1>5
    <2> SUFFICES ASSUME NEW i \in Created
                 PROVE  /\ tx_log[i].to \in ContractAddress
                        /\ tx_log[i].to[2] < deploy_nonces'[tx_log[i].to[1]]
                        /\ tx_log[i].to # <<a, n>>
      BY <1>1, <1>5, <1>6, <2>1 DEF AddressesFresh
    <2>2. tx_log[i].to \in Account \X Nat
          /\ tx_log[i].to[2] < deploy_nonces[tx_log[i].to[1]]
      BY DEF AInv, AddressesFresh, ContractAddress
    <2> QED
      BY <1>1, <1>2, <2>2 DEF ContractAddress
  <1>8. ReceiptsExplainContracts'
    <2>1. \A b \in Account : ReceiptOf("Deploy", b)' = ReceiptOf("Deploy", b)
      BY <1>1 DEF ReceiptOf
    <2>2. ASSUME NEW b \in Account
          PROVE  deploy_nonces'[b] = Cardinality(ReceiptOf("Deploy", b))
                                       + (IF b = a THEN 1 ELSE 0)
      <3>1. deploy_nonces[b] = Cardinality(ReceiptOf("Deploy", b)) + 0
        BY <1>1 DEF AInv, ReceiptsExplainContracts
      <3>2. deploy_nonces'[b] = deploy_nonces[b] + (IF b = a THEN 1 ELSE 0)
        BY <1>1, <1>2
      <3>3. Cardinality(ReceiptOf("Deploy", b)) \in Nat
        <4>1. tx_log \in Seq(ReceiptSet)
          BY DEF AInv, IInv, ChainOK, ReceiptsOK
        <4>2. ReceiptOf("Deploy", b) \subseteq 1 .. Len(tx_log) /\ Len(tx_log) \in Nat
          BY <4>1 DEF ReceiptOf
        <4>3. IsFiniteSet(1 .. Len(tx_log))
          BY <4>2, FS_Interval
        <4> QED
          BY <4>2, <4>3, FS_Subset, FS_CardinalityType
      <3> QED
        BY <3>1, <3>2, <3>3
    <2>3. \A b \in Account :
            (env' # NoEnv /\ env'.kind = "Deploy" /\ env'.caller = b) <=> b = a
      BY <1>1, <1>4, <1>5
    <2>4. \A b \in Account : deploy_nonces'[b] = Cardinality(ReceiptOf("Deploy", b)')
            + (IF env' # NoEnv /\ env'.kind = "Deploy" /\ env'.caller = b THEN 1 ELSE 0)
      BY <2>1, <2>2, <2>3
    <2> QED
      BY <1>1, <2>4 DEF AInv, ReceiptsExplainContracts
  <1> QED
    BY <1>7, <1>8

\* The deploy's own receipt takes over its count, and its address if it
\* succeeded; that address was in no receipt.
LEMMA DeployEndAddresses ==
  ASSUME AInv, DeployEnd
  PROVE  AddressesFresh' /\ ReceiptsExplainContracts'
  <1> DEFINE r == IF result.kind = "Ok"
                    THEN Receipt("Deploy", env.caller, env.address, "Success", result.op, logs)
                    ELSE Receipt("Deploy", env.caller, NULL, Status(result.kind), result.op, <<>>)
             n == Len(tx_log) + 1
  <1>1. /\ Leave /\ env # NoEnv /\ env.kind = "Deploy" /\ tx_log' = Append(tx_log, r)
        /\ UNCHANGED deploy_nonces /\ env' = NoEnv
    BY DEF DeployEnd, Drop, Leave, finalize_receipt
  <1>2. /\ r \in ReceiptSet
        /\ r.status = "Success" <=> result.kind = "Ok"
        /\ r.status = "Success" => r.to = env.address
    BY <1>1, EndReceipts DEF AInv
  <1>3. r.kind = "Deploy" /\ r.from = env.caller
    BY DEF Receipt
  <1>4. DOMAIN contracts' = IF r.status = "Success"
                              THEN DOMAIN contracts \cup {env.address} ELSE DOMAIN contracts
    BY <1>2 DEF DeployEnd, Commits
  <1> HIDE DEF r
  <1>5. /\ Created' = IF r.status = "Success" THEN Created \cup {n} ELSE Created
        /\ \A i \in Created : tx_log'[i] = tx_log[i] /\ i # n
        /\ tx_log'[n] = r
        /\ \A a \in Account :
             /\ Cardinality(ReceiptOf("Deploy", a)) \in Nat
             /\ Cardinality(ReceiptOf("Deploy", a)') =
                  Cardinality(ReceiptOf("Deploy", a)) + (IF env.caller = a THEN 1 ELSE 0)
    <2>1. tx_log \in Seq(ReceiptSet)
      BY DEF AInv, IInv, ChainOK, ReceiptsOK
    <2>2. /\ Created' = IF r.kind = "Deploy" /\ r.status = "Success"
                          THEN Created \cup {n} ELSE Created
          /\ \A i \in Created : tx_log'[i] = tx_log[i] /\ i # n
          /\ tx_log'[n] = r
          /\ \A a \in Account :
               /\ Cardinality(ReceiptOf("Deploy", a)) \in Nat
               /\ Cardinality(ReceiptOf("Deploy", a)') =
                    Cardinality(ReceiptOf("Deploy", a))
                      + (IF r.kind = "Deploy" /\ r.from = a THEN 1 ELSE 0)
      BY <1>1, <1>2, <2>1, NewReceipt
    <2> QED BY <1>3, <2>2
  <1>6. Deploying /\ ~ Deploying' /\ env.address \in Account \X Nat /\ env.caller \in Account
    BY <1>1 DEF Deploying, AInv, IInv, CallOK, ContractAddress
  <1>7. /\ deploy_nonces[env.caller] \in Nat \ {0}
        /\ env.address = <<env.caller, deploy_nonces[env.caller] - 1>>
        /\ \A i \in Created : tx_log[i].to # env.address
    BY <1>6 DEF AInv, AddressesFresh
  <1>8. AddressesFresh'
    <2>1. env.address[2] < deploy_nonces[env.address[1]]
      BY <1>7
    <2>2. \A i \in Created' :
            /\ tx_log'[i].to \in ContractAddress
            /\ tx_log'[i].to[2] < deploy_nonces[tx_log'[i].to[1]]
      BY <1>2, <1>5, <1>6, <2>1 DEF AInv, AddressesFresh, ContractAddress
    <2> QED
      BY <1>1, <1>6, <2>2 DEF AddressesFresh
  <1>9. ReceiptsExplainContracts'
    <2>1. /\ DOMAIN contracts = {tx_log[i].to : i \in Created}
          /\ \A i, j \in Created : tx_log[i].to = tx_log[j].to => i = j
      BY DEF AInv, ReceiptsExplainContracts, Created
    <2>2. DOMAIN contracts' = {tx_log'[i].to : i \in Created'}
      <3>1. CASE r.status = "Success"
        BY <1>2, <1>4, <1>5, <2>1, <3>1
      <3>2. CASE r.status # "Success"
        BY <1>4, <1>5, <2>1, <3>2
      <3> QED
        BY <3>1, <3>2
    <2>3. \A i, j \in Created' : tx_log'[i].to = tx_log'[j].to => i = j
      BY <1>2, <1>5, <1>7, <2>1
    <2>4. ASSUME NEW a \in Account
          PROVE  deploy_nonces'[a] = Cardinality(ReceiptOf("Deploy", a)')
                   + (IF env' # NoEnv /\ env'.kind = "Deploy" /\ env'.caller = a
                        THEN 1 ELSE 0)
      <3>1. deploy_nonces[a] = Cardinality(ReceiptOf("Deploy", a))
                                 + (IF env.caller = a THEN 1 ELSE 0)
        BY <1>1 DEF AInv, ReceiptsExplainContracts
      <3>2. Cardinality(ReceiptOf("Deploy", a)') \in Nat
        BY <1>5
      <3> QED
        BY <1>1, <1>5, <3>1, <3>2
    <2> QED
      BY <2>2, <2>3, <2>4 DEF ReceiptsExplainContracts, Created
  <1> QED
    BY <1>8, <1>9

\* The interpreter does not change whose call runs.
LEMMA SameEnv == Interpreting => UNCHANGED <<env, chainVars>>
  BY DEF Interpreting, Interpret, Encrypt, AddSlot, OP_STATICCALL, OP_CALLDATALOAD, OP_SLOAD,
         OP_SSTORE, OP_LOG, OP_RETURN, OP_REVERT, OP_INVALID, Unsupported, StepLimit, End

LEMMA InitAddresses == Init => AInv
  <1> SUFFICES ASSUME Init PROVE AInv
    OBVIOUS
  <1>1. Created = {} /\ \A a \in Account : ReceiptOf("Deploy", a) = {}
    BY DEF Init, Created, ReceiptOf
  <1>2. AddressesFresh
    BY <1>1 DEF Init, AddressesFresh, Deploying
  <1>3. ReceiptsExplainContracts
    BY <1>1, FS_EmptySet DEF Init, ReceiptsExplainContracts, Created
  <1> QED
    BY <1>2, <1>3, InitInv DEF AInv

LEMMA NextAddresses == AInv /\ [Next]_vars => AInv'
  <1> SUFFICES ASSUME AInv, [Next]_vars PROVE AInv'
    OBVIOUS
  <1>1. IInv' /\ IInv /\ AddressesFresh /\ ReceiptsExplainContracts
    BY NextInv DEF AInv
  <1>2. ASSUME NEW a \in Account, DeployStart(a)
        PROVE  AddressesFresh' /\ ReceiptsExplainContracts'
    BY <1>2, DeployStartAddresses
  <1>3. ASSUME NEW kind \in {"Call", "StaticCall"}, NEW a \in Account, NEW to \in Named,
               CallStart(kind, a, to)
        PROVE  AddressesFresh' /\ ReceiptsExplainContracts'
    <2>1. UNCHANGED <<tx_log, deploy_nonces, contracts>> /\ ~ Deploying /\ ~ Deploying'
      BY <1>3 DEF CallStart, chainVars, Enter, CallEnv, Deploying
    <2> QED
      BY <1>1, <2>1, SameAddresses
  <1>4. ASSUME NEW a \in Account, NEW to \in Named, CallNobody(a, to)
        PROVE  AddressesFresh' /\ ReceiptsExplainContracts'
    <2> DEFINE r == Receipt("Call", a, to, "Reverted", "no contract", <<>>)
    <2>1. r \in ReceiptSet /\ r.kind = "Call"
      BY NamedAreAddresses DEF Receipt, ReceiptSet, LastOp
    <2>2. /\ tx_log' = Append(tx_log, r) /\ UNCHANGED <<deploy_nonces, contracts>>
          /\ ~ Deploying /\ ~ Deploying'
      BY <1>4 DEF CallNobody, finalize_receipt, Idle, execVars, Deploying
    <2> HIDE DEF r
    <2> QED
      BY <1>1, <2>1, <2>2, CallReceipt
  <1>5. ASSUME Interpreting
        PROVE  AddressesFresh' /\ ReceiptsExplainContracts'
    <2>1. UNCHANGED <<env, tx_log, deploy_nonces, contracts>>
      BY <1>5, SameEnv DEF chainVars
    <2>2. Deploying' <=> Deploying
      BY <2>1 DEF Deploying
    <2> QED
      BY <1>1, <2>1, <2>2, SameAddresses
  <1>6. ASSUME DeployEnd
        PROVE  AddressesFresh' /\ ReceiptsExplainContracts'
    BY <1>6, DeployEndAddresses
  <1>7. ASSUME CallEnd
        PROVE  AddressesFresh' /\ ReceiptsExplainContracts'
    <2> DEFINE r == Receipt("Call", env.caller, env.address, Status(result.kind), result.op,
                            IF result.kind = "Ok" THEN logs ELSE <<>>)
    <2>1. /\ Leave /\ env.kind = "Call" /\ tx_log' = Append(tx_log, r)
          /\ UNCHANGED deploy_nonces /\ env' = NoEnv
      BY <1>7 DEF CallEnd, Drop, Leave, finalize_receipt
    <2>2. r \in ReceiptSet
      BY <1>1, <2>1, EndReceipts
    <2>3. r.kind = "Call"
      BY DEF Receipt
    <2> HIDE DEF r
    <2>4. DOMAIN contracts' = DOMAIN contracts
      BY <1>7 DEF CallEnd
    <2>5. ~ Deploying /\ ~ Deploying'
      BY <2>1 DEF Deploying
    <2> QED
      BY <1>1, <2>1, <2>2, <2>3, <2>4, <2>5, CallReceipt
  <1>8. ASSUME StaticCallEnd
        PROVE  AddressesFresh' /\ ReceiptsExplainContracts'
    <2>1. UNCHANGED <<tx_log, deploy_nonces, contracts>> /\ ~ Deploying /\ ~ Deploying'
      BY <1>8 DEF StaticCallEnd, Drop, Leave, chainVars, Deploying
    <2> QED
      BY <1>1, <2>1, SameAddresses
  <1>9. ASSUME advance_time(1) \/ mine_block \/ UNCHANGED vars
        PROVE  AddressesFresh' /\ ReceiptsExplainContracts'
    <2>1. UNCHANGED <<env, tx_log, deploy_nonces, contracts>>
      BY <1>9 DEF advance_time, mine_block, execVars, vars, chainVars
    <2>2. Deploying' <=> Deploying
      BY <2>1 DEF Deploying
    <2> QED
      BY <1>1, <2>1, <2>2, SameAddresses
  <1>10. AddressesFresh' /\ ReceiptsExplainContracts'
    BY <1>2, <1>3, <1>4, <1>5, <1>6, <1>7, <1>8, <1>9 DEF Next
  <1> QED
    BY <1>1, <1>10 DEF AInv

-----------------------------------------------------------------------------
(***************************************************************************)
(* Results.                                                                *)
(***************************************************************************)
\* Storage, clock, nonces and heap keep their types (HostState, Chain,
\* MockPrecompileState), and the heap's handles are exactly those minted.
THEOREM TypeCorrect == Spec => []ChainTypeOK
  <1>1. IInv => ChainTypeOK
    <2> SUFFICES ASSUME IInv PROVE ChainTypeOK
      OBVIOUS
    <2>1. HeapOK(heap) /\ KnownIn(heap) \subseteq Word
      BY KnownAreWords DEF IInv, ChainOK
    <2> QED
      BY <2>1 DEF IInv, ChainOK, ChainTypeOK, HeapOK
  <1> QED
    BY <1>1, Invariance, PTL

\* Whichever words code and calldata bring, whatever programs do with them and
\* wherever they revert, no contract stores and no receipt carries another
\* word that the shared heap does not hold (Chain::call keeps the heap of a
\* failed call, static_call drops its own).  As Given is any set, the words
\* excused are no more than those really brought.
THEOREM Resolution == Spec => []HandlesResolve
  <1>1. IInv => HandlesResolve
    <2> SUFFICES ASSUME IInv PROVE HandlesResolve
      OBVIOUS
    <2>1. \A w \in KnownIn(heap) : Resolves(w)
      BY EvmAssumption DEF KnownIn, Resolves, NULL, IInv, ChainOK, HeapOK, Word
    <2> QED
      BY <2>1 DEF IInv, ChainOK, ReceiptsOK, HandlesResolve
  <1> QED
    BY <1>1, Invariance, PTL

\* The contracts are those of the successful deploys, no address is given
\* twice, and nonces count deploys, failed ones included (Chain::deploy).
THEOREM Explained == Spec => []ReceiptsExplainContracts
  <1>1. AInv => ReceiptsExplainContracts
    BY DEF AInv
  <1> QED
    BY <1>1, InitAddresses, NextAddresses, PTL DEF Spec

\* Storage changes with a Success receipt only, at the address it names, and
\* a failed transaction's receipt has no events (Chain::call, Chain::deploy).
THEOREM Atomic == Spec => AllOrNothing
  <1>1. IInv /\ [Next]_vars =>
          [/\ contracts' # contracts =>
                LET receipt == tx_log'[Len(tx_log')] IN
                  /\ Len(tx_log') = Len(tx_log) + 1
                  /\ receipt.status = "Success"
                  /\ \A a \in DOMAIN contracts \ {receipt.to} : contracts'[a] = contracts[a]
           /\ \A i \in DOMAIN tx_log' :
                tx_log'[i].status # "Success" => tx_log'[i].logs = <<>>]_vars
    <2> SUFFICES ASSUME IInv, Next
                 PROVE  /\ contracts' # contracts =>
                             LET receipt == tx_log'[Len(tx_log')] IN
                               /\ Len(tx_log') = Len(tx_log) + 1
                               /\ receipt.status = "Success"
                               /\ \A a \in DOMAIN contracts \ {receipt.to} :
                                    contracts'[a] = contracts[a]
                        /\ \A i \in DOMAIN tx_log' :
                             tx_log'[i].status # "Success" => tx_log'[i].logs = <<>>
      OBVIOUS
    <2>1. \A i \in DOMAIN tx_log' : tx_log'[i].status # "Success" => tx_log'[i].logs = <<>>
      BY NextInv DEF IInv, ChainOK, ReceiptsOK
    <2>2. ASSUME contracts' # contracts
          PROVE  \E r \in ReceiptSet :
                   /\ tx_log' = Append(tx_log, r) /\ r.status = "Success"
                   /\ \A a \in DOMAIN contracts \ {r.to} : contracts'[a] = contracts[a]
      <3>1. DeployEnd \/ CallEnd
        BY <2>2, SameEnv DEF Next, DeployStart, CallStart, CallNobody, StaticCallEnd,
                             advance_time, mine_block, chainVars
      <3>2. CASE DeployEnd
        <4> DEFINE r == Receipt("Deploy", env.caller, env.address, "Success", result.op, logs)
        <4>1. result.kind = "Ok" /\ Leave /\ env.kind = "Deploy" /\ tx_log' = Append(tx_log, r)
              /\ \A a \in DOMAIN contracts \ {env.address} : contracts'[a] = contracts[a]
          BY <2>2, <3>2 DEF DeployEnd, Commits, Drop, finalize_receipt
        <4>2. r \in ReceiptSet
          BY <4>1, EndReceipts
        <4>3. r.status = "Success" /\ r.to = env.address
          BY DEF Receipt
        <4> QED
          BY <4>1, <4>2, <4>3
      <3>3. CASE CallEnd
        <4> DEFINE r == Receipt("Call", env.caller, env.address, Status(result.kind),
                                result.op, logs)
        <4>1. result.kind = "Ok" /\ Leave /\ env.kind = "Call" /\ tx_log' = Append(tx_log, r)
              /\ \A a \in DOMAIN contracts \ {env.address} : contracts'[a] = contracts[a]
          BY <2>2, <3>3 DEF CallEnd, Commits, Drop, finalize_receipt, IInv, ChainOK
        <4>2. r \in ReceiptSet
          BY <4>1, EndReceipts
        <4>3. r.status = "Success" /\ r.to = env.address
          BY <4>1 DEF Receipt, Status
        <4> QED
          BY <4>1, <4>2, <4>3
      <3> QED
        BY <3>1, <3>2, <3>3
    <2>3. ASSUME NEW r \in ReceiptSet, tx_log' = Append(tx_log, r)
          PROVE  Len(tx_log') = Len(tx_log) + 1 /\ tx_log'[Len(tx_log')] = r
      BY <2>3 DEF IInv, ChainOK, ReceiptsOK
    <2> QED
      BY <2>1, <2>2, <2>3
  <1> QED
    BY <1>1, Invariance, PTL DEF Spec, AllOrNothing

\* A handle's plaintext never changes, and no handle disappears
\* (MockPrecompileState::mint_fhe under every way a call can end).
THEOREM Immutable == Spec => CiphertextsImmutable
  <1>1. IInv /\ [Next]_vars =>
          [\A h \in DOMAIN heap.fhe_handles :
             h \in DOMAIN heap'.fhe_handles /\ heap'.fhe_handles[h] = heap.fhe_handles[h]]_vars
    <2> SUFFICES ASSUME IInv, Next, NEW h \in DOMAIN heap.fhe_handles
                 PROVE  h \in DOMAIN heap'.fhe_handles
                        /\ heap'.fhe_handles[h] = heap.fhe_handles[h]
      OBVIOUS
    <2>1. CASE DeployEnd \/ CallEnd
      <3>1. heap' = precompiles /\ env # NoEnv /\ env.kind # "StaticCall"
        BY <2>1 DEF DeployEnd, CallEnd, Drop, Leave, KeepMints
      <3>2. HeapOK(heap) /\ HeapOK(precompiles) /\ Grown(heap, precompiles)
        BY <3>1 DEF IInv, ChainOK, CallOK
      <3> QED
        BY <3>1, <3>2, EvmAssumption DEF HeapOK, Grown, Word
    <2>2. CASE ~ (DeployEnd \/ CallEnd)
      <3>1. heap' = heap
        BY <2>2, SameEnv DEF Next, DeployStart, CallStart, CallNobody, StaticCallEnd,
                             advance_time, mine_block, chainVars
      <3> QED
        BY <3>1
    <2> QED
      BY <2>1, <2>2
  <1> QED
    BY <1>1, Invariance, PTL DEF Spec, CiphertextsImmutable
=============================================================================
