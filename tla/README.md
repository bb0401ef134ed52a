# Covenant: TLA+ models, model checks and proofs

This directory is the formal model of the Covenant language: the compiler, from
the text of a declaration to its optimized code and what the emitted bytecode
does; the contracts the compiler synthesizes; the code the EVM backend puts around
them; the interpreter and chain they run on; and the on-chain helper they call.
Paths below are relative to the repository root.

- [1. The system](#1-the-system)
- [2. The modules and how they correspond to the code](#2-the-modules)
- [3. What is checked](#3-what-is-checked)
- [4. Fairness and liveness](#4-fairness-and-liveness)
- [5. What is proved](#5-what-is-proved)
- [6. Where the code and its documents disagree](#6-disagreements)
- [7. What is not modelled](#7-not-modelled)
- [8. Plan](#8-plan)

## 1. The system

Covenant compiles a contract language with encrypted (FHE) values to EVM
bytecode. A source file goes through lexer, parser, resolver and type/privacy
checks (`crates/covenant-lexer .. covenant-types`), becomes a block-argument
SSA form (`covenant-ir`), to which templates add whole contracts
(`covenant-stdlib`: ERC-20, ERC-721, ERC-8227, ERC-8228, ERC-8231), is optimized
(`covenant-opt`) and lowered to bytecode (`covenant-evm-backend`). The
bytecode runs in an in-memory interpreter (`covenant-evm-runtime`) behind the
playground, the tests and the MCP server, or on a public chain, where opcodes
without a precompile are calls to helper contracts (`helpers/src`).

The system has two halves that are hard for different reasons. At run time there is
state, and steps of several actors in an order nobody chose. The compiler is one
thread and a function of its input, but a long one: each phase trusts what the one
before it established, the passes run over each other's output until nothing
changes, and the only thing that says what a declaration *means* is the code that
lowers it. The models treat it as a process with a program as its state, and check
at every step that the program still means the same.

### Components, their state, and what makes each correct

**CeremonyHelper** (`helpers/src/CeremonyHelper.sol`). State: a `Session`
(phase, threshold, shares, guardians, proof, owner) per id; a reverse index from
owner to ids; a nonce. Operations: `amnesiaSetup` (two overloads),
`amnesiaSubmitShare`, `amnesiaFinalize`, `amnesiaDestroy`. Callers: ceremony
contracts and anyone else, in any order. Hard: sessions of several owners
interleave; ids come from a hash with a collision guard; shares are hashed and
then wiped. Correct when phases only move Active, Finalized, Destroyed by the
owner's calls; the index names each session under its one owner; shares live
exactly until destruction and the proof commits to them; the events alone tell
an indexer the phase.

**Synthesized ceremony, ERC-8228** (`covenant-stdlib/src/amnesia_ceremony.rs`).
State: deployer, phase, session id, map of submitters and a counter beside it.
Operations: constructor, `setup`, `submit_share`, `finalize`, `destroy`, each with
one backend opcode, on the mock precompiles or on the helper. Hard: two state
machines, the contract's and the session's, are updated in one transaction, and
either half may fail; `finalize` trusts the counter, not the map; all contracts of a
chain share one session counter. Correct when the two machines move in step, a
closed ceremony had its threshold of distinct submitters, and sessions are never
shared.

**Synthesized tokens** (`erc8227.rs`, `erc20.rs`, `erc721.rs`). State: balances and
allowances, as ciphertext handles or as amounts; owners, approvals and operators
of tokens. Hard: aliasing (`from = to`), the order of
reads and writes, wrapping encrypted arithmetic against checked plain
arithmetic, handles minted by transactions that revert. Correct when the supply is
conserved and nobody's balance falls without authority; for ERC-721, when a balance
counts the tokens held, tokens move by their holder or somebody the holder named,
and approvals end with the holding.

**Entry and exit guards** (`covenant-evm-backend/src/codegen.rs`, 652-759, and
the external-call lowering). State: one lock slot and one initializer flag per
contract. Hard: re-entry through foreign code, reverts in the middle. Correct
when the lock is held exactly while a locked function runs and an initializer
takes effect at most once.

**Interpreter and chain** (`covenant-evm-runtime/src/{evm,precompiles,chain,clock}.rs`).
State: per-contract storage, deploy nonces, clock, block number, receipts, one heap
of ciphertexts. Operations: `deploy`, `call`, `static_call`, `advance_time`,
`mine_blocks`, `reset`, serialization. Hard: storage is committed on success only,
while the heap is lent mutably; a static call runs on a clone. Correct when a
transaction is all or nothing, handles in storage resolve and ciphertexts do not
change.

**Lexer, parser, formatter** (`covenant-lexer`, `covenant-parser`,
`covenant-cli/src/commands/fmt.rs`). State: the tokens not read yet, nesting
depths, the diagnostics, the tree built so far. Operations: cut the text into
tokens; parse declaration after declaration, going on after an error; print the
tree; `fmt` writes what it printed over the source, whatever was reported. Hard:
binding powers, limits on depth and length that must be given back on every way
out, separators that are optional in some places, recovery. Correct when a text
is read as written, and a formatted file that still parses says what it said.

**Resolver, type checker, privacy analysis** (`covenant-resolver`,
`covenant-types`, `covenant-privacy`). State: scopes, the types of names and
expressions. Hard: they are the only thing that keeps lowering from reading a value
nobody computed, or from mixing a ciphertext's handle with a plain word. Correct
when a program they accept never gets stuck, and what is encrypted stays so.

**Storage layout** (`covenant-evm-backend/src/storage.rs`). Fields with and without
`@slot` share one space with the deployer's and the lock's slot.

**IR builder, optimizer, code generation** (`covenant-ir`, `covenant-opt`,
`covenant-evm-backend`). State: the function being built (blocks, current block,
next value); the code, the pass and the round. Hard: evaluation on one way only,
blocks renumbered under the jumps that name them, values merged or removed although
they trap or depend on state, block arguments copied one by one. Correct when
the code does in every transaction what the source means, before and after every
pass; every use is dominated by its definition; and the rounds end.

**Front ends** (CLI but for `fmt`, LSP, MCP server, wasm, lint) are I/O around
these. `PROJECT.json` lists every component with its status and the reason.

### Interactions

```
 client -> chain.call -> execute -> synthesized body -> opcode -> mock precompiles (heap, session counter)
 signer -> ceremony contract --CALL--> CeremonyHelper        (helper target)
 any account -----------------------> CeremonyHelper
 transaction -> guarded function -> foreign code -> guarded function ...

 text -> tokens -> file -> declarations -> resolve -> typecheck -> privacy -> build IR
           ^         |                                                            |
           +-- fmt --+                      rounds of six passes <----------------+
                                                    |
                                                    v
                                  code generation -> deploy -> call ...
```

At run time everything is synchronous: a transaction runs to its end before the next. The
nondeterminism is which transaction comes next, from whom, how a call
ends, what foreign code does, and what a hash returns.

<a name="2-the-modules"></a>
## 2. The modules and how they correspond to the code

| Module | Models | Kind |
|---|---|---|
| `CeremonyLifecycle` | what a ceremony promises its participants | abstract specification |
| `AmnesiaCeremony` | the synthesized contract, `amnesia_ceremony.rs` | bodies of its actions, used by the two compositions |
| `CeremonyHelper` | `CeremonyHelper.sol` | component |
| `CeremonyOnHelper` | ceremonies with the helper behind their opcodes | composition, implements `CeremonyLifecycle` |
| `CeremonyOnMockChain` | ceremonies with the mock precompiles behind them | composition, implements `CeremonyLifecycle` |
| `FhePrecompiles` | the ciphertext heap of `precompiles.rs` | operators on a heap |
| `SecretToken` | `erc8227.rs` on that heap | component |
| `ERC20Token` | `erc20.rs` | component |
| `EvmExecute` | what of `evm.rs` outlives a call | interpreter steps, used by `MockChain` |
| `MockChain` | `chain.rs`, `clock.rs` over the interpreter and the heap | component and composition |
| `GuardedCalls` | guards and lock of `codegen.rs` on a call stack | component |
| `NFTCustody` | what a non-fungible token promises its holders | abstract specification |
| `ERC721Token` | `erc721.rs` | component, implements `NFTCustody` |
| `Lexer` | `covenant-lexer`, on lexemes | tokens of a text |
| `Grammar` | `parser.rs`: the parser's state, tokens, separators, limits | combinators for the next module |
| `Parser` | `parse_{file,decl,ty,stmt,expr}.rs`, one operator per function | the grammar |
| `Printer` | `printer.rs` | the text of a tree |
| `Words` | what an operator makes of two words, or that it reverts; for the reference semantics, the machine and folding | functions of words |
| `CovenantSource` | types, values, and what a declaration means when run | reference semantics |
| `Declarations` | first passes of resolver and checker over a file, annotations | functions of a file |
| `StorageLayout` | `storage.rs`: the slots of a contract's fields | functions of a list of fields |
| `Syntax` | `ast.rs`: a parsed declaration as the later phases see it | conversion |
| `FrontEnd` | the driver up to the parsed file, and `fmt` | actions on the text |
| `Resolver`, `TypeChecker`, `PrivacyAnalyzer` | the crates of these names | functions of a declaration |
| `CovenantIR` | blocks, instructions, terminators, `validate.rs` | code and its well-formedness |
| `IrBuilder` | `builder.rs` | from a declaration to code |
| `OptPasses` | the six passes of `covenant-opt` | functions of code |
| `Optimizer` | `manager.rs`: the rounds of the passes | component |
| `EvmMachine` | what the bytecode `codegen.rs` emits for code does | machine |
| `Compiler` | the driver over all of these | composition |
| `CeremonyHelperProofs`, `CeremonyProofs`, `MockChainProofs`, `GuardedCallsProofs`, `ERC20TokenProofs`, `SecretTokenProofs`, `ERC721TokenProofs`, `CompilerProofs` | the proofs of section 5 | proofs |
| `MC*` | instances for TLC (`MockChain`, `ERC20Token`, `SecretToken` and `GuardedCalls` need none: their cfgs run them directly) | model checking |

`PROJECT.json`, `map`, gives for every definition the lines it stands for. Next to
some definitions there is a *mutant* of it: what a plausible bug would make of
that code (a dropped guard, a swapped order). It is used by no specification;
putting it in the place of the original must break the property that
`PROJECT.json`, `mutants`, pairs it with.

**Grain.** An action is one transaction (tokens, ceremonies, helper), one opcode
(`EvmExecute`), one entry or exit of a frame (`GuardedCalls`), or one phase, parsed
declaration or pass (`Compiler`). Where an action
is a whole transaction that is the code's own atomicity: the EVM serializes
transactions and undoes one that reverts, so a transaction that reverts is a
stuttering step. The one place where a revert leaves something behind, the
ciphertext heap of the mock chain, has explicit steps for it (`Reverted` in
`SecretToken`, `KeepMints` in `MockChain`).

**Data.**
- Hashes. A handle `keccak256("covenant-fhe" || nonce)` is the nonce and a contract address
  `keccak256(deployer || nonce)` is the pair: taken as injective. A session id of the
  helper is *any* member of `SessionId`: its code has a collision guard, so
  collisions are modelled. The destruction proof is the sequence it commits to.
- Widths. Amounts and plaintexts are below `Width` (2^256 in the code), thresholds of
  the helper below its own `Width` (2^128); wrapping, truncation, saturation and
  checked overflow are kept.
- Programs. In `MockChain` a contract is "any opcode next". The stack is its top word;
  memory and jumps only move words about, and what calldata, `PUSH` and arithmetic yield is
  any member of `Given` (`OP_CALLDATALOAD`): a handle, minted or not, or one a static call
  returned from its scratch heap. So every property holds whatever the bytecode is, and
  `HandlesResolve` can only speak of the words that did not come in that way: nothing in the code
  keeps a program from storing a word it was handed.
- Texts. A text is a sequence of lexemes (`<<"while">>`, `<<"int", 3>>`,
  `<<"newline">>`): everything the lexer decides about them is kept, the characters
  inside one are not.
- Trees. A node is a record whose field `k` names its kind. The printer's two-space
  indentation does not exist; its line ends do, since they separate declarations.
- Code. A value is its number; a block its parameters, instructions and terminator.
- Wording. Events carry the fields a property reads. Which custom error a revert
  carries is left out.

**`CeremonyHelper`.** `Permitted` is the pair of checks every operation starts with
and the phase it requires. `uint128` is the cast in `_amnesiaSetup`; the event is
emitted with the value before the cast, as in the code. `Msg` says what
`msg.sender` and `tx.origin` can be together. The zero-initialised mapping is
`EmptySession`.

**`AmnesiaCeremony`.** Each body has the asserts of the code as guards in their
order; the result of its opcode is a parameter that the compositions supply.
`CeremonyOnHelper` conjoins a body with the helper's action on the same session, sent by
the contract and signed by the caller; destroy has no step there, because
`amnesiaDestroy` returns dynamic bytes, which the backend refuses to compile
(`codegen.rs:2282`) and the strict return-size check would revert.
`CeremonyOnMockChain` takes ids from the one counter of `precompiles.rs:281`; its
finalize and destroy always answer true there.

**`SecretToken`.** Each transaction lists its precompile calls in order and
threads the heap through them. An amount is any of `Words`, minted or not, as `encryptedAmount`
is any `bytes32` (`erc8227.rs:374`, `485`, `586`); each operation resolves it in the heap it finds, where a word
that is no handle yet reads 0 (`precompiles.rs:68`). A transaction can itself mint the handle it
was given, and then its operations do not agree on the amount. `AmountSettled` says that it did not; section 6
says what happens otherwise.

**`MockChain`.** `DeployStart`, `CallStart` lend a host state and the heap (or its
clone) to the interpreter; `DeployEnd`, `CallEnd`, `StaticCallEnd` are the three
match arms that keep or drop what it wrote.

**`GuardedCalls`.** Frames carry the state to restore, which is the EVM's part.
`failed` stands for the `ISZERO; PUSH __revert__; JUMPI` after an external call: a
compiled caller can only revert, a foreign one may ignore it.

**`ERC721Token`.** `MoveOne` and `ClearApproval` are the bodies the synthesizer
emits, read and written in its order; `emit_is_authorized` is its disjunction of
holder, approved account and operator, on maps that read zero where nothing was
written. The zero address takes part like any other account where the code lets it.

**`Compiler`.** `Read`, `ParseDecl`, `EndFile` and `Format` (in `FrontEnd`) work on a
text; a declaration given as syntax starts at `Resolve`. Each phase stops the
compilation if it reports an error, as the driver does. `BuildIr` hands the code to the
manager (`Start`, in `Optimizer`), whose variables are the code and where it is:
`BeginRound`, the six passes in the manager's order and `EndRound` repeat until a round changes
nothing or the rounds are used up. `OptimizerSpec` is the manager on its own, handed any
well-formed code, which is what section 5 proves things about. A parser function that may fail returns the parser with `ok`
false, having consumed what it consumed; `parse_decl` then recovers. A builder
function takes the function built so far and returns it with its result in `v`.
An external call may answer anything and, before it does, call back and write the caller's storage: the transaction
says what it leaves (`writes`, applied by `Reentered` in source and machine alike).
`EvmMachine` runs code the way the bytecode emitted for it runs: one memory word per
value, block arguments copied in order, those of the *then* target before the
conditional jump, whichever way it goes.

`CovenantSource` is the one module that translates no single function: it states
what a declaration means, statement by statement, from what the emitted code
guarantees (checked arithmetic, bounds checks, left-to-right and short-circuit
evaluation, all or nothing), and says `stuck` where a program reads a value
nobody computed or treats a ciphertext as a word. It is what the compiler is
checked against, and `map` names the code only for its data.

<a name="3-what-is-checked"></a>
## 3. What is checked

| Run | Instance | Shows |
|---|---|---|
| `ceremony_helper` | 1 contract and 2 signers, 2 ids, thresholds 2 and, on request, 1 and `Width` (truncated to 0), 2 shares per session | the helper on its own, every caller and order |
| `ceremony_on_helper` | 2 ceremonies with thresholds 1 and 2, a relay, 1 signer, 3 ids, 2 shares | contract and session in step; implements the lifecycle |
| `ceremony_on_mock_chain` | 2 ceremonies, 3 accounts, 2 ids | the same on the mock chain, destroy included |
| `secret_token` | 2 accounts, supply 2, amounts {1}, `Width` 4, 7 handles, of which clients name 1, 2, 3 and 5 at any time, and zero | confidential token |
| `secret_token_supply` | as above, but clients name only zero and the genesis handle | a transfer to oneself creates tokens (section 6) |
| `erc20_token` | 3 accounts, supply 2 = `Width` - 1 | plain token |
| `mock_chain` | 1 account, 1 slot, 3 logged transactions and any number of static calls, of up to 3 opcodes each, 3 handles, of which 2 can also come from calldata | chain, interpreter and heap |
| `mock_chain_reveal` | as above | a static call overwrites handles in its clone (section 6) |
| `erc721_token` | 3 accounts and the zero address, 2 ids, 2 of the addresses can be operators | non-fungible token; implements the custody |
| `compiler` | 2212 declarations given as syntax and 188 files (18 written by hand, 170 spelled from declarations with as few parentheses as possible), each run in 7 transactions | the compiler, from text to optimized code |
| `compiler_repeated_call` | one declaration with two equal external calls | calls are merged (section 6) |
| `guarded_calls` | 2 contracts, foreign code, 3 kinds of function, stack of 4 | guards and locks |

### The properties

*Helper.* `IndexMatchesSessions`: the reverse index lists each opened session once,
under its owner, whatever ids collide. `SharesLiveUntilDestroyed`: every share
and guardian an event announced is held until the session is destroyed; then both
lists are gone and the proof commits to as many shares as were announced.
`LogReplaysPhase`: a session's last event gives its phase, its first the owner.
`PhasesOnlyAdvance`: phases move one step forward at a time, the owner never changes,
a destroyed session is final.

*Ceremony.* `HelperInStep`: each ceremony's phase and counter match the session it
opened on the helper, even while outsiders, and other ceremonies, call the
helper. `FinalizedMeetsBothThresholds`: a finalized ceremony met the threshold it declares and
the one the helper was set up with, and the helper logged `thresholdMet = true`: a
verdict of false reverts the helper's own move to Finalized too.
`SessionsNeverShared`: ids are not shared.
`ImplementsLifecycle`: both compositions implement `CeremonyLifecycle` (owner fixed
at deployment; participants only grow and only while collecting; closed only by the
owner with the threshold met; destroyed only after closed).

*Tokens.* `SupplyIsSumOfBalances`: conservation. `SupplyAccounted` says it of each transaction of the
confidential token, modulo the word: the sum changes only by what a transfer to oneself adds, which
section 6 shows to be a defect. `OnlyAuthorizedDebits`: a balance falls only by its
holder's transaction, or a spender's whose allowance fell by as much. For the confidential token both
are about transactions that do not mint the handle they were given as amount; that a balance
never dangles (`TokenTypeOK`) is about all of them.
`BalancesCountTokens`: an ERC-721 balance is the number of tokens held, also after a
transfer to oneself. `NobodyIsAuthorizedForNothing`: no account is ever authorized for
an id nobody holds, which would let it create a token by moving it from the zero
address. `ImplementsCustody`: the token implements `NFTCustody`, in which a token
moves only by its holder or by somebody the holder named since it came to hold it.

*Chain.* `AllOrNothing`: storage changes only together with a success receipt, at
the address that receipt names, and failed transactions carry no events.
`HandlesResolve`: every word in storage or an event is zero, a handle in the heap, or one that programs were handed.
`ReceiptsExplainContracts`: the contracts are exactly those of the successful
deploy receipts, and no address is given twice, failed deploys included.
`CiphertextsImmutable`: a handle's plaintext is fixed when it is minted.

*Guards.* `NoGuardedReentry`, `LockHeldIffRunning`, `InitializedAtMostOnce`.

*Text.* `ParsesAsWritten`: a text is read as the declaration it was written for, and its
fields and events get the types they were written with; after formatting too, unless the
file is refused. `FormattingIsHonest`: a formatted file that parses says what the file
said. Its two exceptions are defects of the printer (section 6). `FieldsKeepApart`: the
slots of an accepted file's fields are distinct and not reserved; the property computes them with
`slot_for_global`, which code generation uses, the check with `detect_slot_collisions`.

*Front end.* `AcceptedRunsAreDefined`: a declaration the resolver, the type checker and
the privacy rules accept never gets stuck, in any transaction. `EncryptedStaysHidden`
is noninterference of the finished code: two transactions that differ only in plaintexts
behind ciphertexts answer, store, log and fail alike, except for what a reveal opens
to its target and what an encrypted `when` lets everybody see.

*Back end.* `LoweringKeepsMeaning`: what the builder makes of a declaration does in every
transaction what `CovenantSource` says. `PassesKeepBehaviour`: no pass changes what any
transaction observes. `DominanceHolds`, `ValidatorAccepts`: after lowering and
after *every* pass. `ReachesFixpoint`: section 4.

### Why these bounds are enough

- *Two of everything that interferes.* Two ceremonies are enough for one to meddle with
  another's session, two ids for a collision (the second opening may draw the first's
  id), two submitters for a threshold above one. A third id lets both
  ceremonies and an outsider hold one at once. Two token accounts give transfers to another,
  to oneself, and a spender who is, or is not, the recipient; ERC-20 has a third so that
  holder, spender and recipient are all different.
- *Widths at the edge.* The ERC-20 supply is `Width - 1`, the largest there is, so the
  overflow check is always near; `Requested` holds a threshold that truncates; the
  confidential token wraps at 4 with supply 2.
- *7 handles* is genesis, a client's amount, and one `transferFrom` (five mints), or
  transfers and failures in any mix. The *words* clients name are zero, genesis, and a client's amount or the first, second or
  fourth mint of a transaction, each also before it is minted: as allowance, as amount of a transaction that mints
  it later, or that mints it itself. The heap's growth keeps most of them from lining up with more than one transaction;
  the theorems have no such bound. As nothing reads receipt and history, `VIEW` leaves them out;
  the step properties read both of the step. *3 transactions of 3 opcodes* are a deploy that mints, stores and returns, a call that mints and reverts,
  and a call that meets what it left.
- *Depth 4* is a guarded function, foreign code, another contract, and the first contract again.
- *ERC-721*: a deployer who also holds, a second holder and a third party who can be approved or operator; two ids
  let one be approved, burnt and minted again while the other stays. The theorems cover
  all numbers of both.
- *The compiler's declarations* are generated (`MCCompiler`): every pair of statements from a
  list that reads and writes the same fields in different ways; every operator on every
  pair of operand kinds, well typed or not, plain and encrypted; branches, matches, loops and
  short circuits around them; guards, principals, views and reveals. Words are 16
  values wide, so that addition, subtraction and multiplication overflow within two
  steps, and the lists are up to 3 long. The 7 transactions differ in caller, argument, storage,
  what an external contract answers and what it leaves in every kind of field when it calls back (more, less, nothing),
  and, in pairs, in plaintexts only. Some declarations write fields before a call and use
  them after it.
- `BlockLimit` 40 bounds the blocks a run of the code may go through, which no
  declaration of the family needs. `max_iterations` is the manager's own 10 and never reached.
- *The limits of the parser* are smaller than the code's: `MAX_PARSE_DEPTH` 16 (96), `MAX_BODY_STMTS`
  16 (4096), `MaxSlot` 63 (2^32 - 1), `MaxSeconds` 2000000 (2^64 - 1). The hand-written files go up to
  each and past it: one nests expressions, types and blocks beyond the limit and then declares
  something innocent, which must still parse.
- `MaxShares`, `MaxHandles`, `MaxSteps`, `MaxTx` and `MaxDepth` cap counters; only
  `MaxSteps` (the interpreter's `STEP_LIMIT`) exists in the code. They are guards of the
  actions that count, so a run with `CHECK_DEADLOCK FALSE` may stop at a bound; ceremonies also stop
  where the code does, when everything is destroyed. `erc20_token`, `erc721_token`, `mock_chain`,
  `guarded_calls` and `compiler` are checked for deadlock.

<a name="4-fairness-and-liveness"></a>
## 4. Fairness and liveness

`Compiler` assumes `WF_vars(Next)`: while some step is possible, one is taken. The compiler is one
thread: `covenant_driver::compile` is a sequence of calls, and while it has not
returned it is in one of them; nothing else runs that could keep it from going on. That it gets anywhere
is not assumed: a parser step that consumes nothing, two stages that alternate, or
an unfinished compilation without a next step would violate `ReachesFixpoint`. (Deciding whether `Next` can
change anything would run the compiler once more in every state, so run `compiler` says the same in another form, `MCSpec`: a clock ticks
with every step, and goes on ticking until the compilation is finished. A step that changes nothing but the clock is then a cycle, and a violation; a
state that is not finished and has no successor is a deadlock, and the run looks for those.) Under it,
`ReachesFixpoint` says that every compilation ends, and not by giving up but on code on which no pass
would report another change (`StopsAtFixpoint`): the manager repeats
its rounds while any pass reports a change, up to 10 times, and a program on which two passes undo each
other's work, or on which one reports a change it did not make, could never be compiled
(E401). A pass that replaces values needs the round after it to find nothing
left; that each pass shrinks or keeps the code is nowhere in the code, so it is checked.

The other specifications assume no fairness and state no liveness. That is the code's own
situation: every step is a transaction somebody sends, there is
no scheduler, retry or timeout in the components modelled, and nothing obliges an
account to send one. "A ceremony that was set up is eventually destroyed" is not
promised. What would make progress *impossible* is listed among the hazards instead: a ceremony on
the helper target cannot be destroyed, and one that declares threshold 1 still needs
a second share on that target before the helper's fixed threshold of 2 lets it finalize.
`LockHeldIffRunning` is the safety form of "no contract locks itself out".

<a name="5-what-is-proved"></a>
## 5. What is proved

Eight modules hold the proofs. Each theorem is about a specification of section 2, or for the storage layout about its functions, for *every* value of the
constants that the assumptions allow, where the runs take one small instance; every safety invariant and action
property of a run that is not the compiler's is proved, and so is every refinement; of the compiler, what its passes do to the form of the code.

### The ceremony

`CeremonyProofs`, first half, is about ceremonies on the mock chain, for every set of contracts,
accounts and session ids and every assignment of thresholds:

- `MockTypeCorrect`: `MockSpec => []CeremonyTypeOK`;
- `MockSafety`: a closed ceremony had its threshold of *distinct* submitters, its fields
  agree, and no two ceremonies share a session;
- `MockFrozen`: phases never go back or skip, and submitters and session never change
  once the ceremony is closed;
- `MockRefinement`: the compiled ceremonies implement `CeremonyLifecycle`.

Assumptions: `CeremonyAssumption` (thresholds are at least 1, which the compiler's E611
enforces; contracts are not the accounts that call them; `NoSession` is no session id).

*The argument.* None of these is inductive alone. "Closed implies threshold met" needs
that the counter `finalize` compares is the number of distinct submitters
(`CountIsDistinctSubmitters`), which in turn needs that `submit_share` adds to set and counter
together and only a new account. `SessionsNeverShared` needs that the ids in use are exactly those
the chain's counter gave out. So the invariant is in two layers:
`ContractInv` (types, count, threshold, fields), with one lemma
per body of the contract showing that it is preserved *whatever the backend answers*;
and `MockIInv`, which adds the relation between ids and the counter.
There is one refinement lemma per body (`setup` is `Open`, ...), again for any backend, so
the second half, on the helper target, uses the same ones. The temporal theorems combine
the step lemmas by PTL.

`CeremonyHelperProofs` proves everything the helper's run checks, for any callers, signers,
ids and thresholds: `HelperTypeOK` (`TypeCorrect`), `IndexMatchesSessions` (`Indexed`), `LogReplaysPhase` (`LogSuffices`),
`SharesLiveUntilDestroyed` and `PhasesOnlyAdvance`. Assumption: `HelperAssumption` (2 fits a
`uint128`; the zero address calls nobody). Nothing is assumed of the session hash. *The
argument.* Every operation touches one session and appends one event to its log (`Touches`).
That a new session starts empty is not in the code, which writes three fields of it only:
it follows from the log. A session without owner has an empty log, because
the first event names an account and the log gives the owner, and an empty log goes with a session of
zeros. The index needs the same guard: an id without owner is in no list, so the id appended is new.

`CeremonyProofs`, second half, instantiates that module and reuses its invariant: each step of the
composition is a helper call or leaves the helper alone (`HelperKeeps`), so the helper's theorems carry over
(`HelperUnaffected`). On top of it, `HelperInStep`, `FinalizedMeetsBothThresholds`
and the refinement of `CeremonyLifecycle`. Assumption: `OnHelperAssumption`, which adds that ceremonies
sign no transactions. *The argument.* Everything else anyone does misses a ceremony's session,
because the helper asks for the owner or for no owner (`OwnedSessions`), so in each step only the
ceremony that acts is to be shown in step.

### The chain and the guards

`MockChainProofs` proves the chain's three invariants, `AllOrNothing` and
`CiphertextsImmutable`, for any accounts, programs and bounds. Assumptions: `EvmAssumption`,
`MockChainAssumption`. *The argument.* `HandlesResolve` is a claim about storage and receipts, but
the step that could break it is the end of a call; so the invariant says of a running call
that the heap it was lent still holds all the chain's handles (`Grown`) and that every word it has
(top of stack, its storage, its events) is zero, a handle of that heap or one it was handed. Since the chain takes that heap
back however the call ends, but the words only when it succeeds, both stay consistent. Of a static call nothing is
claimed: its clone starts over at nonce 0 and overwrites handles (section 6), which is harmless because it writes no word.
What programs can be handed (`Given`) is excused throughout, for any such set: the empty one too, for which the theorem is about all words.
`ReceiptsExplainContracts` needs a second layer (`AddressesFresh`): a constructor under way runs at the last nonce its
account was given, and no receipt names an address whose nonce was not given yet.

`GuardedCallsProofs` proves `GuardTypeOK`, `NoGuardedReentry`, `LockHeldIffRunning` and
`InitializedAtMostOnce` for any contracts, functions and depth of calls. Assumption:
`GuardAssumption` (which functions are annotated; foreign code is not a compiled
contract). *The argument.* A revert puts back what its frame saved, so a claim about the
present lock alone is not inductive. `IInv` says it of every saved state too: the lock a
frame saved is held exactly if a locked function runs among the frames *below* it
(`LocksMatch`), and its saved run count equals its saved flag (`RunsMatch`). Returning
clears the lock, which is right only because no second locked frame of that
contract is below: `NoGuardedReentry` is part of the invariant.

### The tokens

`ERC20TokenProofs` proves `ERC20TypeOK`, `OnlyAuthorizedDebits` and `SupplyIsSumOfBalances` for any finite set
of accounts, any supply and width (`ERC20Assumption`). The types are inductive, because the checked operations are guards;
the debit property holds of every step from a well-typed state, by one lemma
about `Move` (only `from` loses, and exactly `value`, whether or not it is also the
recipient) and one about `Spend`. *The argument for the supply.* The sum is a fold over the accounts, and the
fold is a recursion over sets. Four lemmas say what it is: the recursion has a solution (`SumExists`,
built set by set), a set's sum is an element's value plus the rest's (`SumEquation`), it is a number, and
changing the function at one account changes it by the difference (`SumChanged`). Each is an induction over the
subsets of a finite set; the library's induction theorems take the predicate as an operator, so `SubsetInduction`
states it about the *set* of subsets with the property instead, from the well-foundedness of strict inclusion.
`Move` is then two changes at one account, one after the other, and the second reads what the first left,
which is why a transfer to oneself conserves here.

`SecretTokenProofs` proves everything the confidential token's run checks, for any finite set of accounts, supply,
amounts, width and bound of the heap (`TokenAssumption`, `FheAssumption`):

- `TypeCorrect`: `Spec => []TokenTypeOK`, no balance dangles, whatever words clients name;
- `SupplyKept`: `Spec => SupplyAccounted`;
- `Authority`: `Spec => OnlyAuthorizedDebits`;
- `PlainWhileSettled`: read through its handles, the token starts as `ERC20Token` does, and each of its steps is one of that
  token or changes no plaintext, but for three kinds: one that mints a word it was given or the token has stored as allowance, a transfer from an account to
  itself, and one from a state in which the balances together exceed a word.

*The argument.* A transaction threads the heap through up to seven precompile calls. The heap only grows
(`Grown`: more handles, none with another plaintext), so one lemma per precompile says what it mints and that what was
known still resolves, and one lemma per transaction (`TransferEffect`, ...) says what becomes of the *plaintexts*
(`Effect`): nothing, though the heap grew; or `value` moved from one account to another; or an allowance set. All that follows
is about plaintexts. A word that is no handle reads 0 in every heap in which it is not minted, so a word that is *settled* (not among
the handles the step mints) reads the same from the first operation to the last; that is all `Effect` asks of the amount, and for an allowance nobody
writes it is what keeps its meaning (`AllowancesKept`). Balances need no such hypothesis, and this is what `TypeCorrect` is for: a stored balance
was minted by the token itself, so it is in the heap already. `SupplyKept` is then about one step: a debit never wraps, the comparison before it sees to that; a credit may, once (`Wraps`), which
the sum modulo the width does not show; and a transfer to oneself writes the credit over the debit, which is what `selfAdded` records
(`MovedSum`). `Authority` and `PlainWhileSettled` need that no credit wraps, because one that does lowers a balance; none
does while the balances fit a word together (`NoWrap`), which is their second hypothesis. The plain token's transaction includes the checked
addition, again by `NoWrap`. Of transfers to oneself and words not settled nothing is claimed, and section 6 says why.

`ERC721TokenProofs` proves, for any accounts and tokens, `ERC721TypeOK` and that no balance
overflows, `BalancesCountTokens`, `NobodyIsAuthorizedForNothing`, and `Refinement`: the token
implements `NFTCustody`. Assumptions: ids are finitely many and fewer than the word's values, and nobody signs for the zero address. *The argument.* The balance property
speaks of a cardinality, so each body gets a lemma about the sets of tokens held: a
transfer removes one id from the sender's set and adds it to the recipient's, also when both are the same
account, which is where reading the recipient's balance after the sender's was written matters. Because
a balance is a cardinality it is bounded by the number of ids, so the checked additions
never refuse. "Nobody is authorized for an id without holder" needs that such an id
has no approval (burning clears it) *and* that the zero address has appointed no
operator, which holds since it never sends a transaction. With both, every transfer is by the
holder, its approved account or its operator, so every step maps to one of the custody or to a stutter.

### The storage layout

`CompilerProofs`, first part, proves `LayoutSound`: if `detect_slot_collisions` finds nothing in a list of fields, then
`slot_for_global` gives no two of them the same slot and none the deployer's or the lock's (`KeptApart`, which `FieldsKeepApart`
says of the files of run `compiler`), for lists of any length with any fields pinned anywhere. Assumptions: `SlotAssumption`;
the fields passed the check of their annotations (`slots_valid`); and there are not more of them than slots below the reserved ones.
The last is needed: a field that is *not* pinned is never compared with the reserved slots, so with 2^32 - 1 of
them one would get the deployer's. *The argument.* These are two loops in two functions that must keep the same cursor. Both are folds, so what
a fold over a list is comes first, by the same set induction as above (`FoldExists`, `CursorSteps`, `LayoutSteps`); then by induction over
the prefixes the cursors agree (`SameCursor`), and the layout built so far holds exactly the slots of
the fields seen, its cursor has not passed their number, and while no two met they are all different (`Seen`, `SeenStep`).

### The optimizer

`CompilerProofs`, second part, is about `OptimizerSpec`: the pass manager handed *any* code, of any number of blocks,
instructions and values, that is in SSA form and that the validator accepts (`InSSA`, `Valid`), for any limit of rounds.
Of what it is handed nothing else is assumed, and that lowering produces such code is what `DominanceHolds` and `ValidatorAccepts` of run `compiler`
say of the states between lowering and the first pass.

- `ManagerIsTyped`: the passes run in order, and at most `max_iterations` rounds are completed;
- `PassesKeepCodeSound`: after every pass, a value is computed in one place, an instruction without a result has an effect, and the validator accepts;
- `ValidatorAlwaysAccepts`: `OptimizerSpec => []ValidatorAccepts`, which `lib.rs:20` promises of the passes;
- `OnlyFheFoldBreaksDominance`: `OptimizerSpec => [][DominanceSurvives]_manager`. What `lib.rs:16` promises holds of every
  pass but `fhe_fold`: from code in which every use is dominated by what it uses it makes such code;
- `DominanceIsKept`: `AlongPathsSpec => []DominanceHolds`, for code handed over with its encryptions along paths;
- `DoneIsAFixpoint`: `OptimizerSpec => []StopsAtFixpoint`.

Assumptions: `RoundsAreBounded`, `FoldingFits` (constants are folded below 2^128, which fits a word). Two things asked of the code handed over are more than the compiler checks, and each is
one of its weak spots:

- `EncryptedAlongPaths`, in `AlongPathsSpec` only: of two encryptions in different blocks the first block is on every way to the second. `fhe_fold` merges
  encryptions of one constant wherever they are (`fhe_fold.rs:13`), so without it the promise is broken: a constant encrypted in both branches of an `if`
  is a counterexample (section 6). The condition does not mention constants, since folding can make two of them equal that were not, and it is asked of the code
  handed over and nowhere else: that every pass leaves code that satisfies it is part of the proof (`ShapeKeepsPaths`, `DceKeepsPaths`).
- `ReachableFirst`, part of `Valid`: the blocks that can be reached are numbered before those that cannot. The validator looks a target up by its
  *position* in the list (`validate.rs:133`), while a jump names a block by its id; `dce` removes blocks and renumbers nothing, so a gap among the ids that are left
  makes the validator look at another block or past the end (section 6).

*The argument.* (1) `reachable_blocks` works in rounds; by induction over them the result is the least set that holds the entry and is closed under the jumps (`ReachedIsRound`, `RoundsDefined`),
and that is the only thing used of it: "d is on every way to b" is "b is not reached around d". (2) Dominance is taken apart into single uses:
a value is *available* at a position if it comes in with the block, is computed above in the block, or is computed in or comes in with a block on every way there.
(3) Four passes only rewrite operands. The code they leave has the same shape (the same jumps, results and effects), so single assignment and
what the validator looks at carry over at once (`ShapeKeeps`, `ShapeValid`), and dominance needs only that each value gives way to one that is available
wherever it was (`RenamingKeepsDominance`). For the merging passes that is the result of an earlier place with the same key: in the same block for `cse` and
`sload_coalesce`, on every way there for `fhe_fold` if encryptions are along paths; a folded result gives way to a fresh constant, which is available
everywhere. (4) `dce` first drops blocks, then instructions. Dropping blocks that cannot be reached changes no way from the entry (`PrunedIs`).
Dropping instructions moves the others up: the kept ones keep their order by rank, and what a kept instruction or a
terminator reads is kept with it, because the live set is closed under operands (`LiveClosed`, `ReadIsKept`). (5) For the fixpoint, a pass that
reports no change must leave what the earlier ones saw. A merge without a report and `dce` without a report leave the very code they were given; `constant_fold` does not:
it adds a constant for every result it folds, also for results nobody reads, in every round, and reports only replaced operands. So the invariant (`Settling`) says of each pass that ran in a
round without a report that it would report nothing *now*, and `QuietFolding` shows that the added constants make nothing
foldable that was not. The two theorems about dominance and `DoneIsAFixpoint` need `PassesKeepCodeSound`.

### Only model-checked

- `AcceptedRunsAreDefined`, `LoweringKeepsMeaning`, `PassesKeepBehaviour`, `EncryptedStaysHidden`,
  `ParsesAsWritten` and `FormattingIsHonest`: front end, builder, reference semantics and machine are recursive over trees and over code, in modules that declare
  `RECURSIVE` operators, for which the prover has no SMT backend, and the claims themselves are inductions over programs. That lowering hands over code in SSA form (the first
  step of `DominanceHolds` and `ValidatorAccepts`) is one of these. `FieldsKeepApart` is a property of such
  a module too; its core is `LayoutSound`.
- `ReachesFixpoint`: liveness under fairness is beyond the prover, and it is not true of all code: a chain of constants
  longer than the rounds gives up (section 6). That the manager, where it does stop of itself, stops at a fixpoint is proved.

<a name="6-disagreements"></a>
## 6. Where the code and its documents disagree

Three are demonstrated by runs and listed under `findings`:

- **Transfer to oneself creates tokens** (`secret_token_supply`).
  `synth_transfer_encrypted` (`erc8227.rs:404`) reads both balances before it writes
  either and writes the recipient last. With `from = to` the balance becomes
  `balance + amount`. `conform.rs:122` and `diag.rs:151` hold a token with
  `totalSupply() != sum(balances)` to be broken. The ERC-20 template writes the sender before it
  reads the recipient, and conserves.
- **A static call does not always reveal the real value** (`mock_chain_reveal`).
  `static_call` (`chain.rs:611`) clones the precompiles; `Clone` starts from `default()`, so
  `fhe_nonce` restarts at 0 and the first ciphertexts the call mints take, and
  overwrite in the clone, handles the chain already gave out. `precompiles.rs:13` says a
  reveal "always returns the real value".

- **Equal external calls are merged** (`compiler_repeated_call`). `is_cse_eligible` (`cse.rs:64`)
  excludes loads and encryptions but not `ExternalCall`, so of two equal calls in one block
  the second takes the first one's answer and is removed, although the callee may answer anew.
  `effects.rs:171` classifies the call as `State`, and `covenant-opt/src/lib.rs:3` calls the
  passes "each semantics-preserving". Run `compiler` has no two equal calls in one block.

*Shapes the family of run `compiler` leaves out*, because the code does something else than
the source says or than the validator's own rules allow. Each was a counterexample to the
property named, and is one again if a declaration of its shape is added to the family:

| Shape | What the code does | Property |
|---|---|---|
| an assignment to a local declared by `let` | finds no argument of that name and is dropped (`builder.rs:1671`) | `LoweringKeepsMeaning` |
| something after `revert_with` in a block, with an `if`, `match` or `for` in it | the branch's terminator replaces the revert (`builder.rs:1048`) | `LoweringKeepsMeaning` |
| a ciphertext as the index of a map or list | the index's type is not checked (`checker.rs:971`, `1062`) | `AcceptedRunsAreDefined` |
| `c += 1` on an encrypted element or member | adds to the handle, not to the plaintext (`builder.rs:1720-1745`, `1850-1870`) | `LoweringKeepsMeaning` |
| `!` on an encrypted bool | negates the handle (`builder.rs:2201`) | `LoweringKeepsMeaning` |
| a field or an element read, an external call, and the same read again, in one block | the second takes what the first one read, though the callee may have called back and written it: only the contract's own writes forget a load (`sload_coalesce.rs:21`), and of two equal `MapGet` or `ListGet` of one load the first is kept (`cse.rs:64`) | `PassesKeepBehaviour` |
| `s[p].v += 1` twice | the second reads the member the first one read (`cse.rs:64`) | `PassesKeepBehaviour` |
| the same constant encrypted in both branches of an `if` | shared although neither dominates the other (`fhe_fold.rs:13`) | `DominanceHolds` |
| an unused `now - due` | removed with its revert (`effects.rs:106`) | `PassesKeepBehaviour` |
| a loop whose body reverts on both ways, and blocks after it | dead blocks leave a gap in the ids, and the validator looks up the wrong block (`validate.rs:133`) | `ValidatorAccepts` |
| a chain of constants longer than the rounds | E401 (`manager.rs:18`) | `ReachesFixpoint` |

*The printer and the parser disagree.* `printer.rs:3` guarantees idempotence, and the formatter's
tests compare a first with a second pass. But `format_source` (`fmt.rs:108-116`) ignores the
diagnostics and prints what the parser recovered, so a declaration the printer writes in a
form that does not parse is deleted by the second pass, and the tests use none of these forms, or
compare files from which they have already gone:

- written one way, read another: `for x in` (`for each x in`), `not`/`and`/`or` (`!`, `&&`, `||`), lambdas `|x| e`
  (`x => e`), `vdf_locked(e)`, `verified_by e`, `catch {` without a name, `encrypted<T>` and `list<T>` (`encrypted T`,
  `[T]`), `shares(n/k, e)`, `choice<a | b>`, `indexed x: T`, imports with `::`, `anchored_on` without brackets,
  views and qualifiers without commas between their guards; a prefix minus on a minus becomes a comment,
  nested types end in `>>`;
- printed and parsed, but different: `!(a)` becomes a call of `not`;
- not printed at all: `@slot`, so that a formatted contract has another storage layout; the
  `returns` of a one-line reveal.

So `covenant fmt` makes a file with an encrypted or a list field unparsable, and a second `fmt` deletes
the field. The last two items are the exceptions in `FormattingIsHonest`.

Others met while modelling, without a run of their own:

- An `encryptedAmount` may name a handle that does not exist yet (`erc8227.rs:374`, `485`, `586`; handles are hashes of a counter, `precompiles.rs:58`). It reads 0 (`precompiles.rs:68`) where the
  amount is compared with balance and allowance. If the transaction's own comparison, or its own debit, is what mints it, the operations after that
  read another value: debit and credit differ, and neither was compared with anything. `TotalSupplyIsSumOfBalances` fails then without a transfer to
  oneself, and a balance of 0 can wrap. Runs and theorems say what holds when the amount is settled.
- A static call returns handles of its scratch heap, with numbers the chain will give out later (`chain.rs:457`, `611`). Passed on to a
  transaction and stored there, such a word names nothing at first and then another ciphertext. `HandlesResolve` excuses the words programs are handed for this reason.
- `<<` of two constants is folded in 128 bits and loses what a 256-bit word would keep
  (`constant_fold.rs:97`).
- Nothing jumps to the else block of an encrypted branch (`codegen.rs:1694-1722`).
- Arguments of a revert beyond the third overlap the memory of values (`codegen.rs:1779`).
- An assignment to a local that shadows a field writes the field (`builder.rs:1598`).
- A one-line reveal without a target opens an encrypted field to everybody (`analyzer.rs:272-283`); `EncryptedStaysHidden`
  counts it as a reveal.
- Views and reveals silently discard qualifiers; `selective_disclosure`, `version`, `migrate` and `on_destroy` ignore
  annotations.
- A field whose type is a struct is read through the word in its slot, and writes to its members are dropped
  (`builder.rs:1884`).

- `docs/v0.9/helper-deep-dive-ceremony.md:108` says finalize reverts below the threshold;
  `CeremonyHelper.sol:143-146` closes the session and reports `thresholdMet = false`. (A compiled ceremony asserts the verdict, so
  its transaction does revert.) The model does what the code does.
- `CeremonyHelper.sol:101` truncates the threshold to 128 bits and announces it in full.
- INVALID ends a call with `Revert` (`evm.rs:502`), where the comment at `chain.rs:144` counts it as
  `Aborted`.
- The test harness's `raw_call` (`harness.rs:235`) keeps what a reverted call wrote, unlike the chain
  (`chain.rs:8-9`).

<a name="7-not-modelled"></a>
## 7. What is not modelled

- Of the compiler: characters, escapes and spans; imports, lambdas, collection methods but `length` and `append`, text
  and hash values, PQ and ZK expressions, registries and struct-typed fields beyond parsing; constructors,
  `try_action` and encrypted branches beyond type checking; template synthesis before the IR (its results are
  `AmnesiaCeremony`, `SecretToken`, `ERC20Token`, `ERC721Token`); dispatch, ABI of dynamic values and label assembly;
  artifacts. The front ends and the stub backends are file and protocol I/O.
- Boolean and multiplicative FHE operations, PQ and ZK stubs: they mint, or answer,
  like the operations modelled.
- Serialization of the chain (which drops the heap, `chain.rs:183`) and `Clock::set`: no
  caller of the library does either yet.
- `reset()` of the chain: it is `Init`.
- Gas, ether balances (no modelled operation moves any), and the relation of `tx.origin` to a relay beyond what
  `Msg` says.
- Struct-typed fields and fields of unknown types in the slot computation: every field takes one slot.

<a name="8-plan"></a>
## 8. Plan

Done: the run-time behaviour first (the ceremony on both backends, the tokens, the chain, the guards), then
what stands between source and bytecode, from code generation back to the text. What is left, in order:

1. *Proofs*: that a pass keeps what code *does*, for which `EvmMachine` would have to be written with recursive functions; that `IrBuilder` leaves
   code in SSA form; that compilation of a declaration without chains of constants reaches its fixpoint.
2. *The compiler*: encrypted branches, `try_action`, constructors and struct-typed fields in `IrBuilder` and
   `EvmMachine`; dispatch and the ABI of dynamic values.
3. `FheHelper`: `MockedFHEHelper.sol`, whose handles depend on caller and nonce only.
4. Chain restore and `Clock::set` as actions of `MockChain`.
