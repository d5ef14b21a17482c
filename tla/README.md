# Formal model of the mini savings account

TLA+ modules, TLC runs and TLAPS proofs for the contracts in `src/src`: a Bank
that deploys savings accounts as NFTs, accounts divided into sub-accounts that
may be linked to vaults, and the vaults that invest their money.

## 1. The system

| component | state | operations | properties that make it correct |
|---|---|---|---|
| `Bank` registry (`Bank.sol`) | supported assets, supported vaults, owner | createAccount, addAsset, createVaultCeFi, createVaultDeFi, ownership | only vaults of a supported asset are registered; the owner can register new ones |
| account tokens (OpenZeppelin `ERC721` in `Bank.sol`) | owner, balances, approvals | approve, setApprovalForAll, transferFrom | an approval does not survive the sale of the account; unchecked balances count the tokens |
| `Accountt` (`Accountt.sol`) | a *book* per sub-account and asset; a *link* (vault, share) per sub-account | deposit (2), withdraw (2), internalTransfer, internalSwap, linkSubaccountToVault | money leaves for the NFT owner only; books are covered by tokens, share numbers by shares |
| vault shares and calls (solmate `ERC20`, `ERC4626`, `FixedPointMathLib`) | totalSupply, balanceOf, allowance | deposit, mint, withdraw, redeem, transfer, transferFrom, approve | the unchecked arithmetic is safe; rounding never takes from the other holders |
| `VaultCeFi` (`VaultCeFi.sol`) | borrowedFunds, owner | borrow, refund, ownership | loans are booked, stay within 80 %, and a share loses value only by a reported net loss |
| `UniswapV3Helper` (`UniswapV3Helper.sol`) | custody records of liquidity positions | two swaps, mint/increase/decrease/collect/retrieve positions | what is taken from a caller is traded or returned; a position goes back to its depositor |
| `VaultDeFi` (`VaultDeFi.sol`) | none | none | the file is commented out |
| underlying tokens, Uniswap router and pools | balances | transfer, swap | external |
| `NonfungiblePositionManager` (vendored) | positions: owner, liquidity, tokens owed | mint, increaseLiquidity, decreaseLiquidity, collect, transfers | external, as far as the helper and its users call it |
| JavaScript and TypeScript under `src/lib` | none | build, release and code generation scripts of the vendored libraries | no part of the program |

**How they interact.** A user calls an account. The account asks the Bank, by a
call in the same transaction, who owns its token (`onlyOwner`) and whether an
asset or a vault is supported; it then moves tokens, and calls `deposit`,
`withdraw` and `previewRedeem` of the linked vault, or `swapExactInputSingle` of
the helper. The money of all sub-accounts is *pooled*: tokens are at the account's
address and shares in its name, and only the books and links say which part is
whose. The vault prices shares by `balanceOf(vault) + borrowedFunds`, so anybody
who sends it tokens, and its owner by borrowing and refunding, change what every
linked sub-account is worth.

Users also give the helper liquidity positions, which are NFTs of the position
manager. The helper learns of one sent to it by the callback `onERC721Received`,
keeps a *record* (depositor, liquidity, tokens) next to the manager's own state, and sends
it back with a call that lets a recipient contract run code in the middle of
`retrieveNFT`.

**What is hard.** There is no concurrency inside a transaction, but for that
callback, and no crash: the EVM executes one transaction at a time and reverts it as
a whole. What is hard is
the *order* of transactions of many actors (saver, buyer of the account, agents
they approved, vault owner, other shareholders, strangers who donate), integer
arithmetic at its edges (two roundings, unchecked blocks, casts between signed and
unsigned), values kept in two places (book, recorded share, shares held, tokens
held; record, position and its real owner), and a struct copied to memory, changed
there and not written back.
`PROJECT.json` lists these hazards at their lines.

## 2. Modules

| module | what it is |
|---|---|
| `FixedPoint` | machine words of a size given by `UintMax`, checked and unchecked results, `int256` casts, mulDiv |
| `TokenLedger` | the transfer of a plain ERC20; what it means that balances, possibly of infinitely many addresses, add up to a total |
| `ShareVault` | a share vault as pure operators: ERC20 shares, the ERC4626 calls, borrow and refund |
| `VaultCeFi` | one vault with its users, allowances, owner and underlying token, as a specification |
| `Bank` | the registry and the account tokens, as a specification |
| `Accountt` | account contracts composed with `Bank` (an INSTANCE over the same variables), the vaults (`ShareVault`), the tokens and the helper's swap |
| `BankHistory` | `Bank` with a history variable: under which owner an approval was given |
| `SharePool` | what a lending vault promises, without rounding, words, allowances or callers; `VaultCeFi` refines it, and so does every vault inside `Accountt` |
| `UniswapV3Helper` | the helper with the position manager, pools and callback as its environment |
| `MCVaultCeFi`, `MCBank`, `MCAccountt`, `MCUniswapV3Helper` | small instances for TLC |
| `TokenLedgerLemmas`, `ShareVaultLemmas` | sums over finite sets, and what the operators of `TokenLedger` and `ShareVault` return, proved |
| `VaultCeFiProofs`, `BankProofs`, `UniswapV3HelperProofs` | inductive invariant and theorems of each component; the first also the refinement of `SharePool` |
| `AccounttProofs`, `AccounttBooksProofs`, `AccounttPoolProofs` | the composition: ledgers, prices and outflows; books and links against what accounts hold, types; every vault is a `SharePool` |

### Conventions

* **One step is one successful transaction**, with every external call it makes.
  A transaction that reverts changes nothing, so it is a stuttering step. The one
  exception is a retrieval of a position by a contract (see `UniswapV3Helper`).
* **A call inside a transaction is the set of its outcomes**: a singleton when it
  returns, empty when it reverts. `\E out \in deposit(...) : Commit(out)` reads
  "the call returns `out` and its effects are kept". That is how
  `updateVaultWithdraw`, which calls `previewRedeem` and `withdraw` and can revert
  in five places, is one short operator, and how `VaultCeFi` and `Accountt` share
  one definition of the vault code.
* **Integers keep their width.** `Checked(n)` reverts outside `0 .. UintMax`,
  `Wrapped(n)` is the unchecked result. TLC uses words of 2 to 4 bits, so that they
  do overflow; the proofs hold for every odd `UintMax`.
* `MAX_BORROW_RATIO / BPS` is 8000/10000 in the code. The product
  `totalAssets * 8000` must fit the word, so the instances use fractions with small
  terms (4/5, 1/2, 0/2); the proofs hold for every ratio up to one.
* Events, names, symbols, `permit`'s signatures and view functions without a reader
  are left out.

### From code to model

* `VaultCeFi`: `vault` holds the ERC20 storage and `borrowedFunds`; `bal` is the
  underlying token's own storage. Users and the vault itself can be receivers and
  holders. `TokenTransfer` is a transfer that does not call the vault, also a
  donation to it. `SpendUnlessHolder` is the allowance block of `withdraw`,
  `redeem`; `TransferFrom` has no exception for the holder, like the code.
* `Bank`: an account's address is its token id, so `nftOwner[a] # Nobody` says that
  the account was created. `CreateVaultDeFi` has the guard of the modifier
  `vaultNotAdded` **as written** (it requires the vault to be registered). The
  constructor's `transferOwnership(_admin)` is in `Init`; the zero address and
  `renounceOwnership` are `Nobody`.
* `Accountt`: `book[a][s][x]` is `subaccountIdToAssetToBalance`, `link[a][s]` is
  `subaccountIdToVault`. `updateVaultDeposit` and `updateVaultWithdraw` take the
  link *by value* and return the new world without a new link: in the code they
  receive a `memory` struct, and their `share += ...` and `share -= ...` are lost
  (the checked subtraction can still revert and is kept as a guard).
  `LinkSubaccountToVault` writes to storage. The two `deposit` overloads are one
  action, as are the two `withdraw`: sub-account 0 has no link, so that the longer
  overload does what the shorter one does, up to a check on an addition that
  `MaxBook` keeps in range.
* `InternalSwap`: the helper pulls the whole input; the pool may take any part of it
  (`sqrtPriceLimitX96 = 0` puts no limit, but a pool can run out of liquidity) and
  pays any amount from the caller's minimum up. The rest of the input stays with the
  helper, as in the code. A swap of nothing, or of an asset for itself, reverts.
* `UniswapV3Helper`: `deposits` is the mapping of that name, `position` the manager's
  ERC721 owner, liquidity and `tokensOwed`, `allowance` what the helper approved to
  router and manager. When a *contract* retrieves a position, the manager calls it
  back before the record is deleted: `RetrieveNFT` moves the position and pushes its id
  on `callbacks`; until `FinishRetrieve` deletes the record (the innermost first) the
  steps belong to the same transaction, only contracts take them, and `gas` bounds
  them. A callback that makes the transaction revert undoes all of it and is left out,
  as any revert. `DepositPosition` is a safe transfer to the helper with its handler;
  `OnERC721Received` is the handler called by somebody else, which the code does not
  refuse, with any address as operator: a user, the helper, the pool or `Nobody`, which
  is address(0) and every address without code or key. A record has both tokens of the
  position or, deleted or never written, neither: the code then calls address(0), which
  has no code, so that the transfer succeeds and moves nothing (`Part`).
  `mintPosition` takes any contract as `_v3Pool` and asks it for `token0()` and
  `token1()` up to four times: `Pools` is every way it may answer, `Said` and `Approve`
  what is then pulled, approved and refunded. What it names when the manager mints are
  the tokens of the position, since the manager computes the pool's address from them.
* The position manager, as its users call it without the helper: `ManagerMint` to any
  recipient and without a callback, the helper included; `ManagerDecrease` and
  `ManagerCollect` by the owner or an operator (`isAuthorizedForToken`), the latter to
  any recipient; transfers. One addition is one unit of liquidity, whatever the pool takes
  for it; burnt liquidity is worth any amount the pool has. All positions have the same
  two tokens. Token approvals of users to the helper, `permit`, and approvals of single
  positions are not modelled; who is an operator of whom is a constant. The helper never
  makes anyone its operator, as there is no code in it that would.
* Underlying tokens have no fee and do not rebase, which `src/README.md:126-127`
  requires of supported assets. Their allowances are not modelled: the contracts
  approve exactly what the next call takes.

Kept out of a module because another one has it: the ownership of the Bank moves in
`Bank` only (accounts read nothing that depends on it), the ownership of a vault and
the allowances of shares in `VaultCeFi` only (accounts never approve their shares).

## 3. Runs

Passing runs (`tlc -config X.cfg M`; the seven of the table, the other five are in
section 4):

| run | question | instance |
|---|---|---|
| `VaultCeFi_shares` | Does any order of deposits, withdrawals, donations, loans and refunds dilute a holder, lock one out, or lend too much? | 2 users, one of them the owner; 3 tokens, amounts 0..2, 4-bit words |
| `VaultCeFi_allowances` | Are shares conserved and moved by consent when third parties act on finite and infinite allowances and the vault changes hands? | 2 users with one token each, 2-bit words so that 3 is the infinite allowance |
| `Bank_registry` | Do sales, approvals, operators and ownership changes in any order leave an approval of a former owner, or a vault of an unsupported asset? | 2 users, 2 accounts, 2 assets, 3 vaults; accounts may own accounts |
| `Accountt_linked` | Whatever the vault's owner and strangers do, can anyone but its present owner move money out of an account, and do idle books stay covered? | 1 account, 3 sub-accounts, one vault that lends up to half, the account may be sold |
| `Accountt_swap` | The same with two assets, a vault for each and partial swaps; and can money be linked into a vault whose asset the Bank does not support, so that it cannot be withdrawn? | 2 sub-accounts, a pool with one token |
| `UniswapV3Helper_custody` | In any order of calls, and from inside a callback: can a position change hands without consent, can money owed to it in custody reach the wrong address, does the helper keep what it should return, and does a position come back? | a wallet, a contract that is its operator and is called back; one position, two tokens, a pool that keeps to its answers and four that do not |
| `Accountt_shared` | Can an account's debit panic on rounding, and can it dilute the other holders of its vault? Is a vault still a plain pool when accounts make several calls of it in one transaction? | 2 sub-accounts, an investor who holds shares and buys some for the account |

Properties, by module:

* `VaultCeFi`. `SharesWithinSupply`: the assumption of solmate's unchecked blocks,
  that no balance exceeds the supply. `SharesSumToSupply`: shares are conserved.
  `SharePriceNeverFalls`: worth per share, compared by cross-multiplication, falls
  only in a refund with more losses than interest. `RoundTripNeverProfits`:
  depositing and redeeming at once does not pay. `HoldersCanLeave`: with nothing
  lent out a holder whose shares are worth something (`redeem` refuses zero) can redeem all
  of them. `OutflowIsPaidFor`: tokens leave only
  for burnt shares or as a loan booked in full. `LoansRespectRatio`: previous loans
  count. `SharesMoveByConsent`: whoever can make the call that costs a holder shares
  is the holder or an approved spender, whose approval is infinite or loses as many. `ImplementsSharePool` is the refinement: every transaction is a step
  of `SharePool` or none.
* `Bank`. `SupportedVaultsHoldSupportedAssets`, `BalancesCountAccounts`, and
  `ApprovalsAreTheOwners`, with a history variable in `BankHistory` that remembers
  under which owner an approval was given.
* `Accountt`. `IdleStaysBacked`: an account holds the tokens that its uninvested
  books promise; only linking a sub-account again breaks it. `SharesStayHeld`: the
  recorded share numbers are covered by shares held; only a debit of a linked
  sub-account, or linking again, breaks it. `OutflowIsTheOwners`: nobody but the present
  owner can make the call by which tokens leave, and they go to the owner, into a
  supported vault in the account's name, or into a swap that pays the owner's minimum. `DebitNeverUnderflows`: rounding `previewRedeem` down
  and `previewWithdraw` up agree, so that `share -= withdraw(amount)` cannot panic.
  `SharePriceNeverFalls`: accounts deal fairly with other holders.
  `LinkedAssetsSupported`: `withdraw` asks whether the *asset* is supported,
  `linkSubaccountToVault` whether the *vault* is, and nothing asks both; an asset that
  is linked is nevertheless one that can be withdrawn. `EveryVaultIsAPool`: each vault
  of the composition is a `SharePool`, with its batches (below).

* `UniswapV3Helper`. A position's *claimant* is the recorded owner while it is in
  custody and its owner otherwise. `ClaimsMoveByConsent`: whoever can make the call by
  which a user's position changes its claimant or loses liquidity is that user, or an
  operator of the user while the position is not in custody. It lets two things through:
  the deletion of the record at the end of a retrieval, and the handler, which anyone may
  call (section 4), though never to take liquidity. `OwedIsPaidToClaimant`: what the pools
  owe a position in custody goes to its recorded owner in full, at that token nothing
  else moves, and without a record it stays with the helper; of other positions only the
  owner and operators can collect. `CustodyIsRecorded`: no call of the helper's own code
  leaves a position in custody without a record; that takes a transfer or a mint of the
  manager without callback, or a position sent back while it is retrieved.
  `HelperKeepsOnlyLeftovers`: the helper's own tokens grow only by the rest of an
  exact-input swap or of an increase, by what a position without an owner of its own
  collects, or by what somebody collects to it, and shrink only in an increase of a
  position without a record; a mint with a `_v3Pool` that changes its answers may do both.
  `DepositsComeBack`: a depositor who keeps asking gets the position. A contract that is
  not written to receive NFTs is outside it: its own retrievals always revert.

**Who called.** A step is a change of the variables and has no caller in it: two calls
that change the same are the same step. Properties about consent therefore do not say
"this is the owner's call", which a stranger's call with the same effect would also be.
They speak of every caller that could have made the step: `\A c \in Users : Call(c) =>
...`, where `Call(c)` is the disjunction of all calls of `c`. A guard that lets a stranger
do what the owner may do then makes the property false.

`IdleStaysBacked` and `SharesStayHeld`, and the first, third and fourth property of the
helper, name the steps that break them. These are defects or gaps of the code, most of
them shown by the runs below; the properties say that there is *no other* way.

**The refinement.** The mapping takes `cash` to the vault's token balance, `lent` to
`borrowedFunds` and shares to shares. Entries and exits become `Enter` and `Leave`,
which only ask that nobody pays less, or gets more, than the price; loans become
`Lend`. A donation is a `Gain`, as is a refund that does not lower `borrowedFunds`,
also one that wraps it around; a refund that lowers it is `Settle`, the only abstract
step in which shares may lose value. Approvals and ownership stutter.

In `Accountt` the same mapping is taken at every vault (`Fund(v)`, an instance with a
parameter). An `internalTransfer` between two sub-accounts linked to one vault withdraws
and deposits in one transaction. That is no step of the pool: the entry is priced by what
the exit left. `SharePool!Reenter` is the pair, `BatchNext` the steps with it;
`VaultCeFi`, whose steps are single calls, implements the pool without it.

**Bounds.** Amounts, tokens and words are small, but every rounding case (a share
worth zero, one, or more than one; a remainder or none), every overflow and both
readings of a signed word occur with them. Three sub-accounts are the least with two
linked ones next to the default one. `MaxBook` bounds the books, which defects could
otherwise grow for ever; no guard of the code is near it in the passing runs.
`SubSymmetry` exchanges sub-accounts 1 and 2, which no definition tells apart, in a
run without liveness. `Approvals`, `NewOwners`, `Operators`, `Recipients`, `Donees`,
`Investors` restrict who may be named in a call. In `Accountt_shared` the books stay
within 2 of the 4 tokens there are; the prices its properties depend on come from
interest and from the investor's shares. `Accountt_shared` and
`Accountt_swap` have narrower instances for the sake of a question the widest cannot
afford. In `UniswapV3Helper_custody` two units of liquidity are the least with a record
that differs from the position; `MaxGas` of two lets a callback deposit and retrieve
again (a second callback on top of the first); three amounts let a swap be partial.
`Named` restricts the addresses that calls name as operator or recipient to the other
user, the helper and `Nobody`; `PoolAnswers` has one pool for each of the four questions
that answers it wrongly, by naming the tokens the other way round or none. With one
position, what is checked concerns calls on the same record; two positions are beyond
TLC here, and the theorems below hold for any number of them and any answers.
Deadlock is checked in every run: the
contracts never stop accepting calls.

**Fairness.** Only `UniswapV3Helper` has any, for `DepositsComeBack`. A transaction ends
since gas is finite: weak fairness of `FinishRetrieve` (the gas bound makes it
inevitable that the callback ends, the fairness that the EVM goes on). A depositor who
wants a position back keeps calling `retrieveNFT`, and a chain that includes
transactions by fee lets a user who keeps trying be first in the end, while others may
be first many times: strong fairness of `RetrieveNFT` for every user and position. No
fairness is given to any other call. In the other modules nobody is obliged to send a
transaction, and what a user *can* do is a state predicate (`HoldersCanLeave`,
`NewVaultAccepted`, `BookedIsWithdrawable`).

## 4. Where code and documentation disagree

Each is a run that TLC ends with a counterexample:

1. `Accountt_invested`: a deposit into a sub-account that is already linked is
   invested, but the shares are added to a memory copy (`Accountt.sol:301`). The book
   grows and the money cannot be withdrawn.
2. `Accountt_stale`: a debit of a linked sub-account does not lower its recorded share
   (`Accountt.sol:321`), so the next one books money that has left already, also
   after a withdrawal of zero. The books promise more tokens than exist.
3. `Accountt_relink`: linking again deposits the whole book, already invested, out of
   the other sub-accounts' tokens, and overwrites the share (`Accountt.sol:277-288`).
4. `Bank_newvault`: `vaultNotAdded` is inverted (`Bank.sol:40`); no vault of another
   kind can ever be registered.
5. `UniswapV3Helper_handler`: "must be the owner of the NFT", `retrieveNFT` and
   `decreaseLiquidity` ask of their caller (`UniswapV3Helper.sol:302,404`), and go by a
   record that anyone may overwrite: `onERC721Received` (line 140) does not look at who
   calls it. In the run alice mints a position through the helper and the robot names
   itself in the handler.

Read off the code, without a run: a refund above what is lent out wraps `borrowedFunds`
to a number near 2^256 (`VaultCeFi.sol:59`; in the instances one refund of 1 with nothing
lent gives 15, and the properties of `VaultCeFi` hold all the same); the unfilled rest of a
swap stays with the helper, off the account's book (`Accountt.sol:241`); anyone may deposit into an account, although
`src/README.md:55` lets only the owner interact; `withdraw` of a sub-account emits
`Deposit` (`Accountt.sol:165`); callers are told to approve the Bank, but the account
takes the tokens (lines 74, 90); `decreaseLiquidity` "by half" removes everything the
record says (`UniswapV3Helper.sol:295`), and reverts a second time; "Caller must own the
ERC721 position" (line 277) though anyone may collect, for the recorded owner; "transfer
ownership to original owner" (line 406) though the record names the operator of the
deposit; a failed exact-output swap leaves the router's approval
(line 131); `borrowCapacityLeft` panics instead of returning zero when holders left
after a loan (`VaultCeFi.sol:82`).

## 5. Proofs

Assumptions: those named in the modules. `UintMaxAssumption` (a word has an even
number of values), `RatioAssumption` (the ratio is at most one), `VaultAssumption`
(the vault is not one of its users, amounts are words), `FiniteAssumption` (finitely
many users of a vault; finitely many accounts and sub-account ids: addresses and ids are
machine words), `BankAssumption`, `AccountAssumption` and `HelperAssumption` (contracts
and users have different addresses), `RegistryAssumption` (`BankAssumption`, of the
constants `Accountt` shares with the Bank). Initial balances are any distribution of
words.

| module | theorem | property |
|---|---|---|
| `VaultCeFiProofs` | `TypeCorrect` | `TypeOK` |
| | `SharesStayWithinSupply` | `SharesWithinSupply` |
| | `SharePriceIsKept` | `SharePriceNeverFalls` |
| | `OutflowIsAlwaysPaidFor` | `OutflowIsPaidFor` |
| | `LoansKeepTheRatio` | `LoansRespectRatio` |
| | `HoldersCanAlwaysLeave` | `HoldersCanLeave` |
| | `RoundTripsNeverProfit` | `RoundTripNeverProfits` |
| | `SharesNeedConsent` | `SharesMoveByConsent` |
| | `SharesSumUp` | `SharesSumToSupply` |
| | `VaultImplementsPool` | `ImplementsSharePool` |
| `BankProofs` | `TypeCorrect` | `TypeOK` |
| | `VaultsHoldSupportedAssets` | `SupportedVaultsHoldSupportedAssets` |
| | `BalancesAreCounts` | `BalancesCountAccounts` |
| | `ApprovalsAreOwners` | `ApprovalsAreTheOwners` |
| `AccounttProofs` | `LedgersAddUp` | the inductive invariant itself |
| | `DebitsNeverUnderflow` | `DebitNeverUnderflows` |
| | `SharePricesNeverFall` | `SharePriceNeverFalls` |
| | `OutflowsAreOwners` | `OutflowIsTheOwners` |
| `AccounttBooksProofs` | `IdleBooksStayBacked` | `IdleStaysBacked` |
| | `RecordedSharesStayHeld` | `SharesStayHeld` |
| | `IdleBackedWithoutRelinks` | idle books are backed in every state of a behaviour without second links |
| | `SharesHeldWithoutDebits` | recorded shares are held in every state of one without second links and debits of linked sub-accounts |
| | `LinkedAssetsAreSupported` | `LinkedAssetsSupported` |
| | `TypeCorrect` | `TypeOK` |
| `AccounttPoolProofs` | `EveryVaultImplementsPool` | `EveryVaultIsAPool` |
| `UniswapV3HelperProofs` | `TypeCorrect` | `TypeOK` |
| | `ClaimsNeedConsent` | `ClaimsMoveByConsent` |
| | `RecordsCoverCustody` | `CustodyIsRecorded` |
| | `OwedReachesClaimant` | `OwedIsPaidToClaimant` |
| | `OnlyLeftoversAreKept` | `HelperKeepsOnlyLeftovers` |

**Lemmas.** `TokenLedgerLemmas` has the sums. The models use two: `SumsTo`, which describes
the sum of a function by partial sums over the subsets of its domain and so exists for any
set of holders, and the folds of the community modules, which TLC computes. The library's
induction theorem for finite sets takes an operator as a parameter, which no installed
prover can instantiate; `SubsetInduction` states it for a *set* of subsets instead (a
family that has a set as soon as it has all its strict subsets has every finite set),
and follows from the well-foundedness of inclusion on finite sets. From it the fold over a finite set
is a sum (`FoldIsSum`, `SumWithout`), two functions that differ in one place have sums that
differ by the difference there (`SumChanged`), and `SumsTo` and the fold agree
(`SumsToIsSum`). `ShareVaultLemmas` proves what the vault's operators return: `Wrapped`
yields words and changes none; `mulDivDown` and `mulDivUp` round the way they say;
`_mint`, `_burn` and `transfer` keep balances that add up to the supply adding up, so
that the unchecked arithmetic does not wrap; every preview rounds against its caller.

**VaultCeFi.** The inductive invariant is `IInv == TypeOK /\ SharesAddUp`. `TypeOK` alone
is inductive but says nothing of the burn's unchecked subtraction of the supply;
`SharesWithinSupply` is not inductive (two holders below the supply do not bound a
third). That the balances *sum* to the supply is. From it, one lemma per kind of step
(`EntryStep`, `ExitStep`, `ShareTransferStep`, `TokenTransferStep`, `BorrowStep`,
`RefundStep`) says what the step does to supply, worth and holdings; each theorem is read
off these, as is the refinement, where one lemma per kind maps a step. `borrowedFunds` may wrap in a refund: then it grows, which is why
`RefundNeverForgetsFunds` needs no assumption on the amount.

**Bank.** The invariant is the conjunction of the three properties. The count of accounts
is a cardinality, so a sale is one element less for the seller and one more for the
buyer (`OneLess`, `OneMore`), in this order, which also covers a sale to oneself. For the
approvals the history is strengthened by what `createAccount` needs: an account that was
not created has no approval its first owner could inherit.

**Accountt.** The invariant is `Good(World) /\ BooksType /\ LinksType`: the tokens and
stores of all vaults are well typed, the shares of *every* vault add up to its supply,
books and links are words. A transaction makes several vault calls, so prices are proved
by composition: `Fair` relates two worlds when no share of a vault lost value, each call
is fair (`InvestedIsFair`, `WithdrawnIsFair`), and fairness composes (`FairComposes`) as
long as the supply does not go through zero in between. While a user holds shares it
does not, since no call of an account burns a user's shares; hence the condition in the
property. `OutflowsAreOwners` follows what every call shifts between which addresses
(`InvestedShifts`, `WithdrawnShifts`, `DebitedShifts`) and needs that a link, once
written, points to a supported vault (`LinksSupported`, proved with it).

*Books.* `IdleStaysBacked` and `SharesStayHeld` relate sums over sub-accounts to one
balance. One lemma per operation says what it does to all tokens and all shares of all
accounts (`DepositMoves` to `LinkMoves`), `CoveredAfterNone`, `CoveredAfterOne` and
`CoveredAfterTwo` that a sum of which no, one or two terms change stays covered, and one
lemma per operation puts them together; the two books of an `internalTransfer` may be one,
and either may be invested. The invariant above is too weak: a first link with an empty
book keeps the share number that is there, which is harmless only if that is zero, and a
swap debits the default sub-account, which is harmless only if that has no vault.
`LinksRecorded` says both and is inductive with the rest (`BooksInv`). By the first two
theorems the steps named in the properties are the only ones to lose anything; by
`IdleBackedWithoutRelinks` and `SharesHeldWithoutDebits` a chain on which nobody takes
them never does.

*The registry.* What is proved of the Bank alone is used here as it stands, by an
instance of `BankProofs` over the variables of `Accountt`. Its assumptions are proved of
the constants (`BankAssumed`), every step of `Accountt` is shown to be one of the Bank or
to leave it alone (`StepOfBank`), and the Bank's `IInv` becomes an invariant of the composition
(`BankInvariant`). With it `TypeCorrect` is the whole `TypeOK`, and
`LinkedAssetsAreSupported` joins `LinksSupported` to the Bank's theorem that supported
vaults hold supported assets. The Bank's history of approvals plays no part in that;
the instance gives it a constant.

*Pools.* For one vault and two worlds, `Same`, `Enters` and `Leaves` are what a call can
be to it; each call is one of them at its vault and `Same` at every other, also at those
of the same asset. A transaction is at most a `Leaves` and then an `Enters`
(`TransactionSteps`), hence a step of the pool or of its batches.

**UniswapV3Helper.** `TypeOK` is inductive. The two properties of custody are
proved per caller: `ClaimsKept(c)` and `RecordsKept` say what a call of `c` keeps, one that
touches the record or the position of one id only keeps all others (`KeptByOne`), so each
action is one lemma about its own id and its caller (`CallKeeps`). Callbacks add nothing: every step is allowed at any depth, and `FinishRetrieve` deletes a record the
property names. The two of money follow balances through a call payment by payment (`PayEffect`,
`MovedOn`), whatever a `_v3Pool` answers as far as types go (`SaidType`, `ApproveType`); what
is owed is lowered by a call of `c` only where `c` may collect (`CallOwes`). That needs one
more invariant, that a position is empty before its mint
(`UnmintedIsEmpty`), without which a mint could forget a debt.

**Only model-checked.** `DepositsComeBack` (liveness under fairness) and
`NewVaultAccepted` (ENABLED) are beyond the prover; the other violated properties of
section 4 are false. Every other property of the passing runs is proved for all values of
the constants.
`HoldersCanLeave`, `RoundTripNeverProfits` and `DebitNeverUnderflows` say that calls
*return* without ENABLED, because a call is the set of its outcomes.

## 6. Not modelled

* `permit` of the share token and of positions (an approval by signature), `burn` and the
  approval of a single position at the position manager.
* `getLiquidity`, `sqrtPriceX96ToPrice` and `priceToSqrtPriceX96` of the helper: views
  that no contract calls.
* `VaultDeFi` (every line is a comment) and vaults of other makers behind
  `createVaultDeFi`, which can never be registered (section 4).
* The transfer wrappers, which only turn a token's missing or false answer into a revert;
  the mathematics of the Uniswap pools.
* The JavaScript and TypeScript of the vendored libraries (`hardhat.config`, release
  checks, and the templates that generate `EnumerableSet`, `EnumerableMap`, `Checkpoints`,
  `SafeCast`): nothing in `src/src` imports what they produce. The program is Solidity,
  and all of its contracts are above.
* Tests and the deployment script.

## 7. What is left

1. An abstract purse (money of an account, paid out to its owner) implemented by
   `Accountt` as long as no sub-account is linked, which would separate what the defects
   of linking spoil from what they do not.
2. What debits of linked sub-accounts can cost at most: a bound on how far the recorded
   shares of an account can exceed the shares it holds.
3. Several positions in one run of the helper, with different token pairs.
