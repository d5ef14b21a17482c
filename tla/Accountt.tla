------------------------------ MODULE Accountt ------------------------------
(***************************************************************************)
(* The account contracts together with what they call: the Bank that says  *)
(* who owns an account and which assets and vaults are supported, the CeFi *)
(* vaults sub-accounts are linked to, the underlying tokens, and the       *)
(* Uniswap helper that internalSwap goes through.                          *)
(*                                                                         *)
(* An account keeps one BOOK per sub-account and asset, while its tokens   *)
(* and vault shares are pooled: the books say which part belongs to whom.  *)
(* A step is one transaction, all its external calls included; one that    *)
(* reverts changes nothing.                                                *)
(***************************************************************************)
EXTENDS ShareVault, Functions, FiniteSets

CONSTANTS
    Users, Nobody, BankAdmin, Accounts, Assets, CeFiVaults, DeFiVaults, AssetOf,
    VaultAdmins, NewOwners, Operators, Recipients,   \* see Bank
    SubIds,           \* bound: sub-account ids
    DefaultSub,       \* 0, the default sub-account
    UniswapHelper,    \* the UniswapV3Helper contract
    Pool,             \* the Uniswap pools it trades with
    NoVault,          \* address(0) in a link
    InitialTokens,    \* token balances at deployment
    Amounts,          \* bound: amounts passed to calls
    MaxBook,          \* bound: no call takes a book above it
    Donees,           \* bound: addresses tokens are sent to without a call
    Investors         \* bound: users who hold vault shares of their own

VARIABLES
    bankOwner, supportedAssets, supportedVaults, vaultOwner,
    nftOwner, nftBalance, nftApproved, operatorApprovals,   \* see Bank
    book,     \* subaccountIdToAssetToBalance of every account
    link,     \* subaccountIdToVault of every account: vault and share
    token,    \* token[x][h]: balance of h at the token contract x
    vault     \* storage of every vault, see ShareVault

Bank == INSTANCE Bank

bankVars == <<bankOwner, supportedAssets, supportedVaults, vaultOwner,
              nftOwner, nftBalance, nftApproved, operatorApprovals>>
vars == <<bankVars, book, link, token, vault>>

Holders == Users \cup Accounts \cup CeFiVaults \cup {UniswapHelper, Pool}

ASSUME AccountAssumption ==
    /\ DefaultSub \in SubIds
    /\ NoVault \notin CeFiVaults \cup DeFiVaults
    /\ Users \cap Accounts = {}
    /\ {UniswapHelper, Pool} \cap (Users \cup Accounts) = {} /\ UniswapHelper # Pool
    /\ CeFiVaults \cap (Users \cup Accounts \cup {UniswapHelper, Pool}) = {}
    /\ AssetOf \in [CeFiVaults \cup DeFiVaults -> Assets]
    /\ InitialTokens \in [Assets -> [Holders -> Uint]]
    /\ Amounts \subseteq Uint
    /\ MaxBook \in Uint
    /\ Donees \subseteq Holders
    /\ Investors \subseteq Users

\* Addresses and ids are machine words.  The Bank counts accounts, and the books
\* of an account are sums over sub-accounts.
ASSUME FiniteAssumption == IsFiniteSet(Accounts) /\ IsFiniteSet(SubIds)

\* What the Bank needs of the constants it shares.
ASSUME RegistryAssumption == Bank!BankAssumption

NoLink == [vault |-> NoVault, share |-> 0]

Init ==
    /\ Bank!Init
    /\ book = [a \in Accounts |-> [s \in SubIds |-> [x \in Assets |-> 0]]]
    /\ link = [a \in Accounts |-> [s \in SubIds |-> NoLink]]
    /\ token = InitialTokens
    /\ vault = [v \in CeFiVaults |-> EmptyVault(Holders)]

-----------------------------------------------------------------------------
(* Calls an account makes to its vault, on the token and vault storage of   *)
(* the transaction so far, w.  They take the VaultInfo by value: the code    *)
(* copies it to memory, and the share it computes is dropped with the copy.  *)

World == [token |-> token, vault |-> vault]

\* The world after a vault call.
VaultCalled(w, v, out) ==
    [token |-> [w.token EXCEPT ![AssetOf[v]] = out.bal],
     vault |-> [w.vault EXCEPT ![v] = out.v]]

Held(w, v) == w.token[AssetOf[v]][v]

invests(info, x) == info.vault # NoVault /\ AssetOf[info.vault] = x

\* vault.deposit(amount, address(this)).
InvestedForVault(w, a, v, amount) ==
    deposit(w.vault[v], w.token[AssetOf[v]], v, a, amount, v)
Invested(w, a, v, amount) ==
    deposit(w.vault[v], w.token[AssetOf[v]], v, a, amount, a)

updateVaultDeposit(w, a, info, amount) ==
    { VaultCalled(w, info.vault, out) :
        out \in { o \in Invested(w, a, info.vault, amount) :
                    info.share + o.ret \in Uint } }

\* What the linked sub-account may take out is what its recorded share redeems
\* for; the rest of that becomes its new book.
updateVaultWithdraw(w, a, info, amount) ==
    UNION { { [world  |-> VaultCalled(w, info.vault, out),
               booked |-> newBalance - amount] :
                out \in { o \in withdraw(w.vault[info.vault], w.token[AssetOf[info.vault]],
                                         info.vault, amount, a, a) :
                            o.ret <= info.share } } :
            newBalance \in { b \in previewRedeem(w.vault[info.vault], Held(w, info.vault),
                                                 info.share) : b >= amount } }

\* Both branches of withdraw and internalTransfer that take amount off a book.
Debited(w, a, info, x, amount, booked) ==
    IF invests(info, x) THEN updateVaultWithdraw(w, a, info, amount)
    ELSE { [world |-> w, booked |-> b] : b \in Checked(booked - amount) }

\* And the one of deposit and internalTransfer that adds to a book.
Credited(w, a, info, x, amount) ==
    IF invests(info, x) THEN updateVaultDeposit(w, a, info, amount) ELSE {w}

Commit(w) == token' = w.token /\ vault' = w.vault

Paid(w, x, from, to, amount) ==
    IF CanPay(w.token[x], from, amount)
    THEN {[w EXCEPT !.token[x] = Moved(@, from, to, amount)]}
    ELSE {}

AnyCaller(caller, a) == caller \in Users
OnlyOwner(caller, a) == caller = nftOwner[a]

-----------------------------------------------------------------------------
(* Account operations *)

\* deposit, with and without a sub-account id: anyone may pay into an account.
\* The default sub-account has no vault and its book is checked, the others'
\* books are not.
Deposit(caller, a, x, amount, s) ==
    /\ Bank!Created(a)
    /\ Bank!isAssetSupported(x)
    /\ \E w \in UNION { Credited(p, a, link[a][s], x, amount) :
                          p \in Paid(World, x, caller, a, amount) } : Commit(w)
    /\ book[a][s][x] + amount <= MaxBook
    /\ book' = [book EXCEPT ![a][s][x] = Wrapped(@ + amount)]
    /\ UNCHANGED <<bankVars, link>>

\* withdraw: the book is checked on entry even when the share decides.
Withdraw(caller, a, x, amount, s) ==
    /\ OnlyOwner(caller, a)
    /\ Bank!isAssetSupported(x)
    /\ book[a][s][x] >= amount
    /\ \E d \in Debited(World, a, link[a][s], x, amount, book[a][s][x]) :
          /\ \E w \in Paid(d.world, x, a, caller, amount) : Commit(w)
          /\ book' = [book EXCEPT ![a][s][x] = d.booked]
    /\ UNCHANGED <<bankVars, link>>

\* The credit reads the book after the debit wrote it: from = to moves nothing.
TransferredStaleRead(a, x, from, to, booked, amount) ==
    LET debited == [book EXCEPT ![a][from][x] = booked]
    IN  [debited EXCEPT ![a][to][x] = Wrapped(book[a][to][x] + amount)]
Transferred(a, x, from, to, booked, amount) ==
    LET debited == [book EXCEPT ![a][from][x] = booked]
    IN  [debited EXCEPT ![a][to][x] = Wrapped(@ + amount)]

InternalTransfer(caller, a, x, amount, from, to) ==
    /\ OnlyOwner(caller, a)
    /\ Bank!isAssetSupported(x)
    /\ \E d \in Debited(World, a, link[a][from], x, amount, book[a][from][x]) :
          /\ \E w \in Credited(d.world, a, link[a][to], x, amount) : Commit(w)
          /\ book[a][to][x] + amount <= MaxBook
          /\ book' = Transferred(a, x, from, to, d.booked, amount)
    /\ UNCHANGED <<bankVars, link>>

\* swapExactInputSingle of the helper: it takes the whole amount in, the pool
\* takes the part it can trade and pays the account; the rest stays behind.
swapExactInputSingle(a, x, y, amountIn, used, amountOut) ==
    \E pulled \in Paid(World, x, a, UniswapHelper, amountIn) :
    \E traded \in Paid(pulled, x, UniswapHelper, Pool, used) :
    \E w \in Paid(traded, y, Pool, a, amountOut) : Commit(w)

SwappedUndebited(a, x, y, amountIn, amountOut) ==
    [book EXCEPT ![a][DefaultSub][y] = Wrapped(@ + amountOut)]
Swapped(a, x, y, amountIn, amountOut) ==
    LET debited == [book EXCEPT ![a][DefaultSub][x] = Wrapped(@ - amountIn)]
    IN  [debited EXCEPT ![a][DefaultSub][y] = Wrapped(@ + amountOut)]

InternalSwap(caller, a, x, y, amountIn, amountOutMin) ==
    /\ OnlyOwner(caller, a)
    /\ Bank!isAssetSupported(x) /\ Bank!isAssetSupported(y)
    /\ book[a][DefaultSub][x] >= amountIn
    /\ \E used \in 1 .. amountIn, amountOut \in amountOutMin .. token[y][Pool] :
          /\ swapExactInputSingle(a, x, y, amountIn, used, amountOut)
          /\ book[a][DefaultSub][y] + amountOut <= MaxBook
          /\ book' = Swapped(a, x, y, amountIn, amountOut)
    /\ UNCHANGED <<bankVars, link, vault>>

\* linkSubaccountToVault: the book of the vault's asset is invested and its
\* shares recorded; with an empty book the old share number stays.
LinkSubaccountToVault(caller, a, s, v) ==
    /\ OnlyOwner(caller, a)
    /\ s # DefaultSub
    /\ Bank!isVaultSupported(v)
    /\ LET balance == book[a][s][AssetOf[v]] IN
       IF balance = 0
       THEN /\ link' = [link EXCEPT ![a][s].vault = v]
            /\ UNCHANGED <<token, vault>>
       ELSE \E out \in Invested(World, a, v, balance) :
            /\ link' = [link EXCEPT ![a][s] = [vault |-> v, share |-> out.ret]]
            /\ Commit(VaultCalled(World, v, out))
    /\ UNCHANGED <<bankVars, book>>

-----------------------------------------------------------------------------
(* Everyone else *)

VaultCall(v, outcomes) ==
    /\ vaultOwner[v] # Nobody
    /\ \E out \in outcomes : Commit(VaultCalled(World, v, out))
    /\ UNCHANGED <<bankVars, book, link>>

Borrow(caller, v, amount) ==
    /\ caller = vaultOwner[v]
    /\ VaultCall(v, borrow(vault[v], token[AssetOf[v]], v, caller, amount))

Refund(caller, v, amountBorrowed, interests, losses) ==
    /\ caller = vaultOwner[v]
    /\ VaultCall(v, refund(vault[v], token[AssetOf[v]], v, caller,
                           amountBorrowed, interests, losses))

\* Users hold shares of their own, and may buy some for an account.
Invest(caller, v, amount, receiver) ==
    VaultCall(v, deposit(vault[v], token[AssetOf[v]], v, caller, amount, receiver))

Redeem(caller, v, shares) ==
    VaultCall(v, redeem(vault[v], token[AssetOf[v]], v, shares, caller, caller))

\* Tokens may be sent to any address without a call on it.
TokenTransfer(caller, x, to, amount) ==
    /\ \E w \in Paid(World, x, caller, to, amount) : Commit(w)
    /\ UNCHANGED <<bankVars, book, link>>

\* Who owns the Bank decides nothing that accounts read, so it stays with the
\* admin here.
BankCall ==
    /\ Bank!RegistryNext \/ Bank!NftNext
    /\ UNCHANGED <<book, link, token, vault>>

AccountCall(c) ==
    \E a \in Accounts, s \in SubIds :
        \/ \E x \in Assets, n \in Amounts :
              \/ Deposit(c, a, x, n, s)
              \/ Withdraw(c, a, x, n, s)
              \/ \E t \in SubIds : InternalTransfer(c, a, x, n, s, t)
              \/ \E y \in Assets \ {x}, min \in Amounts :
                    s = DefaultSub /\ InternalSwap(c, a, x, y, n, min)
        \/ \E v \in CeFiVaults : LinkSubaccountToVault(c, a, s, v)

OtherCall(c) ==
    \E n \in Amounts :
        \/ \E x \in Assets, h \in Donees : TokenTransfer(c, x, h, n)
        \/ \E v \in CeFiVaults :
              \/ Borrow(c, v, n)
              \/ \E i, l \in Amounts : Refund(c, v, n, i, l)
              \/ c \in Investors /\ \E r \in {c} \cup Accounts : Invest(c, v, n, r)
              \/ c \in Investors /\ Redeem(c, v, n)

Call(c) == AccountCall(c) \/ OtherCall(c)

Next == (\E c \in Users : Call(c)) \/ BankCall

Spec == Init /\ [][Next]_vars

-----------------------------------------------------------------------------
(* Properties *)

TypeOK ==
    /\ Bank!TypeOK
    /\ book \in [Accounts -> [SubIds -> [Assets -> Uint]]]
    /\ link \in [Accounts -> [SubIds -> [vault : CeFiVaults \cup {NoVault}, share : Uint]]]
    /\ token \in [Assets -> [Holders -> Nat]]
    /\ vault \in [CeFiVaults -> [totalSupply   : Uint,
                                 balanceOf     : [Holders -> Uint],
                                 borrowedFunds : Uint]]

\* What the account's books say: the books of an asset that no vault invests,
\* and the share numbers recorded for a vault.
IdleBooks(a, x) ==
    SumFunctionOnSet([s \in SubIds |-> book[a][s][x]],
                     { s \in SubIds : ~invests(link[a][s], x) })

RecordedShares(a, v) ==
    SumFunctionOnSet([s \in SubIds |-> link[a][s].share],
                     { s \in SubIds : link[a][s].vault = v })

IdleBacked(a, x) == IdleBooks(a, x) <= token[x][a]
SharesHeld(a, v) == RecordedShares(a, v) <= vault[v].balanceOf[a]

\* A sub-account that already has a vault is linked again, and money is
\* withdrawn or transferred out of a sub-account that a vault invests.
Relinks(a) ==
    \E c \in Users, s \in SubIds, v \in CeFiVaults :
        link[a][s].vault # NoVault /\ LinkSubaccountToVault(c, a, s, v)

DebitsLinked(a) ==
    \E c \in Users, s \in SubIds, x \in Assets, n \in Amounts :
        /\ invests(link[a][s], x)
        /\ \/ Withdraw(c, a, x, n, s)
           \/ \E t \in SubIds : InternalTransfer(c, a, x, n, s, t)

\* "users' savings [...] would remain secure" (README.md): whatever happens to
\* the vaults, an account holds the tokens its uninvested books promise.  Only
\* linking a sub-account a second time can break it.
IdleStaysBacked ==
    [][ \A a \in Accounts, x \in Assets :
          IdleBacked(a, x) => IdleBacked(a, x)' \/ Relinks(a) ]_vars

\* The share numbers of an account's sub-accounts are covered by the shares the
\* account holds at the vault; only a debit of a linked sub-account (its share
\* number stays as it was) or linking one a second time can break it.
SharesStayHeld ==
    [][ \A a \in Accounts, v \in CeFiVaults :
          SharesHeld(a, v) => SharesHeld(a, v)' \/ DebitsLinked(a) \/ Relinks(a) ]_vars

\* "The NFT owner is the only one allow to interact with the account": nobody but
\* the present owner can make a call that takes tokens out of an account, and they
\* go to the owner, for shares of a supported vault of that asset in the account's
\* name, or for at least what the owner asked of another asset.
PaidToOwner(a, x) ==
    LET n == token[x][a] - token'[x][a] IN
    nftOwner[a] \in Users /\ token'[x][nftOwner[a]] = token[x][nftOwner[a]] + n

PaidIntoVault(a, x) ==
    LET n == token[x][a] - token'[x][a] IN
    \E v \in supportedVaults :
        /\ AssetOf[v] = x
        /\ token'[x][v] = token[x][v] + n
        /\ vault'[v].balanceOf[a] > vault[v].balanceOf[a]

SwappedByOwner(a, x) ==
    \E y \in Assets, n, min \in Amounts :
        /\ InternalSwap(nftOwner[a], a, x, y, n, min)
        /\ token'[y][a] >= token[y][a] + min

OutflowIsTheOwners ==
    [][ \A a \in Accounts, x \in Assets :
          token'[x][a] < token[x][a] =>
            /\ \A c \in Users \ {nftOwner[a]} : ~ Call(c)
            /\ PaidToOwner(a, x) \/ PaidIntoVault(a, x) \/ SwappedByOwner(a, x) ]_vars

\* The checked subtraction share -= withdraw(amount) of updateVaultWithdraw never
\* panics: an amount the share redeems for never costs more than the share.
DebitNeverUnderflows ==
    \A a \in Accounts, s \in SubIds :
       LET v == link[a][s].vault IN
       v # NoVault =>
         \A newBalance \in previewRedeem(vault[v], Held(World, v), link[a][s].share),
            n \in 0 .. UintMax :
            n <= newBalance =>
              \A burnt \in previewWithdraw(vault[v], Held(World, v), n) :
                 burnt <= link[a][s].share

\* What a link invests can be taken out again: withdraw and internalTransfer check
\* the asset, linkSubaccountToVault only the vault, and the Bank sees that they fit.
LinkedAssetsSupported ==
    \A a \in Accounts, s \in SubIds :
        link[a][s].vault # NoVault => AssetOf[link[a][s].vault] \in supportedAssets

\* Accounts deal fairly with the users who hold shares of the same vault: no
\* transaction, not even an internalTransfer that withdraws and deposits again,
\* lowers what a share is worth.  Only a refund with a net loss does.
ReportsNetLoss(v) ==
    \E c \in Users, n, i, l \in Amounts : l > i /\ Refund(c, v, n, i, l)

SharePriceNeverFalls ==
    [][ \A v \in CeFiVaults :
          (\E h \in Users : vault[v].balanceOf[h] > 0) =>
          \/ Worth(vault[v], Held(World, v))' * vault[v].totalSupply
                >= Worth(vault[v], Held(World, v)) * vault'[v].totalSupply
          \/ ReportsNetLoss(v) ]_vars

\* Each vault, whoever calls it and whatever calls a transaction makes of it, is
\* the pool its holders bought into.
Fund(v) == INSTANCE SharePool WITH
    RatioPart <- MAX_BORROW_RATIO, RatioWhole <- BPS,
    cash   <- token[AssetOf[v]][v],
    lent   <- vault[v].borrowedFunds,
    supply <- vault[v].totalSupply,
    shares <- vault[v].balanceOf

EveryVaultIsAPool ==
    /\ \A v \in CeFiVaults : Fund(v)!Init
    /\ [][ \A v \in CeFiVaults : UNCHANGED Fund(v)!vars \/ Fund(v)!BatchNext ]_vars

-----------------------------------------------------------------------------
(* Statements of the documentation *)

\* "if the centralized entity encounters a failure, only the CeFi vaults would
\* be impacted.  As a result, users' savings [...] would remain secure".
IdleAlwaysBacked == \A a \in Accounts, x \in Assets : IdleBacked(a, x)

\* "Withdraw the given amount of the given asset from the given account": with
\* nothing lent out, what a sub-account has booked can be withdrawn.
BookedIsWithdrawable ==
    \A a \in Accounts, s \in SubIds, x \in Assets :
        LET info == link[a][s] IN
        /\ invests(info, x)
        /\ vault[info.vault].borrowedFunds = 0
        /\ book[a][s][x] > 0
        => updateVaultWithdraw(World, a, info, book[a][s][x]) # {}

\* "Transfer the given amount of the given asset from the _subaccountIdFrom to
\* the _subaccountIdTo": the books never promise more tokens than exist.
BookedFundsExist ==
    \A a \in Accounts, x \in Assets :
        SumFunction([s \in SubIds |-> book[a][s][x]]) <= SumFunction(InitialTokens[x])
=============================================================================
