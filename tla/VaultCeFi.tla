----------------------------- MODULE VaultCeFi ------------------------------
(***************************************************************************)
(* One VaultCeFi: an ERC4626 vault whose owner may borrow up to a share of *)
(* its assets and refunds them later with interest or losses.  A step is   *)
(* one transaction that succeeds; one that reverts changes nothing.        *)
(***************************************************************************)
EXTENDS ShareVault, Functions, FiniteSets

CONSTANTS
    Users,              \* callers: wallets, account contracts, the admin
    Self,               \* the vault's own address
    Admin,              \* _admin of the constructor
    NoOwner,            \* address(0) as owner
    InitialBalance,     \* underlying balance of every address at deployment
    Amounts,            \* bound: amounts passed to calls
    Approvals,          \* bound: amounts passed to approve
    NewOwners           \* bound: users that transferOwnership names

Addresses == Users \cup {Self}

ASSUME VaultAssumption ==
    /\ Self \notin Users
    /\ Admin \in Users
    /\ NoOwner \notin Users
    /\ InitialBalance \in [Addresses -> Uint]
    /\ Amounts \subseteq Uint
    /\ Approvals \subseteq Uint
    /\ NewOwners \subseteq Users

\* Addresses are finitely many.
ASSUME FiniteAssumption == IsFiniteSet(Users)

VARIABLES
    vault,       \* totalSupply, balanceOf, borrowedFunds
    allowance,   \* share allowances
    owner,       \* Ownable._owner
    bal          \* balances of the underlying token (its own contract)

vars == <<vault, allowance, owner, bal>>

Init ==
    /\ vault = EmptyVault(Addresses)
    /\ allowance = [h \in Addresses |-> [s \in Users |-> 0]]
    /\ owner = Admin
    /\ bal = InitialBalance

TotalAssets == Worth(vault, bal[Self])

Commit(out) == vault' = out.v /\ bal' = out.bal

-----------------------------------------------------------------------------
(* Share holders *)

\* A third party spends the holder's allowance; type(uint256).max is infinite.
SpendAllowance(holder, spender, shares) ==
    IF allowance[holder][spender] = UintMax
    THEN UNCHANGED allowance
    ELSE /\ allowance[holder][spender] >= shares
         /\ allowance' = [allowance EXCEPT ![holder][spender] = @ - shares]

SpendNothing(holder, caller, shares) == UNCHANGED allowance

SpendUnlessHolder(holder, caller, shares) ==
    IF caller = holder THEN UNCHANGED allowance
    ELSE SpendAllowance(holder, caller, shares)

Deposit(caller, assets, receiver) ==
    /\ \E out \in deposit(vault, bal, Self, caller, assets, receiver) : Commit(out)
    /\ UNCHANGED <<allowance, owner>>

Mint(caller, shares, receiver) ==
    /\ \E out \in mint(vault, bal, Self, caller, shares, receiver) : Commit(out)
    /\ UNCHANGED <<allowance, owner>>

Withdraw(caller, assets, receiver, holder) ==
    /\ \E out \in withdraw(vault, bal, Self, assets, receiver, holder) :
          /\ Commit(out)
          /\ SpendUnlessHolder(holder, caller, out.ret)
    /\ UNCHANGED owner

Redeem(caller, shares, receiver, holder) ==
    /\ \E out \in redeem(vault, bal, Self, shares, receiver, holder) : Commit(out)
    /\ SpendUnlessHolder(holder, caller, shares)
    /\ UNCHANGED owner

Transfer(caller, to, n) ==
    /\ vault' \in transfer(vault, caller, to, n)
    /\ UNCHANGED <<allowance, owner, bal>>

TransferFrom(caller, from, to, n) ==
    /\ SpendAllowance(from, caller, n)
    /\ vault' \in transfer(vault, from, to, n)
    /\ UNCHANGED <<owner, bal>>

Approve(caller, spender, n) ==
    /\ allowance' = [allowance EXCEPT ![caller][spender] = n]
    /\ UNCHANGED <<vault, owner, bal>>

-----------------------------------------------------------------------------
(* Owner *)

Borrow(caller, amount) ==
    /\ caller = owner
    /\ \E out \in borrow(vault, bal, Self, caller, amount) : Commit(out)
    /\ UNCHANGED <<allowance, owner>>

Refund(caller, amountBorrowed, interests, losses) ==
    /\ caller = owner
    /\ \E out \in refund(vault, bal, Self, caller, amountBorrowed, interests, losses) :
          Commit(out)
    /\ UNCHANGED <<allowance, owner>>

TransferOwnership(caller, newOwner) ==
    /\ caller = owner
    /\ owner' = newOwner
    /\ UNCHANGED <<vault, allowance, bal>>

RenounceOwnership(caller) ==
    /\ caller = owner
    /\ owner' = NoOwner
    /\ UNCHANGED <<vault, allowance, bal>>

-----------------------------------------------------------------------------
(* The underlying token moves without the vault being called, also into it. *)
TokenTransfer(caller, to, n) ==
    /\ CanPay(bal, caller, n)
    /\ bal' = Moved(bal, caller, to, n)
    /\ UNCHANGED <<vault, allowance, owner>>

HolderCall(c) ==
    \E n \in Amounts :
        \/ \E r \in Addresses :
              \/ Deposit(c, n, r)
              \/ Mint(c, n, r)
              \/ Transfer(c, r, n)
              \/ TokenTransfer(c, r, n)
        \/ \E r, h \in Addresses :
              \/ Withdraw(c, n, r, h)
              \/ Redeem(c, n, r, h)
              \/ TransferFrom(c, h, r, n)

OwnerCall(c) ==
    \/ \E n \in Amounts : Borrow(c, n)
    \/ \E n, i, l \in Amounts : Refund(c, n, i, l)
    \/ \E u \in NewOwners : TransferOwnership(c, u)
    \/ RenounceOwnership(c)

\* Every transaction is a call of somebody.
Call(c) ==
    \/ HolderCall(c)
    \/ \E s \in Users, n \in Approvals : Approve(c, s, n)
    \/ OwnerCall(c)

Next == \E c \in Users : Call(c)

Spec == Init /\ [][Next]_vars

-----------------------------------------------------------------------------
(* Properties *)

\* Every variable stays in its type: words are words although some updates are
\* unchecked, and the ownable slot holds a user or nobody.
VaultType == [totalSupply   : Uint,
              balanceOf     : [Addresses -> Uint],
              borrowedFunds : Uint]

TypeOK ==
    /\ vault \in VaultType
    /\ allowance \in [Addresses -> [Users -> Uint]]
    /\ owner \in Users \cup {NoOwner}
    /\ bal \in [Addresses -> Nat]

\* "A user's balance will never be larger than the total supply" and "the sum
\* of all user balances can't exceed the max uint256 value": what the unchecked
\* blocks of the share token's _mint, _burn and transfer rely on.
SharesWithinSupply ==
    \A g, h \in Addresses :
        /\ vault.balanceOf[h] <= vault.totalSupply
        /\ g # h => vault.balanceOf[g] + vault.balanceOf[h] <= vault.totalSupply

\* The share balances add up to totalSupply exactly (ERC20.sol: "the sum of all
\* user balances"), and in the form that is inductive for any set of holders.
SharesSumToSupply == SumFunction(vault.balanceOf) = vault.totalSupply

SharesAddUp == SumsTo(vault.balanceOf, vault.totalSupply)

\* Rounding favours the holders who stay: no deposit, withdrawal, transfer,
\* donation or loan ever lowers what a share is worth.  Only a refund that
\* reports more losses than interest does.
ReportsNetLoss ==
    \E c \in Users : \E n, i, l \in Amounts : l > i /\ Refund(c, n, i, l)

PriceHolds ==
    \/ vault.totalSupply = 0
    \/ Worth(vault', bal'[Self]) * vault.totalSupply >= TotalAssets * vault'.totalSupply
    \/ ReportsNetLoss

SharePriceNeverFalls == [][PriceHolds]_vars

\* Underlying leaves the vault only for burnt shares, or as a loan booked in
\* full in borrowedFunds and paid to the owner.
LentToOwner ==
    /\ vault'.borrowedFunds - vault.borrowedFunds = bal[Self] - bal'[Self]
    /\ owner \in Users
    /\ bal'[owner] - bal[owner] = bal[Self] - bal'[Self]

PaysForOutflow ==
    bal'[Self] < bal[Self] => \/ vault'.totalSupply < vault.totalSupply
                              \/ LentToOwner

OutflowIsPaidFor == [][PaysForOutflow]_vars

\* Depositing and redeeming at once never returns more than was put in, once
\* the vault has holders.
RoundTripNeverProfits ==
    vault.totalSupply > 0 =>
      \A c \in Users, n \in Amounts :
        \A in \in deposit(vault, bal, Self, c, n, c) :
        \A back \in redeem(in.v, in.bal, Self, in.ret, c, c) : back.ret <= n

\* With nothing lent out, every holder whose shares are worth something can
\* redeem all of them: the vault holds enough, and the burn does not revert.
HoldersCanLeave ==
    vault.borrowedFunds = 0 =>
      \A h \in Users :
        \A worth \in previewRedeem(vault, bal[Self], vault.balanceOf[h]) \ {0} :
          redeem(vault, bal, Self, vault.balanceOf[h], h, h) # {}

\* A loan leaves at most MAX_BORROW_RATIO / BPS of the vault's assets lent out,
\* the loans already out included.
LoanWithinRatio ==
    (\E c \in Users, n \in Amounts : Borrow(c, n)) =>
        vault'.borrowedFunds * BPS <= Worth(vault', bal'[Self]) * MAX_BORROW_RATIO

LoansRespectRatio == [][LoanWithinRatio]_vars

\* A call costs a holder shares only if the caller is the holder, or a spender the
\* holder approved, without limit or for as many shares as the approval of this
\* very caller then loses.
MayTake(c, h, shares) ==
    \/ c = h
    \/ allowance[h][c] = UintMax
    \/ allowance[h][c] - allowance'[h][c] = shares

MovesByConsent ==
    \A h \in Addresses :
        LET lost == vault.balanceOf[h] - vault'.balanceOf[h] IN
        lost > 0 => \A c \in Users : Call(c) => MayTake(c, h, lost)

SharesMoveByConsent == [][MovesByConsent]_vars

-----------------------------------------------------------------------------
(* What the vault implements *)

Pool == INSTANCE SharePool WITH
            Holders    <- Addresses,
            RatioPart  <- MAX_BORROW_RATIO,
            RatioWhole <- BPS,
            cash       <- bal[Self],
            lent       <- vault.borrowedFunds,
            supply     <- vault.totalSupply,
            shares     <- vault.balanceOf

\* Roundings, unchecked words, allowances and casts together deliver the pool of
\* SharePool: every transaction is one of its steps or none.
ImplementsSharePool == Pool!Spec
=============================================================================
