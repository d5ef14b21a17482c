---------------------------- MODULE AccounttProofs ----------------------------
(***************************************************************************)
(* Accounts and the vaults they share, proved for every number of users,   *)
(* accounts, sub-accounts and vaults.  A transaction of an account makes   *)
(* several calls; each is looked at on the token and vault storage the     *)
(* earlier ones left, and what they do to the price of a share composes.   *)
(***************************************************************************)
EXTENDS Accountt, ShareVaultLemmas

\* The calls of a step: on an account, and on anything else.
AccountNext == \E c \in Users : AccountCall(c)

OthersNext == \E c \in Users : OtherCall(c)

LEMMA NextCases == ASSUME Next PROVE AccountNext \/ OthersNext \/ BankCall
  BY DEF Next, Call, AccountNext, OthersNext

Ledger == [Holders -> Nat]
Worlds == [token : [Assets -> Ledger], vault : [CeFiVaults -> Store(Holders)]]

\* In every world of a transaction the shares of each vault add up to its supply.
Good(w) == w \in Worlds /\ \A v \in CeFiVaults : Sound(w.vault[v])

\* The parties are distinct.
LEMMA Parties ==
    /\ Users \subseteq Holders /\ Accounts \subseteq Holders /\ CeFiVaults \subseteq Holders
    /\ UniswapHelper \in Holders /\ Pool \in Holders
    /\ UniswapHelper \notin CeFiVaults /\ Pool \notin CeFiVaults
    /\ UniswapHelper \notin Accounts /\ Pool \notin Accounts /\ UniswapHelper # Pool
    /\ \A h \in Users \cup Accounts : h \notin CeFiVaults
    /\ \A a \in Accounts : a \notin Users
    /\ \A v \in CeFiVaults : AssetOf[v] \in Assets
  BY AccountAssumption DEF Holders

LEMMA AmountsAreWords == Amounts \subseteq Uint /\ Amounts \subseteq Nat /\ Uint \subseteq Nat
  BY AccountAssumption, UintMaxAssumption DEF Uint

\* What a vault call reads of a good world.
LEMMA GoodVault ==
    ASSUME NEW w, Good(w), NEW v \in CeFiVaults
    PROVE /\ w.vault[v] \in Store(Holders) /\ Sound(w.vault[v])
          /\ w.token[AssetOf[v]] \in Ledger
          /\ Held(w, v) = w.token[AssetOf[v]][v] /\ Held(w, v) \in Nat
          /\ w.vault[v].totalSupply \in Nat /\ Worth(w.vault[v], Held(w, v)) \in Nat
<1>1. w.vault[v] \in Store(Holders) /\ Sound(w.vault[v])
  BY DEF Good, Worlds
<1>2. w.token[AssetOf[v]] \in Ledger
  BY Parties DEF Good, Worlds
<1>3. Held(w, v) = w.token[AssetOf[v]][v] /\ Held(w, v) \in Nat
  BY <1>2, Parties DEF Held, Ledger
<1>. QED  BY <1>1, <1>2, <1>3, StoreOfNaturals, PreviewsAreNaturals

-----------------------------------------------------------------------------
(* The price of a share, from one world of a transaction to a later one *)

NoLoss(w, z, v) ==
    Worth(z.vault[v], Held(z, v)) * w.vault[v].totalSupply
        >= Worth(w.vault[v], Held(w, v)) * z.vault[v].totalSupply

UsersHold(w, v) == \E h \in Users : w.vault[v].balanceOf[h] > 0

\* Users keep their shares and none loses.  Without their shares the supply may
\* go through zero, where a price means nothing.
Fair(w, z) == \A v \in CeFiVaults : UsersHold(w, v) => UsersHold(z, v) /\ NoLoss(w, z, v)

\* Quotients that do not fall twice do not fall.
LEMMA QuotientsCompose ==
    ASSUME NEW a \in Nat, NEW b \in Nat, NEW c \in Nat, NEW d \in Nat, NEW e \in Nat,
           NEW f \in Nat, d > 0, c * b >= a * d, e * d >= c * f
    PROVE e * b >= a * f
<1>1. (e * d) * b >= (c * f) * b
  BY Z3
<1>2. (c * b) * f >= (a * d) * f
  BY Z3
<1>3. (e * b) * d >= (a * f) * d
  <2>1. (e * d) * b = (e * b) * d
    BY Z3
  <2>2. (c * f) * b = (c * b) * f
    BY Z3
  <2>3. (a * d) * f = (a * f) * d
    BY Z3
  <2>. QED  BY <1>1, <1>2, <2>1, <2>2, <2>3
<1>4. e * b \in Nat /\ a * f \in Nat
  OBVIOUS
<1>. DEFINE p == e * b
            q == a * f
<1>. HIDE DEF p, q
<1>5. p \in Nat /\ q \in Nat /\ p * d >= q * d
  BY <1>3, <1>4 DEF p, q
<1>6. p >= q
  BY <1>5, Z3
<1>. QED  BY <1>6 DEF p, q

\* A vault whose shares are held has a supply.
LEMMA HeldShareIsSupplied ==
    ASSUME NEW w, Good(w), NEW v \in CeFiVaults, UsersHold(w, v)
    PROVE w.vault[v].totalSupply > 0
<1>1. PICK h \in Users : w.vault[v].balanceOf[h] > 0
  BY DEF UsersHold
<1>2. /\ w.vault[v].balanceOf \in [Holders -> Nat] /\ w.vault[v].totalSupply \in Nat
      /\ h \in Holders
  BY GoodVault, StoreOfNaturals, Parties
<1>3. w.vault[v].balanceOf[h] <= w.vault[v].totalSupply
  BY <1>2, GoodVault, PartsWithinTotal DEF Sound
<1>. QED  BY <1>1, <1>2, <1>3

LEMMA FairComposes ==
    ASSUME NEW w, NEW x, NEW z, Good(w), Good(x), Good(z), Fair(w, x), Fair(x, z)
    PROVE Fair(w, z)
<1>. SUFFICES ASSUME NEW v \in CeFiVaults, UsersHold(w, v)
              PROVE UsersHold(z, v) /\ NoLoss(w, z, v)
  BY DEF Fair
<1>1. UsersHold(x, v) /\ UsersHold(z, v) /\ NoLoss(w, x, v) /\ NoLoss(x, z, v)
  BY DEF Fair
<1>2. x.vault[v].totalSupply > 0
  BY <1>1, HeldShareIsSupplied
<1>3. /\ w.vault[v].totalSupply \in Nat /\ Worth(w.vault[v], Held(w, v)) \in Nat
      /\ x.vault[v].totalSupply \in Nat /\ Worth(x.vault[v], Held(x, v)) \in Nat
      /\ z.vault[v].totalSupply \in Nat /\ Worth(z.vault[v], Held(z, v)) \in Nat
  BY GoodVault
<1>4. NoLoss(w, z, v)
  BY <1>1, <1>2, <1>3, QuotientsCompose DEF NoLoss
<1>. QED  BY <1>1, <1>4

\* More tokens at a vault, and no other change: a share is worth no less.
LEMMA RicherIsFair ==
    ASSUME NEW w, NEW z, Good(w), Good(z), z.vault = w.vault,
           \A v \in CeFiVaults : Held(z, v) >= Held(w, v)
    PROVE Fair(w, z)
<1>. SUFFICES ASSUME NEW v \in CeFiVaults, UsersHold(w, v)
              PROVE UsersHold(z, v) /\ NoLoss(w, z, v)
  BY DEF Fair
<1>. DEFINE S == w.vault[v].totalSupply
            W == Worth(w.vault[v], Held(w, v))
            X == Worth(z.vault[v], Held(z, v))
<1>1. S \in Nat /\ W \in Nat /\ X \in Nat
  BY GoodVault
<1>2. X >= W
  <2>1. w.vault[v].borrowedFunds \in Nat
    BY GoodVault, StoreOfNaturals
  <2>2. Held(z, v) \in Nat /\ Held(w, v) \in Nat /\ Held(z, v) >= Held(w, v)
    BY GoodVault
  <2>. QED  BY <2>1, <2>2 DEF Worth
<1>3. X * S >= W * S
  <2>. HIDE DEF S, W, X
  <2>. QED  BY <1>1, <1>2, Z3
<1>. QED  BY <1>3 DEF UsersHold, NoLoss

-----------------------------------------------------------------------------
(* The calls of a transaction *)

\* A payment of tokens, by anyone but a vault.
LEMMA PaidIsFair ==
    ASSUME NEW w, Good(w), NEW x \in Assets, NEW from \in Holders \ CeFiVaults,
           NEW to \in Holders, NEW n \in Nat, NEW z \in Paid(w, x, from, to, n)
    PROVE Good(z) /\ z.vault = w.vault /\ Fair(w, z)
<1>. DEFINE bal == Moved(w.token[x], from, to, n)
<1>1. CanPay(w.token[x], from, n) /\ z = [w EXCEPT !.token[x] = bal]
  BY DEF Paid
<1>2. w \in Worlds /\ w.token[x] \in Ledger
  BY DEF Good, Worlds
<1>3. /\ bal \in Ledger
      /\ \A h \in Holders \ {from} : bal[h] >= w.token[x][h]
  <2>1. w.token[x] \in [Holders -> Nat]
    BY <1>2 DEF Ledger
  <2>2. /\ bal \in Ledger
        /\ from = to => bal = w.token[x]
        /\ from # to => bal[to] = w.token[x][to] + n
        /\ \A h \in Holders \ {from, to} : bal[h] = w.token[x][h]
    BY <1>1, <2>1, MovedBalances DEF Ledger
  <2>3. \A h \in Holders : w.token[x][h] \in Nat
    BY <2>1
  <2>. QED  BY <2>2, <2>3
<1>. HIDE DEF bal
<1>4. /\ z \in Worlds /\ z.vault = w.vault /\ z.token[x] = bal
      /\ \A y \in Assets \ {x} : z.token[y] = w.token[y]
  BY <1>1, <1>2, <1>3 DEF Worlds
<1>5. Good(z)
  BY <1>4 DEF Good
<1>6. \A v \in CeFiVaults : Held(z, v) >= Held(w, v)
  <2>. TAKE v \in CeFiVaults
  <2>1. AssetOf[v] \in Assets /\ v \in Holders \ {from} /\ Held(w, v) \in Nat
    BY Parties, GoodVault
  <2>. QED  BY <1>3, <1>4, <2>1 DEF Held
<1>. QED  BY <1>4, <1>5, <1>6, RicherIsFair

\* What a call leaves at a vault v, and for the other vaults of the asset.
Outcome(w, v, out) ==
    /\ out.v \in Store(Holders) /\ Sound(out.v)
    /\ out.bal \in Ledger
    /\ \A u \in CeFiVaults \ {v} : out.bal[u] = w.token[AssetOf[v]][u]

LEMMA CallIsGood ==
    ASSUME NEW w, Good(w), NEW v \in CeFiVaults, NEW out, Outcome(w, v, out)
    PROVE LET z == VaultCalled(w, v, out) IN
          /\ Good(z)
          /\ z.vault[v] = out.v /\ Held(z, v) = out.bal[v]
          /\ \A u \in CeFiVaults \ {v} : z.vault[u] = w.vault[u] /\ Held(z, u) = Held(w, u)
<1>. DEFINE z == VaultCalled(w, v, out)
<1>1. AssetOf[v] \in Assets /\ \A u \in CeFiVaults : AssetOf[u] \in Assets
  BY Parties
<1>2. /\ w \in Worlds
      /\ w.token \in [Assets -> Ledger] /\ w.vault \in [CeFiVaults -> Store(Holders)]
  BY DEF Good, Worlds
<1>3. z.token = [w.token EXCEPT ![AssetOf[v]] = out.bal]
      /\ z.vault = [w.vault EXCEPT ![v] = out.v]
  BY DEF VaultCalled
<1>4. z.token \in [Assets -> Ledger] /\ z.vault \in [CeFiVaults -> Store(Holders)]
  BY <1>1, <1>2, <1>3 DEF Outcome
<1>5. z \in Worlds
  BY <1>4 DEF VaultCalled, Worlds
<1>6. z.vault[v] = out.v /\ \A u \in CeFiVaults \ {v} : z.vault[u] = w.vault[u]
  BY <1>2, <1>3
<1>7. Good(z)
  BY <1>5, <1>6 DEF Good, Outcome
<1>8. Held(z, v) = out.bal[v]
  BY <1>1, <1>2, <1>3 DEF Held
<1>9. \A u \in CeFiVaults \ {v} : Held(z, u) = Held(w, u)
  <2>. TAKE u \in CeFiVaults \ {v}
  <2>1. CASE AssetOf[u] = AssetOf[v]
    BY <1>1, <1>2, <1>3, <2>1 DEF Held, Outcome
  <2>2. CASE AssetOf[u] # AssetOf[v]
    BY <1>1, <1>2, <1>3, <2>2 DEF Held
  <2>. QED  BY <2>1, <2>2
<1>. QED  BY <1>6, <1>7, <1>8, <1>9

\* The other vaults of a call are untouched by it.
LEMMA CallElsewhere ==
    ASSUME NEW w, Good(w), NEW v \in CeFiVaults, NEW out, Outcome(w, v, out),
           NEW u \in CeFiVaults \ {v}
    PROVE LET z == VaultCalled(w, v, out)
          IN  (UsersHold(w, u) => UsersHold(z, u)) /\ NoLoss(w, z, u)
<1>. DEFINE z == VaultCalled(w, v, out)
<1>1. z.vault[u] = w.vault[u] /\ Held(z, u) = Held(w, u)
  BY CallIsGood
<1>2. w.vault[u].totalSupply \in Nat /\ Worth(w.vault[u], Held(w, u)) \in Nat
  BY GoodVault
<1>. QED  BY <1>1, <1>2 DEF UsersHold, NoLoss

\* Its vault, when a share loses nothing.
LEMMA CallHere ==
    ASSUME NEW w, Good(w), NEW v \in CeFiVaults, NEW out, Outcome(w, v, out),
           w.vault[v].totalSupply # 0 => NoShareLoses(w.vault[v], w.token[AssetOf[v]], v, out)
    PROVE UsersHold(w, v) => NoLoss(w, VaultCalled(w, v, out), v)
<1>. DEFINE z == VaultCalled(w, v, out)
<1>1. z.vault[v] = out.v /\ Held(z, v) = out.bal[v]
  BY CallIsGood
<1>2. UsersHold(w, v) => w.vault[v].totalSupply # 0
  <2>1. w.vault[v].totalSupply \in Nat
    BY GoodVault
  <2>. QED  BY <2>1, HeldShareIsSupplied
<1>. QED  BY <1>1, <1>2, GoodVault DEF NoLoss, NoShareLoses

-----------------------------------------------------------------------------
(* An account's calls *)

\* A deposit for an account, by the account or by a user.
LEMMA InvestedIsFair ==
    ASSUME NEW w, Good(w), NEW v \in CeFiVaults, NEW c \in Users \cup Accounts,
           NEW receiver \in Holders, NEW n \in Nat,
           NEW out \in deposit(w.vault[v], w.token[AssetOf[v]], v, c, n, receiver)
    PROVE /\ Good(VaultCalled(w, v, out)) /\ Fair(w, VaultCalled(w, v, out))
          /\ out.ret \in Uint
<1>. DEFINE s == w.vault[v]
            bal == w.token[AssetOf[v]]
            z == VaultCalled(w, v, out)
<1>1. /\ c \in Holders /\ c # v /\ c \notin CeFiVaults /\ v \in Holders
      /\ s \in Store(Holders) /\ Sound(s) /\ bal \in [Holders -> Nat]
  BY Parties, GoodVault DEF Ledger
<1>2. EntryFacts(s, bal, v, c, receiver, n, out.ret, out)
  BY <1>1, DepositOutcome
<1>3. /\ out.v \in Store(Holders) /\ out.bal \in [Holders -> Nat]
      /\ out.v.totalSupply = s.totalSupply + out.ret
      /\ Sound(out.v)
      /\ out.v.balanceOf = Raised(s.balanceOf, receiver, out.ret)
      /\ s.totalSupply # 0 => NoShareLoses(s, bal, v, out)
  BY <1>1, <1>2, EntryEffect
<1>4. out.ret \in Nat /\ CanPay(bal, c, n) /\ out.bal = Moved(bal, c, v, n)
  BY <1>2 DEF EntryFacts
<1>5. Outcome(w, v, out)
  <2>. HIDE DEF s, bal
  <2>1. \A h \in Holders \ {c, v} : out.bal[h] = bal[h]
    BY <1>1, <1>4, MovedBalances
  <2>. QED  BY <1>1, <1>3, <2>1, Parties DEF Outcome, Ledger, s, bal
<1>6. out.ret \in Uint
  <2>1. /\ s.totalSupply \in Nat /\ out.v.totalSupply \in Nat
        /\ out.v.totalSupply <= UintMax
    BY <1>1, <1>3, StoreOfNaturals
  <2>. QED  BY <1>3, <1>4, <2>1, UintMaxAssumption DEF Uint
<1>7. UsersHold(w, v) => UsersHold(z, v)
  <2>. SUFFICES ASSUME NEW h \in Users, s.balanceOf[h] > 0 PROVE z.vault[v].balanceOf[h] > 0
    BY DEF UsersHold
  <2>1. h \in Holders /\ s.balanceOf \in [Holders -> Nat]
    BY <1>1, Parties, StoreOfNaturals
  <2>2. Raised(s.balanceOf, receiver, out.ret)[h] >= s.balanceOf[h]
    BY <1>4, <2>1 DEF Raised
  <2>3. Raised(s.balanceOf, receiver, out.ret)[h] \in Nat
    BY <1>4, <2>1 DEF Raised
  <2>. QED  BY <1>3, <1>5, <2>1, <2>2, <2>3, CallIsGood
<1>8. UsersHold(w, v) => NoLoss(w, z, v)
  BY <1>3, <1>5, CallHere
<1>9. Fair(w, z)
  BY <1>5, <1>7, <1>8, CallElsewhere DEF Fair
<1>. QED  BY <1>5, <1>6, <1>9, CallIsGood

\* A withdrawal of an account's own shares.
LEMMA WithdrawnIsFair ==
    ASSUME NEW w, Good(w), NEW v \in CeFiVaults, NEW a \in Accounts, NEW n \in Nat,
           NEW out \in withdraw(w.vault[v], w.token[AssetOf[v]], v, n, a, a)
    PROVE Good(VaultCalled(w, v, out)) /\ Fair(w, VaultCalled(w, v, out))
<1>. DEFINE s == w.vault[v]
            bal == w.token[AssetOf[v]]
            z == VaultCalled(w, v, out)
<1>1. /\ a \in Holders /\ a \notin CeFiVaults /\ v \in Holders
      /\ s \in Store(Holders) /\ Sound(s) /\ bal \in [Holders -> Nat]
  BY Parties, GoodVault DEF Ledger
<1>2. ExitFacts(s, bal, v, a, a, n, out.ret, out)
  BY <1>1, WithdrawOutcome
<1>3. /\ out.v \in Store(Holders) /\ out.bal \in [Holders -> Nat]
      /\ Sound(out.v)
      /\ out.v.balanceOf = Lowered(s.balanceOf, a, out.ret)
      /\ s.totalSupply # 0 => NoShareLoses(s, bal, v, out)
  BY <1>1, <1>2, ExitEffect
<1>4. CanPay(bal, v, n) /\ out.bal = Moved(bal, v, a, n)
  BY <1>2 DEF ExitFacts
<1>5. Outcome(w, v, out)
  <2>1. \A h \in Holders \ {a, v} : out.bal[h] = bal[h]
    BY <1>1, <1>4, MovedBalances
  <2>. QED  BY <1>1, <1>3, <2>1, Parties DEF Outcome, Ledger
<1>6. UsersHold(w, v) => UsersHold(z, v)
  <2>. SUFFICES ASSUME NEW h \in Users, s.balanceOf[h] > 0 PROVE z.vault[v].balanceOf[h] > 0
    BY DEF UsersHold
  <2>1. h # a /\ h \in Holders /\ s.balanceOf \in [Holders -> Nat]
    BY <1>1, Parties, StoreOfNaturals
  <2>2. Lowered(s.balanceOf, a, out.ret)[h] = s.balanceOf[h]
    BY <2>1 DEF Lowered
  <2>. QED  BY <1>3, <1>5, <2>2, CallIsGood
<1>7. UsersHold(w, v) => NoLoss(w, z, v)
  BY <1>3, <1>5, CallHere
<1>8. Fair(w, z)
  BY <1>5, <1>6, <1>7, CallElsewhere DEF Fair
<1>. QED  BY <1>5, <1>8, CallIsGood

\* Both branches of a debit and of a credit.
LinkType == [vault : CeFiVaults \cup {NoVault}, share : Uint]

LEMMA LinkedVault ==
    ASSUME NEW info \in LinkType, NEW x, invests(info, x)
    PROVE info.vault \in CeFiVaults /\ info.share \in Uint /\ info.share \in Nat
  BY AmountsAreWords DEF LinkType, invests

LEMMA CreditedIsFair ==
    ASSUME NEW w, Good(w), NEW a \in Accounts, NEW info \in LinkType, NEW x,
           NEW n \in Nat, NEW z \in Credited(w, a, info, x, n)
    PROVE Good(z) /\ Fair(w, z)
<1>1. CASE invests(info, x)
  <2>1. PICK out \in Invested(w, a, info.vault, n) : z = VaultCalled(w, info.vault, out)
    BY <1>1 DEF Credited, updateVaultDeposit
  <2>2. out \in deposit(w.vault[info.vault], w.token[AssetOf[info.vault]], info.vault, a, n, a)
    BY <2>1 DEF Invested
  <2>3. info.vault \in CeFiVaults /\ a \in Holders
    BY <1>1, LinkedVault, Parties
  <2>. QED  BY <2>1, <2>2, <2>3, InvestedIsFair
<1>2. CASE ~invests(info, x)
  <2>1. z = w
    BY <1>2 DEF Credited
  <2>. QED  BY <2>1, GoodVault, RicherIsFair
<1>. QED  BY <1>1, <1>2

LEMMA DebitedIsFair ==
    ASSUME NEW w, Good(w), NEW a \in Accounts, NEW info \in LinkType, NEW x,
           NEW n \in Nat, NEW booked \in Nat, NEW d \in Debited(w, a, info, x, n, booked)
    PROVE Good(d.world) /\ Fair(w, d.world) /\ (booked \in Uint => d.booked \in Uint)
<1>1. CASE invests(info, x)
  <2>. DEFINE v == info.vault
  <2>1. v \in CeFiVaults /\ info.share \in Uint
    BY <1>1, LinkedVault
  <2>2. PICK rest \in previewRedeem(w.vault[v], Held(w, v), info.share) :
            /\ rest >= n
            /\ \E out \in withdraw(w.vault[v], w.token[AssetOf[v]], v, n, a, a) :
                  d = [world |-> VaultCalled(w, v, out), booked |-> rest - n]
    BY <1>1 DEF Debited, updateVaultWithdraw
  <2>3. PICK out \in withdraw(w.vault[v], w.token[AssetOf[v]], v, n, a, a) :
            d = [world |-> VaultCalled(w, v, out), booked |-> rest - n]
    BY <2>2
  <2>4. rest \in Uint
    BY <2>1, GoodVault, PreviewRedeemIsUint
  <2>5. rest - n \in Uint
    BY <2>2, <2>4, UintMaxAssumption DEF Uint
  <2>. QED  BY <2>1, <2>3, <2>5, WithdrawnIsFair
<1>2. CASE ~invests(info, x)
  <2>1. d.world = w /\ d.booked \in Uint
    BY <1>2 DEF Debited, Checked
  <2>. QED  BY <2>1, GoodVault, RicherIsFair
<1>. QED  BY <1>1, <1>2

-----------------------------------------------------------------------------
(* The invariant *)

BooksType == book \in [Accounts -> [SubIds -> [Assets -> Uint]]]
LinksType == link \in [Accounts -> [SubIds -> LinkType]]

\* TypeOK without the Bank's part, whose proof is its own, and with the sums.
IInv == Good(World) /\ BooksType /\ LinksType

\* What a step has to show.
StepIsFair ==
    \A v \in CeFiVaults : UsersHold(World, v) => NoLoss(World, World', v) \/ ReportsNetLoss(v)

Kept == IInv' /\ StepIsFair

LEMMA CommitIsFair ==
    ASSUME NEW z, Good(z), Fair(World, z), Commit(z)
    PROVE Good(World)' /\ StepIsFair
<1>1. World' = z
  BY DEF World, Commit, Good, Worlds
<1>. QED  BY <1>1 DEF Fair, StepIsFair

LEMMA BooksAreWords ==
    ASSUME IInv, NEW a \in Accounts, NEW s \in SubIds
    PROVE /\ \A x \in Assets : book[a][s][x] \in Uint /\ book[a][s][x] \in Nat
          /\ link[a][s] \in LinkType
<1>1. book[a] \in [SubIds -> [Assets -> Uint]] /\ link[a] \in [SubIds -> LinkType]
  BY DEF IInv, BooksType, LinksType
<1>2. book[a][s] \in [Assets -> Uint]
  BY <1>1
<1>. QED  BY <1>1, <1>2, AmountsAreWords

\* A book written with a word.
LEMMA BookWritten ==
    ASSUME NEW f \in [Accounts -> [SubIds -> [Assets -> Uint]]], NEW a \in Accounts,
           NEW s \in SubIds, NEW x \in Assets, NEW n \in Uint
    PROVE [f EXCEPT ![a][s][x] = n] \in [Accounts -> [SubIds -> [Assets -> Uint]]]
  OBVIOUS

LEMMA DepositKeeps ==
    ASSUME IInv, NEW c \in Users, NEW a \in Accounts, NEW s \in SubIds, NEW x \in Assets,
           NEW n \in Amounts, Deposit(c, a, x, n, s)
    PROVE Kept
<1>1. PICK p \in Paid(World, x, c, a, n) :
          \E z \in Credited(p, a, link[a][s], x, n) : Commit(z)
  BY DEF Deposit
<1>2. n \in Nat /\ c \in Holders \ CeFiVaults /\ a \in Holders /\ link[a][s] \in LinkType
      /\ Good(World)
  BY AmountsAreWords, Parties, BooksAreWords DEF IInv
<1>3. Good(p) /\ Fair(World, p)
  BY <1>2, PaidIsFair
<1>4. PICK z \in Credited(p, a, link[a][s], x, n) : Commit(z)
  BY <1>1
<1>5. Good(z) /\ Fair(World, z)
  BY <1>2, <1>3, CreditedIsFair, FairComposes
<1>6. BooksType'
  <2>1. Wrapped(book[a][s][x] + n) \in Uint
    BY <1>2, BooksAreWords, WrappedIsUint
  <2>2. book' = [book EXCEPT ![a][s][x] = Wrapped(book[a][s][x] + n)]
    BY DEF Deposit
  <2>. QED  BY <2>1, <2>2, BookWritten DEF IInv, BooksType
<1>7. LinksType'
  BY DEF Deposit, IInv, LinksType
<1>. QED  BY <1>4, <1>5, <1>6, <1>7, CommitIsFair DEF Kept, IInv

LEMMA WithdrawKeeps ==
    ASSUME IInv, NEW c \in Users, NEW a \in Accounts, NEW s \in SubIds, NEW x \in Assets,
           NEW n \in Amounts, Withdraw(c, a, x, n, s)
    PROVE Kept
<1>1. PICK d \in Debited(World, a, link[a][s], x, n, book[a][s][x]) :
          /\ \E z \in Paid(d.world, x, a, c, n) : Commit(z)
          /\ book' = [book EXCEPT ![a][s][x] = d.booked]
  BY DEF Withdraw
<1>2. n \in Nat /\ c \in Holders /\ a \in Holders \ CeFiVaults /\ link[a][s] \in LinkType
      /\ Good(World) /\ book[a][s][x] \in Uint /\ book[a][s][x] \in Nat
  BY AmountsAreWords, Parties, BooksAreWords DEF IInv
<1>3. Good(d.world) /\ Fair(World, d.world) /\ d.booked \in Uint
  BY <1>2, DebitedIsFair
<1>4. PICK z \in Paid(d.world, x, a, c, n) : Commit(z)
  BY <1>1
<1>5. Good(z) /\ Fair(World, z)
  BY <1>2, <1>3, PaidIsFair, FairComposes
<1>6. BooksType'
  BY <1>1, <1>3, BookWritten DEF IInv, BooksType
<1>7. LinksType'
  BY DEF Withdraw, IInv, LinksType
<1>. QED  BY <1>4, <1>5, <1>6, <1>7, CommitIsFair DEF Kept, IInv

\* Out of one vault and into another, or into the same.
LEMMA InternalTransferKeeps ==
    ASSUME IInv, NEW c \in Users, NEW a \in Accounts, NEW s \in SubIds, NEW t \in SubIds,
           NEW x \in Assets, NEW n \in Amounts, InternalTransfer(c, a, x, n, s, t)
    PROVE Kept
<1>1. PICK d \in Debited(World, a, link[a][s], x, n, book[a][s][x]) :
          /\ \E z \in Credited(d.world, a, link[a][t], x, n) : Commit(z)
          /\ book' = Transferred(a, x, s, t, d.booked, n)
  BY DEF InternalTransfer
<1>2. n \in Nat /\ link[a][s] \in LinkType /\ link[a][t] \in LinkType
      /\ Good(World) /\ book[a][s][x] \in Uint /\ book[a][s][x] \in Nat
  BY AmountsAreWords, BooksAreWords DEF IInv
<1>3. Good(d.world) /\ Fair(World, d.world) /\ d.booked \in Uint
  BY <1>2, DebitedIsFair
<1>4. PICK z \in Credited(d.world, a, link[a][t], x, n) : Commit(z)
  BY <1>1
<1>5. Good(z) /\ Fair(World, z)
  BY <1>2, <1>3, CreditedIsFair, FairComposes
<1>6. BooksType'
  <2>. DEFINE debited == [book EXCEPT ![a][s][x] = d.booked]
  <2>1. debited \in [Accounts -> [SubIds -> [Assets -> Uint]]]
    BY <1>3, BookWritten DEF IInv, BooksType
  <2>2. book' = [debited EXCEPT ![a][t][x] = Wrapped(debited[a][t][x] + n)]
    BY <1>1 DEF Transferred
  <2>. HIDE DEF debited
  <2>3. debited[a][t][x] \in Uint
    BY <2>1
  <2>4. Wrapped(debited[a][t][x] + n) \in Uint
    BY <1>2, <2>3, AmountsAreWords, WrappedIsUint
  <2>. QED  BY <2>1, <2>2, <2>4, BookWritten DEF BooksType
<1>7. LinksType'
  BY DEF InternalTransfer, IInv, LinksType
<1>. QED  BY <1>4, <1>5, <1>6, <1>7, CommitIsFair DEF Kept, IInv

LEMMA InternalSwapKeeps ==
    ASSUME IInv, NEW c \in Users, NEW a \in Accounts, NEW x \in Assets, NEW y \in Assets,
           NEW n \in Amounts, NEW min \in Amounts, InternalSwap(c, a, x, y, n, min)
    PROVE Kept
<1>1. PICK used \in 1 .. n, amountOut \in min .. token[y][Pool] :
          /\ swapExactInputSingle(a, x, y, n, used, amountOut)
          /\ book' = Swapped(a, x, y, n, amountOut)
  BY DEF InternalSwap
<1>2. /\ a \in Holders \ CeFiVaults /\ UniswapHelper \in Holders \ CeFiVaults
      /\ Pool \in Holders \ CeFiVaults /\ Good(World)
  BY Parties DEF IInv
<1>3. n \in Nat /\ min \in Nat
  BY AmountsAreWords
<1>4. used \in Nat /\ amountOut \in Nat
  <2>1. World \in Worlds
    BY <1>2 DEF Good
  <2>2. token \in [Assets -> [Holders -> Nat]]
    BY <2>1 DEF World, Worlds, Ledger
  <2>3. token[y][Pool] \in Nat
    BY <1>2, <2>2
  <2>. QED  BY <1>3, <2>3
<1>5. PICK pulled \in Paid(World, x, a, UniswapHelper, n) :
          \E traded \in Paid(pulled, x, UniswapHelper, Pool, used) :
              \E z \in Paid(traded, y, Pool, a, amountOut) : Commit(z)
  BY <1>1 DEF swapExactInputSingle
<1>6. PICK traded \in Paid(pulled, x, UniswapHelper, Pool, used) :
          \E z \in Paid(traded, y, Pool, a, amountOut) : Commit(z)
  BY <1>5
<1>7. PICK z \in Paid(traded, y, Pool, a, amountOut) : Commit(z)
  BY <1>6
<1>8. Good(pulled) /\ Fair(World, pulled)
  BY <1>2, <1>3, PaidIsFair
<1>9. Good(traded) /\ Fair(World, traded)
  BY <1>2, <1>4, <1>8, PaidIsFair, FairComposes
<1>10. Good(z) /\ Fair(World, z)
  BY <1>2, <1>4, <1>9, PaidIsFair, FairComposes
<1>11. BooksType'
  <2>. DEFINE debited == [book EXCEPT ![a][DefaultSub][x] = Wrapped(book[a][DefaultSub][x] - n)]
  <2>1. DefaultSub \in SubIds
    BY AccountAssumption
  <2>2. Wrapped(book[a][DefaultSub][x] - n) \in Uint
    BY <1>3, <2>1, BooksAreWords, WrappedIsUint
  <2>3. debited \in [Accounts -> [SubIds -> [Assets -> Uint]]]
    BY <2>1, <2>2, BookWritten DEF IInv, BooksType
  <2>4. book' = [debited EXCEPT ![a][DefaultSub][y] = Wrapped(debited[a][DefaultSub][y] + amountOut)]
    BY <1>1 DEF Swapped
  <2>. HIDE DEF debited
  <2>5. debited[a][DefaultSub][y] \in Uint
    BY <2>1, <2>3
  <2>6. Wrapped(debited[a][DefaultSub][y] + amountOut) \in Uint
    BY <1>4, <2>5, AmountsAreWords, WrappedIsUint
  <2>. QED  BY <2>1, <2>3, <2>4, <2>6, BookWritten DEF BooksType
<1>12. LinksType'
  BY DEF InternalSwap, IInv, LinksType
<1>. QED  BY <1>7, <1>10, <1>11, <1>12, CommitIsFair DEF Kept, IInv

\* Linking invests the whole book of the vault's asset, which is a word.
LEMMA LinkKeeps ==
    ASSUME IInv, NEW c \in Users, NEW a \in Accounts, NEW s \in SubIds,
           NEW v \in CeFiVaults, LinkSubaccountToVault(c, a, s, v)
    PROVE Kept
<1>. DEFINE balance == book[a][s][AssetOf[v]]
<1>1. Good(World) /\ balance \in Nat /\ link[a][s] \in LinkType /\ a \in Holders
  BY Parties, BooksAreWords DEF IInv
<1>2. BooksType'
  BY DEF LinkSubaccountToVault, IInv, BooksType
<1>3. ASSUME NEW info \in LinkType, link' = [link EXCEPT ![a][s] = info] PROVE LinksType'
  BY <1>3 DEF IInv, LinksType
<1>4. CASE balance = 0
  <2>. DEFINE info == [link[a][s] EXCEPT !.vault = v]
  <2>1. info \in LinkType /\ link' = [link EXCEPT ![a][s] = info]
    BY <1>1, <1>4 DEF LinkSubaccountToVault, LinkType
  <2>2. LinksType'
    BY <2>1, <1>3
  <2>3. Commit(World) /\ Fair(World, World)
    BY <1>1, <1>4, GoodVault, RicherIsFair DEF LinkSubaccountToVault, Commit, World
  <2>. QED  BY <1>1, <1>2, <2>2, <2>3, CommitIsFair DEF Kept, IInv
<1>5. CASE balance # 0
  <2>1. PICK out \in Invested(World, a, v, balance) :
            /\ link' = [link EXCEPT ![a][s] = [vault |-> v, share |-> out.ret]]
            /\ Commit(VaultCalled(World, v, out))
    BY <1>5 DEF LinkSubaccountToVault
  <2>2. out \in deposit(World.vault[v], World.token[AssetOf[v]], v, a, balance, a)
    BY <2>1 DEF Invested
  <2>3. /\ Good(VaultCalled(World, v, out)) /\ Fair(World, VaultCalled(World, v, out))
        /\ out.ret \in Uint
    BY <1>1, <2>2, InvestedIsFair
  <2>4. [vault |-> v, share |-> out.ret] \in LinkType
    BY <2>3 DEF LinkType
  <2>5. LinksType'
    BY <2>1, <2>4, <1>3
  <2>. QED  BY <1>2, <2>1, <2>3, <2>5, CommitIsFair DEF Kept, IInv
<1>. QED  BY <1>4, <1>5

-----------------------------------------------------------------------------
(* The calls of others *)

\* A call of a vault on its own: no other vault changes.
LEMMA VaultCallKeeps ==
    ASSUME IInv, NEW v \in CeFiVaults, NEW out, Outcome(World, v, out),
           Commit(VaultCalled(World, v, out)), UNCHANGED <<book, link>>,
           \/ World.vault[v].totalSupply # 0 =>
                 NoShareLoses(World.vault[v], World.token[AssetOf[v]], v, out)
           \/ ReportsNetLoss(v)
    PROVE Kept
<1>. DEFINE z == VaultCalled(World, v, out)
<1>1. Good(World) /\ Good(z)
  BY CallIsGood DEF IInv
<1>2. World' = z
  BY DEF World, Commit, VaultCalled
<1>3. \A u \in CeFiVaults \ {v} : NoLoss(World, z, u)
  BY <1>1, CallElsewhere
<1>4. (UsersHold(World, v) => NoLoss(World, z, v)) \/ ReportsNetLoss(v)
  BY <1>1, CallHere
<1>5. StepIsFair
  BY <1>2, <1>3, <1>4 DEF StepIsFair
<1>6. BooksType' /\ LinksType'
  BY DEF IInv, BooksType, LinksType
<1>. QED  BY <1>1, <1>2, <1>5, <1>6 DEF Kept, IInv

\* What the vault calls of others need of the invariant.
LEMMA OwnVault ==
    ASSUME IInv, NEW v \in CeFiVaults, NEW c \in Users
    PROVE /\ Good(World) /\ v \in Holders /\ c \in Holders \ {v} /\ c \notin CeFiVaults
          /\ World.vault[v] = vault[v] /\ World.token[AssetOf[v]] = token[AssetOf[v]]
          /\ vault[v] \in Store(Holders) /\ Sound(vault[v])
          /\ token[AssetOf[v]] \in [Holders -> Nat]
<1>1. Good(World)
  BY DEF IInv
<1>2. World.vault[v] = vault[v] /\ World.token[AssetOf[v]] = token[AssetOf[v]]
  BY DEF World
<1>. QED  BY <1>1, <1>2, Parties, GoodVault DEF Ledger

\* Tokens move between the vault and someone who is no vault.
LEMMA OutcomeOf ==
    ASSUME IInv, NEW v \in CeFiVaults, NEW h \in Holders, h \notin CeFiVaults, NEW n \in Nat,
           NEW from \in {v, h}, NEW to \in {v, h}, NEW out,
           CanPay(token[AssetOf[v]], from, n),
           out.bal = Moved(token[AssetOf[v]], from, to, n),
           out.v \in Store(Holders), Sound(out.v)
    PROVE Outcome(World, v, out)
<1>. DEFINE bal == token[AssetOf[v]]
<1>1. /\ bal \in [Holders -> Nat] /\ from \in Holders /\ to \in Holders
      /\ World.token[AssetOf[v]] = bal
  <2>1. World \in Worlds /\ AssetOf[v] \in Assets /\ v \in Holders
    BY Parties DEF IInv, Good
  <2>. QED  BY <2>1 DEF World, Worlds, Ledger
<1>2. CanPay(bal, from, n) /\ out.bal = Moved(bal, from, to, n)
  OBVIOUS
<1>. HIDE DEF bal
<1>3. out.bal \in [Holders -> Nat] /\ \A g \in Holders \ {from, to} : out.bal[g] = bal[g]
  BY <1>1, <1>2, MovedBalances
<1>4. \A u \in CeFiVaults \ {v} : out.bal[u] = bal[u]
  BY <1>3, Parties
<1>. QED  BY <1>1, <1>3, <1>4 DEF Outcome, Ledger

LEMMA BorrowKeeps ==
    ASSUME IInv, NEW c \in Users, NEW v \in CeFiVaults, NEW n \in Amounts, Borrow(c, v, n)
    PROVE Kept
<1>. DEFINE s == vault[v]
            bal == token[AssetOf[v]]
<1>1. PICK out \in borrow(s, bal, v, c, n) : Commit(VaultCalled(World, v, out))
  BY DEF Borrow, VaultCall
<1>2. n \in Nat /\ UNCHANGED <<book, link>>
  BY AmountsAreWords DEF Borrow, VaultCall
<1>3. /\ out.v \in Store(Holders) /\ out.v.totalSupply = s.totalSupply
      /\ out.v.balanceOf = s.balanceOf
      /\ Worth(out.v, out.bal[v]) = Worth(s, bal[v])
  BY <1>2, OwnVault, BorrowEffect
<1>4. Sound(out.v)
  BY <1>3, OwnVault DEF Sound
<1>5. CanPay(bal, v, n) /\ out.bal = Moved(bal, v, c, n)
  BY DEF borrow
<1>6. Outcome(World, v, out)
  BY <1>2, <1>3, <1>4, <1>5, OwnVault, OutcomeOf
<1>7. NoShareLoses(s, bal, v, out)
  <2>1. s.totalSupply \in Nat /\ Worth(s, bal[v]) \in Nat
    BY OwnVault, GoodVault DEF Held
  <2>. QED  BY <1>3, <2>1 DEF NoShareLoses
<1>. QED  BY <1>1, <1>2, <1>6, <1>7, OwnVault, VaultCallKeeps

LEMMA RefundKeeps ==
    ASSUME IInv, NEW c \in Users, NEW v \in CeFiVaults, NEW n \in Amounts, NEW i \in Amounts,
           NEW l \in Amounts, Refund(c, v, n, i, l)
    PROVE Kept
<1>. DEFINE s == vault[v]
            bal == token[AssetOf[v]]
<1>1. PICK out \in refund(s, bal, v, c, n, i, l) : Commit(VaultCalled(World, v, out))
  BY DEF Refund, VaultCall
<1>2. n \in Uint /\ i \in Uint /\ l \in Uint /\ i \in Nat /\ l \in Nat /\ UNCHANGED <<book, link>>
  BY AmountsAreWords DEF Refund, VaultCall
<1>3. /\ out.v \in Store(Holders) /\ out.v.totalSupply = s.totalSupply
      /\ out.v.balanceOf = s.balanceOf
      /\ out.bal \in [Holders -> Nat]
      /\ l <= i => Worth(out.v, out.bal[v]) >= Worth(s, bal[v])
  <2>1. /\ s \in Store(Holders) /\ bal \in [Holders -> Nat] /\ v \in Holders
        /\ c \in Holders \ {v}
    BY OwnVault
  <2>2. out \in refund(s, bal, v, c, n, i, l)
    OBVIOUS
  <2>. HIDE DEF s, bal
  <2>. QED  BY <1>2, <2>1, <2>2, RefundEffect
<1>4. Sound(out.v)
  BY <1>3, OwnVault DEF Sound
<1>5. PICK sum \in refundSum(n, i, l) : CanPay(bal, c, sum) /\ out.bal = Moved(bal, c, v, sum)
  BY DEF refund
<1>6. sum \in Nat
  BY AmountsAreWords DEF refundSum, Checked
<1>7. Outcome(World, v, out)
  BY <1>3, <1>4, <1>5, <1>6, OwnVault, OutcomeOf
<1>8. CASE l > i
  BY <1>1, <1>2, <1>7, <1>8, VaultCallKeeps DEF ReportsNetLoss
<1>9. CASE ~(l > i)
  <2>1. NoShareLoses(s, bal, v, out)
    <3>. DEFINE S == s.totalSupply
                W == Worth(s, bal[v])
                X == Worth(out.v, out.bal[v])
    <3>1. S \in Nat /\ W \in Nat /\ X >= W
      BY <1>2, <1>3, <1>9, OwnVault, GoodVault DEF Held
    <3>2. X \in Nat
      BY <1>3, OwnVault, PreviewsAreNaturals
    <3>3. out.v.totalSupply = S
      BY <1>3
    <3>4. X * S >= W * S
      <4>. HIDE DEF S, W, X
      <4>. QED  BY <3>1, <3>2, Z3
    <3>. QED  BY <3>3, <3>4 DEF NoShareLoses
  <2>. QED  BY <1>1, <1>2, <1>7, <2>1, OwnVault, VaultCallKeeps
<1>. QED  BY <1>8, <1>9

\* Users' own deposits and redemptions.
LEMMA InvestKeeps ==
    ASSUME IInv, NEW c \in Users, NEW v \in CeFiVaults, NEW n \in Amounts,
           NEW r \in Users \cup Accounts, Invest(c, v, n, r)
    PROVE Kept
<1>1. PICK out \in deposit(vault[v], token[AssetOf[v]], v, c, n, r) :
          Commit(VaultCalled(World, v, out))
  BY DEF Invest, VaultCall
<1>2. n \in Nat /\ r \in Holders /\ UNCHANGED <<book, link>>
  BY AmountsAreWords, Parties DEF Invest, VaultCall
<1>3. Good(VaultCalled(World, v, out)) /\ Fair(World, VaultCalled(World, v, out))
  BY <1>2, OwnVault, InvestedIsFair
<1>4. BooksType' /\ LinksType'
  BY <1>2 DEF IInv, BooksType, LinksType
<1>. QED  BY <1>1, <1>3, <1>4, CommitIsFair DEF Kept, IInv

LEMMA RedeemKeeps ==
    ASSUME IInv, NEW c \in Users, NEW v \in CeFiVaults, NEW n \in Amounts, Redeem(c, v, n)
    PROVE Kept
<1>. DEFINE s == vault[v]
            bal == token[AssetOf[v]]
<1>1. PICK out \in redeem(s, bal, v, n, c, c) : Commit(VaultCalled(World, v, out))
  BY DEF Redeem, VaultCall
<1>2. n \in Nat /\ UNCHANGED <<book, link>>
  BY AmountsAreWords DEF Redeem, VaultCall
<1>3. ExitFacts(s, bal, v, c, c, out.ret, n, out)
  BY <1>2, OwnVault, RedeemOutcome
<1>4. /\ out.v \in Store(Holders) /\ Sound(out.v)
      /\ s.totalSupply # 0 => NoShareLoses(s, bal, v, out)
  BY <1>3, OwnVault, ExitEffect
<1>5. out.ret \in Nat /\ CanPay(bal, v, out.ret) /\ out.bal = Moved(bal, v, c, out.ret)
  BY <1>3 DEF ExitFacts
<1>6. Outcome(World, v, out)
  BY <1>4, <1>5, OwnVault, OutcomeOf
<1>. QED  BY <1>1, <1>2, <1>4, <1>6, OwnVault, VaultCallKeeps

LEMMA TokenTransferKeeps ==
    ASSUME IInv, NEW c \in Users, NEW x \in Assets, NEW h \in Donees, NEW n \in Amounts,
           TokenTransfer(c, x, h, n)
    PROVE Kept
<1>1. PICK z \in Paid(World, x, c, h, n) : Commit(z)
  BY DEF TokenTransfer
<1>2. n \in Nat /\ c \in Holders \ CeFiVaults /\ h \in Holders /\ Good(World)
  BY AmountsAreWords, Parties, AccountAssumption DEF IInv
<1>3. Good(z) /\ Fair(World, z)
  BY <1>2, PaidIsFair
<1>4. BooksType' /\ LinksType'
  BY DEF TokenTransfer, IInv, BooksType, LinksType
<1>. QED  BY <1>1, <1>3, <1>4, CommitIsFair DEF Kept, IInv

\* The Bank moves no token and no share.
LEMMA OthersKeep == ASSUME IInv, UNCHANGED <<book, link, token, vault>> PROVE Kept
<1>1. World' = World /\ Good(World)
  BY DEF World, IInv
<1>2. StepIsFair
  <2>. SUFFICES ASSUME NEW v \in CeFiVaults PROVE NoLoss(World, World, v)
    BY <1>1 DEF StepIsFair
  <2>1. World.vault[v].totalSupply \in Nat /\ Worth(World.vault[v], Held(World, v)) \in Nat
    BY <1>1, GoodVault
  <2>. QED  BY <2>1 DEF NoLoss
<1>. QED  BY <1>1, <1>2 DEF Kept, IInv, BooksType, LinksType

-----------------------------------------------------------------------------
(* Every step *)

LEMMA NextKeeps == ASSUME IInv, [Next]_vars PROVE Kept
<1>1. CASE AccountNext
  BY <1>1, AccountAssumption, DepositKeeps, WithdrawKeeps, InternalTransferKeeps,
     InternalSwapKeeps, LinkKeeps DEF AccountNext, AccountCall
<1>2. CASE OthersNext
  <2>1. Investors \subseteq Users
    BY AccountAssumption
  <2>. QED  BY <1>2, <2>1, BorrowKeeps, RefundKeeps, InvestKeeps, RedeemKeeps,
               TokenTransferKeeps DEF OthersNext, OtherCall
<1>3. CASE BankCall
  BY <1>3, OthersKeep DEF BankCall
<1>4. CASE UNCHANGED vars
  BY <1>4, OthersKeep DEF vars
<1>. QED  BY <1>1, <1>2, <1>3, <1>4, NextCases

\* A vault that was just deployed has no shares, so they add up.
LEMMA InitInvariant == ASSUME Init PROVE IInv
<1>1. \A v \in CeFiVaults : vault[v] = EmptyVault(Holders)
  BY DEF Init
<1>2. EmptyVault(Holders) \in Store(Holders)
  BY UintMaxAssumption DEF EmptyVault, Store, Uint
<1>3. Sound(EmptyVault(Holders))
  BY SumOfNothing DEF Sound, EmptyVault
<1>4. vault \in [CeFiVaults -> Store(Holders)]
  BY <1>2 DEF Init
<1>5. token \in [Assets -> Ledger]
  BY AccountAssumption, AmountsAreWords DEF Init, Ledger
<1>6. Good(World)
  BY <1>1, <1>3, <1>4, <1>5 DEF Good, World, Worlds
<1>7. BooksType /\ LinksType
  BY UintMaxAssumption DEF Init, BooksType, LinksType, LinkType, NoLink, Uint
<1>. QED  BY <1>6, <1>7 DEF IInv

-----------------------------------------------------------------------------
(* Where tokens go *)

\* From w to z, n of the token x move from one holder to another.
Shift(w, z, x, from, to, n) ==
    \A y \in Assets, h \in Holders :
        z.token[y][h] = w.token[y][h] + (IF y = x /\ h = to THEN n ELSE 0)
                                      - (IF y = x /\ h = from THEN n ELSE 0)

LEMMA MovedShifts ==
    ASSUME NEW w, NEW z, NEW x \in Assets, NEW from \in Holders, NEW to \in Holders,
           NEW n \in Nat, from # to,
           w.token \in [Assets -> Ledger], CanPay(w.token[x], from, n),
           z.token = [w.token EXCEPT ![x] = Moved(w.token[x], from, to, n)]
    PROVE Shift(w, z, x, from, to, n)
<1>. DEFINE bal == w.token[x]
            after == Moved(bal, from, to, n)
<1>1. bal \in [Holders -> Nat]
  BY DEF Ledger
<1>2. /\ after[from] = bal[from] - n /\ after[to] = bal[to] + n
      /\ \A h \in Holders \ {from, to} : after[h] = bal[h]
  BY <1>1, MovedBalances
<1>3. z.token[x] = after /\ \A y \in Assets \ {x} : z.token[y] = w.token[y]
  OBVIOUS
<1>. HIDE DEF after
<1>4. \A y \in Assets, h \in Holders : w.token[y][h] \in Nat
  BY DEF Ledger
<1>. QED  BY <1>1, <1>2, <1>3, <1>4 DEF Shift

LEMMA PaidShifts ==
    ASSUME NEW w, Good(w), NEW x \in Assets, NEW from \in Holders, NEW to \in Holders,
           NEW n \in Nat, from # to, NEW z \in Paid(w, x, from, to, n)
    PROVE Shift(w, z, x, from, to, n)
<1>1. w \in Worlds /\ w.token \in [Assets -> Ledger]
  BY DEF Good, Worlds
<1>2. /\ CanPay(w.token[x], from, n)
      /\ z = [w EXCEPT !.token[x] = Moved(w.token[x], from, to, n)]
  BY DEF Paid
<1>3. z.token = [w.token EXCEPT ![x] = Moved(w.token[x], from, to, n)]
  BY <1>1, <1>2 DEF Worlds
<1>. QED  BY <1>1, <1>2, <1>3, MovedShifts

\* From w to z, h gets n shares of the vault v, or gives up -n.
SharesShift(w, z, v, h, n) ==
    \A u \in CeFiVaults, g \in Holders :
        z.vault[u].balanceOf[g] = w.vault[u].balanceOf[g] + (IF u = v /\ g = h THEN n ELSE 0)

LEMMA SharesAreNaturals ==
    ASSUME NEW w, Good(w)
    PROVE \A v \in CeFiVaults, h \in Holders : w.vault[v].balanceOf[h] \in Nat
  BY StoreOfNaturals DEF Good, Worlds

LEMMA CalledSharesShift ==
    ASSUME NEW w, Good(w), NEW v \in CeFiVaults, NEW h \in Holders, NEW n \in Int, NEW out,
           out.v.balanceOf = [w.vault[v].balanceOf EXCEPT ![h] = w.vault[v].balanceOf[h] + n]
    PROVE SharesShift(w, VaultCalled(w, v, out), v, h, n)
<1>. DEFINE z == VaultCalled(w, v, out)
<1>1. z.vault[v] = out.v /\ \A u \in CeFiVaults \ {v} : z.vault[u] = w.vault[u]
  BY DEF VaultCalled, Good, Worlds
<1>. SUFFICES ASSUME NEW u \in CeFiVaults, NEW g \in Holders
              PROVE z.vault[u].balanceOf[g] = w.vault[u].balanceOf[g]
                                                + (IF u = v /\ g = h THEN n ELSE 0)
  BY DEF SharesShift
<1>2. w.vault[u].balanceOf[g] \in Nat /\ w.vault[u].balanceOf \in [Holders -> Nat]
  BY SharesAreNaturals, StoreOfNaturals DEF Good, Worlds
<1>3. CASE u = v
  BY <1>1, <1>2, <1>3
<1>4. CASE u # v
  BY <1>1, <1>2, <1>4
<1>. QED  BY <1>3, <1>4

\* A deposit moves its assets to the vault, for shares that are the receiver's.
LEMMA InvestedShifts ==
    ASSUME NEW w, Good(w), NEW v \in CeFiVaults, NEW c \in Users \cup Accounts,
           NEW receiver \in Holders, NEW n \in Nat,
           NEW out \in deposit(w.vault[v], w.token[AssetOf[v]], v, c, n, receiver)
    PROVE LET z == VaultCalled(w, v, out) IN
          /\ Shift(w, z, AssetOf[v], c, v, n)
          /\ SharesShift(w, z, v, receiver, out.ret)
          /\ out.ret \in Nat \ {0}
<1>. DEFINE s == w.vault[v]
            bal == w.token[AssetOf[v]]
            z == VaultCalled(w, v, out)
<1>1. /\ c \in Holders /\ c # v /\ v \in Holders /\ AssetOf[v] \in Assets
      /\ s \in Store(Holders) /\ Sound(s) /\ bal \in [Holders -> Nat]
      /\ w.token \in [Assets -> Ledger]
  BY Parties, GoodVault DEF Ledger, Good, Worlds
<1>2. EntryFacts(s, bal, v, c, receiver, n, out.ret, out)
  BY <1>1, DepositOutcome
<1>3. out.v.balanceOf = Raised(s.balanceOf, receiver, out.ret)
  BY <1>1, <1>2, EntryEffect
<1>4. out.ret \in Nat /\ CanPay(bal, c, n) /\ out.bal = Moved(bal, c, v, n)
  BY <1>2 DEF EntryFacts
<1>5. out.ret # 0
  BY DEF deposit, Entered
<1>6. z.token = [w.token EXCEPT ![AssetOf[v]] = Moved(bal, c, v, n)]
  BY <1>4 DEF VaultCalled
<1>7. Shift(w, z, AssetOf[v], c, v, n)
  BY <1>1, <1>4, <1>6, MovedShifts
<1>8. SharesShift(w, z, v, receiver, out.ret)
  BY <1>3, <1>4, CalledSharesShift DEF Raised
<1>. QED  BY <1>4, <1>5, <1>7, <1>8

\* A withdrawal moves them back, for shares of the account.
LEMMA WithdrawnShifts ==
    ASSUME NEW w, Good(w), NEW v \in CeFiVaults, NEW a \in Accounts, NEW n \in Nat,
           NEW out \in withdraw(w.vault[v], w.token[AssetOf[v]], v, n, a, a)
    PROVE LET z == VaultCalled(w, v, out) IN
          /\ Shift(w, z, AssetOf[v], v, a, n)
          /\ SharesShift(w, z, v, a, -out.ret)
          /\ out.ret \in Nat
<1>. DEFINE s == w.vault[v]
            bal == w.token[AssetOf[v]]
            z == VaultCalled(w, v, out)
<1>1. /\ a \in Holders /\ a # v /\ v \in Holders /\ AssetOf[v] \in Assets
      /\ s \in Store(Holders) /\ Sound(s) /\ bal \in [Holders -> Nat]
      /\ w.token \in [Assets -> Ledger]
  BY Parties, GoodVault DEF Ledger, Good, Worlds
<1>2. ExitFacts(s, bal, v, a, a, n, out.ret, out)
  BY <1>1, WithdrawOutcome
<1>3. out.v.balanceOf = Lowered(s.balanceOf, a, out.ret)
  <2>. HIDE DEF s, bal
  <2>. QED  BY <1>1, <1>2, ExitEffect
<1>4. out.ret \in Nat /\ CanPay(bal, v, n) /\ out.bal = Moved(bal, v, a, n)
  BY <1>2 DEF ExitFacts
<1>5. z.token = [w.token EXCEPT ![AssetOf[v]] = Moved(bal, v, a, n)]
  BY <1>4 DEF VaultCalled
<1>6. Shift(w, z, AssetOf[v], v, a, n)
  BY <1>1, <1>4, <1>5, MovedShifts
<1>7. s.balanceOf[a] - out.ret = s.balanceOf[a] + (-out.ret)
  BY <1>1, <1>4, SharesAreNaturals
<1>8. SharesShift(w, z, v, a, -out.ret)
  BY <1>1, <1>3, <1>4, <1>7, CalledSharesShift DEF Lowered
<1>. QED  BY <1>4, <1>6, <1>8

LEMMA CreditedShifts ==
    ASSUME NEW w, Good(w), NEW a \in Accounts, NEW info \in LinkType, NEW x,
           NEW n \in Nat, NEW z \in Credited(w, a, info, x, n)
    PROVE IF invests(info, x)
          THEN /\ Shift(w, z, x, a, info.vault, n)
               /\ \E m \in Nat \ {0} : SharesShift(w, z, info.vault, a, m)
          ELSE z = w
<1>1. CASE invests(info, x)
  <2>1. PICK out \in Invested(w, a, info.vault, n) : z = VaultCalled(w, info.vault, out)
    BY <1>1 DEF Credited, updateVaultDeposit
  <2>2. out \in deposit(w.vault[info.vault], w.token[AssetOf[info.vault]], info.vault, a, n, a)
    BY <2>1 DEF Invested
  <2>3. info.vault \in CeFiVaults /\ a \in Holders /\ AssetOf[info.vault] = x
    BY <1>1, LinkedVault, Parties DEF invests
  <2>. QED  BY <1>1, <2>1, <2>2, <2>3, InvestedShifts
<1>2. CASE ~invests(info, x)
  BY <1>2 DEF Credited
<1>. QED  BY <1>1, <1>2

LEMMA DebitedShifts ==
    ASSUME NEW w, Good(w), NEW a \in Accounts, NEW info \in LinkType, NEW x,
           NEW n \in Nat, NEW booked \in Nat, NEW d \in Debited(w, a, info, x, n, booked)
    PROVE IF invests(info, x)
          THEN /\ Shift(w, d.world, x, info.vault, a, n)
               /\ \E m \in Nat : SharesShift(w, d.world, info.vault, a, -m)
          ELSE d.world = w
<1>1. CASE invests(info, x)
  <2>. DEFINE v == info.vault
  <2>1. v \in CeFiVaults /\ AssetOf[v] = x
    BY <1>1, LinkedVault DEF invests
  <2>2. PICK out \in withdraw(w.vault[v], w.token[AssetOf[v]], v, n, a, a) :
            d.world = VaultCalled(w, v, out)
    BY <1>1 DEF Debited, updateVaultWithdraw
  <2>. QED  BY <1>1, <2>1, <2>2, WithdrawnShifts
<1>2. CASE ~invests(info, x)
  BY <1>2 DEF Debited
<1>. QED  BY <1>1, <1>2

\* None of these accounts loses shares.
SharesKept(w, z, S) ==
    \A v \in CeFiVaults, b \in S : z.vault[v].balanceOf[b] >= w.vault[v].balanceOf[b]

LEMMA SharesKeptComposes ==
    ASSUME NEW w, NEW x, NEW z, Good(w), Good(x), Good(z), NEW S \in SUBSET Accounts,
           SharesKept(w, x, S), SharesKept(x, z, S)
    PROVE SharesKept(w, z, S)
<1>. SUFFICES ASSUME NEW v \in CeFiVaults, NEW b \in S
              PROVE z.vault[v].balanceOf[b] >= w.vault[v].balanceOf[b]
  BY DEF SharesKept
<1>1. b \in Holders
  BY Parties
<1>2. /\ w.vault[v].balanceOf[b] \in Nat /\ x.vault[v].balanceOf[b] \in Nat
      /\ z.vault[v].balanceOf[b] \in Nat
  BY <1>1, SharesAreNaturals
<1>3. /\ x.vault[v].balanceOf[b] >= w.vault[v].balanceOf[b]
      /\ z.vault[v].balanceOf[b] >= x.vault[v].balanceOf[b]
  BY DEF SharesKept
<1>. QED  BY <1>2, <1>3

LEMMA SameSharesKept ==
    ASSUME NEW w, Good(w), NEW z, z.vault = w.vault PROVE SharesKept(w, z, Accounts)
<1>1. \A v \in CeFiVaults, b \in Accounts : w.vault[v].balanceOf[b] \in Nat
  BY Parties, SharesAreNaturals
<1>. QED  BY <1>1 DEF SharesKept

LEMMA CreditKeepsShares ==
    ASSUME NEW w, Good(w), NEW a \in Accounts, NEW info \in LinkType, NEW x,
           NEW n \in Nat, NEW z \in Credited(w, a, info, x, n)
    PROVE SharesKept(w, z, Accounts)
<1>1. CASE invests(info, x)
  <2>1. PICK m \in Nat : SharesShift(w, z, info.vault, a, m)
    BY <1>1, CreditedShifts
  <2>2. \A v \in CeFiVaults, b \in Accounts : b \in Holders /\ w.vault[v].balanceOf[b] \in Nat
    BY Parties, SharesAreNaturals
  <2>. QED  BY <2>1, <2>2 DEF SharesShift, SharesKept
<1>2. CASE ~invests(info, x)
  BY <1>2, CreditedShifts, SameSharesKept
<1>. QED  BY <1>1, <1>2

\* Whose shares a debit of the account a leaves alone.
Others(a, info, x) == IF invests(info, x) THEN Accounts \ {a} ELSE Accounts

LEMMA DebitKeepsShares ==
    ASSUME NEW w, Good(w), NEW a \in Accounts, NEW info \in LinkType, NEW x,
           NEW n \in Nat, NEW booked \in Nat, NEW d \in Debited(w, a, info, x, n, booked)
    PROVE SharesKept(w, d.world, Others(a, info, x))
<1>1. CASE invests(info, x)
  <2>1. PICK m \in Nat : SharesShift(w, d.world, info.vault, a, -m)
    BY <1>1, DebitedShifts
  <2>2. \A v \in CeFiVaults, b \in Accounts : b \in Holders /\ w.vault[v].balanceOf[b] \in Nat
    BY Parties, SharesAreNaturals
  <2>. QED  BY <1>1, <2>1, <2>2 DEF SharesShift, SharesKept, Others
<1>2. CASE ~invests(info, x)
  BY <1>2, DebitedShifts, SameSharesKept DEF Others
<1>. QED  BY <1>1, <1>2

-----------------------------------------------------------------------------
(* What the operations of accounts do to tokens and shares *)

\* What is known of the tokens before a step.
LEMMA TokensAreNaturals ==
    ASSUME IInv
    PROVE /\ Good(World) /\ World.token = token /\ World.vault = vault
          /\ \A x \in Assets, h \in Holders : token[x][h] \in Nat
<1>1. Good(World) /\ World.token = token /\ World.vault = vault
  BY DEF IInv, World
<1>2. token \in [Assets -> [Holders -> Nat]]
  BY <1>1 DEF Good, Worlds, Ledger
<1>. QED  BY <1>1, <1>2

\* The world a step commits.
LEMMA CommittedTokens ==
    ASSUME NEW z, Commit(z) PROVE token' = z.token /\ vault' = z.vault
  BY DEF Commit

\* A deposit reaches the account, or passes through it into the vault.
LEMMA DepositMoves ==
    ASSUME IInv, NEW c \in Users, NEW a \in Accounts, NEW s \in SubIds, NEW x \in Assets,
           NEW n \in Amounts, Deposit(c, a, x, n, s)
    PROVE /\ \A y \in Assets, b \in Accounts :
               token'[y][b] = token[y][b]
                 + (IF ~invests(link[a][s], x) /\ y = x /\ b = a THEN n ELSE 0)
          /\ SharesKept(World, World', Accounts)
<1>1. PICK p \in Paid(World, x, c, a, n) :
          \E z \in Credited(p, a, link[a][s], x, n) : Commit(z)
  BY DEF Deposit
<1>2. PICK z \in Credited(p, a, link[a][s], x, n) : Commit(z)
  BY <1>1
<1>3. /\ n \in Nat /\ c \in Holders \ CeFiVaults /\ a \in Holders /\ c # a
      /\ link[a][s] \in LinkType /\ Good(World)
  BY AmountsAreWords, Parties, BooksAreWords DEF IInv
<1>4. Good(p) /\ Shift(World, p, x, c, a, n) /\ p.vault = World.vault
  BY <1>3, PaidIsFair, PaidShifts
<1>5. IF invests(link[a][s], x) THEN Shift(p, z, x, a, link[a][s].vault, n) ELSE z = p
  BY <1>3, <1>4, CreditedShifts
<1>6. ASSUME NEW y \in Assets, NEW b \in Accounts
      PROVE token'[y][b] = token[y][b]
                 + (IF ~invests(link[a][s], x) /\ y = x /\ b = a THEN n ELSE 0)
  <2>1. /\ token[y][b] \in Nat /\ b \in Holders /\ b # c
        /\ p.token[y][b] = token[y][b] + (IF y = x /\ b = a THEN n ELSE 0)
    BY <1>3, <1>4, TokensAreNaturals, Parties DEF Shift
  <2>2. CASE invests(link[a][s], x)
    <3>1. link[a][s].vault \in CeFiVaults /\ b # link[a][s].vault
      BY <1>3, <2>2, LinkedVault, Parties
    <3>2. z.token[y][b] = p.token[y][b] + 0 - (IF y = x /\ b = a THEN n ELSE 0)
      BY <1>5, <2>1, <2>2, <3>1 DEF Shift
    <3>. QED  BY <1>2, <1>3, <2>1, <2>2, <3>2, CommittedTokens
  <2>3. CASE ~invests(link[a][s], x)
    BY <1>2, <1>3, <1>5, <2>1, <2>3, CommittedTokens
  <2>. QED  BY <2>2, <2>3
<1>7. SharesKept(World, World', Accounts)
  <2>1. SharesKept(p, z, Accounts)
    BY <1>3, <1>4, CreditKeepsShares
  <2>2. World'.vault = z.vault
    BY <1>2, CommittedTokens DEF World
  <2>. QED  BY <1>4, <2>1, <2>2 DEF SharesKept
<1>. QED  BY <1>6, <1>7

\* A withdrawal is paid to the caller, out of the account or through it.
LEMMA WithdrawMoves ==
    ASSUME IInv, NEW c \in Users, NEW a \in Accounts, NEW s \in SubIds, NEW x \in Assets,
           NEW n \in Amounts, Withdraw(c, a, x, n, s)
    PROVE /\ \A y \in Assets, h \in Holders \ CeFiVaults :
               token'[y][h] = token[y][h] + (IF y = x /\ h = c THEN n ELSE 0)
                 - (IF ~invests(link[a][s], x) /\ y = x /\ h = a THEN n ELSE 0)
          /\ SharesKept(World, World', Others(a, link[a][s], x))
<1>1. PICK d \in Debited(World, a, link[a][s], x, n, book[a][s][x]) :
          \E z \in Paid(d.world, x, a, c, n) : Commit(z)
  BY DEF Withdraw
<1>2. PICK z \in Paid(d.world, x, a, c, n) : Commit(z)
  BY <1>1
<1>3. /\ n \in Nat /\ c \in Holders \ CeFiVaults /\ a \in Holders \ CeFiVaults /\ c # a
      /\ link[a][s] \in LinkType /\ Good(World) /\ book[a][s][x] \in Nat
  BY AmountsAreWords, Parties, BooksAreWords DEF IInv
<1>4. Good(d.world)
  BY <1>3, DebitedIsFair
<1>5. /\ IF invests(link[a][s], x) THEN Shift(World, d.world, x, link[a][s].vault, a, n)
         ELSE d.world = World
      /\ Shift(d.world, z, x, a, c, n) /\ z.vault = d.world.vault
  BY <1>3, <1>4, DebitedShifts, PaidShifts, PaidIsFair
<1>6. ASSUME NEW y \in Assets, NEW h \in Holders \ CeFiVaults
      PROVE token'[y][h] = token[y][h] + (IF y = x /\ h = c THEN n ELSE 0)
                 - (IF ~invests(link[a][s], x) /\ y = x /\ h = a THEN n ELSE 0)
  <2>1. token[y][h] \in Nat /\ World.token = token
    BY TokensAreNaturals
  <2>2. d.world.token[y][h] =
            token[y][h] + (IF invests(link[a][s], x) /\ y = x /\ h = a THEN n ELSE 0)
    <3>1. CASE invests(link[a][s], x)
      <4>1. link[a][s].vault \in CeFiVaults
        BY <1>3, <3>1, LinkedVault
      <4>. QED  BY <1>3, <1>5, <2>1, <3>1, <4>1 DEF Shift
    <3>2. CASE ~invests(link[a][s], x)
      BY <1>5, <2>1, <3>2
    <3>. QED  BY <3>1, <3>2
  <2>3. token'[y][h] = d.world.token[y][h] + (IF y = x /\ h = c THEN n ELSE 0)
                                           - (IF y = x /\ h = a THEN n ELSE 0)
    BY <1>2, <1>5, CommittedTokens DEF Shift
  <2>. QED  BY <1>3, <2>1, <2>2, <2>3
<1>7. SharesKept(World, World', Others(a, link[a][s], x))
  <2>1. SharesKept(World, d.world, Others(a, link[a][s], x))
    BY <1>3, DebitKeepsShares
  <2>2. World'.vault = d.world.vault
    BY <1>2, <1>5, CommittedTokens DEF World
  <2>. QED  BY <2>1, <2>2 DEF SharesKept
<1>. QED  BY <1>6, <1>7

\* An internal transfer takes tokens in from a vault, and out for a vault.
LEMMA InternalTransferMoves ==
    ASSUME IInv, NEW c \in Users, NEW a \in Accounts, NEW s \in SubIds, NEW t \in SubIds,
           NEW x \in Assets, NEW n \in Amounts, InternalTransfer(c, a, x, n, s, t)
    PROVE /\ \A y \in Assets, b \in Accounts :
               token'[y][b] =
                   token[y][b] + (IF invests(link[a][s], x) /\ y = x /\ b = a THEN n ELSE 0)
                               - (IF invests(link[a][t], x) /\ y = x /\ b = a THEN n ELSE 0)
          /\ SharesKept(World, World', Others(a, link[a][s], x))
<1>. DEFINE from == invests(link[a][s], x)
            to == invests(link[a][t], x)
            v == link[a][t].vault
<1>1. PICK d \in Debited(World, a, link[a][s], x, n, book[a][s][x]) :
          \E z \in Credited(d.world, a, link[a][t], x, n) : Commit(z)
  BY DEF InternalTransfer
<1>2. PICK z \in Credited(d.world, a, link[a][t], x, n) : Commit(z)
  BY <1>1
<1>3. /\ n \in Nat /\ a \in Holders \ CeFiVaults
      /\ link[a][s] \in LinkType /\ link[a][t] \in LinkType
      /\ Good(World) /\ book[a][s][x] \in Nat
  BY AmountsAreWords, Parties, BooksAreWords DEF IInv
<1>4. Good(d.world) /\ Good(z)
  BY <1>3, DebitedIsFair, CreditedIsFair
<1>5. /\ IF from THEN Shift(World, d.world, x, link[a][s].vault, a, n) ELSE d.world = World
      /\ IF to THEN Shift(d.world, z, x, a, v, n) ELSE z = d.world
  BY <1>3, <1>4, DebitedShifts, CreditedShifts
<1>6. ASSUME NEW y \in Assets, NEW b \in Accounts
      PROVE /\ token[y][b] \in Nat
            /\ d.world.token[y][b] = token[y][b] + (IF from /\ y = x /\ b = a THEN n ELSE 0)
  <2>1. token[y][b] \in Nat /\ World.token = token /\ b \in Holders \ CeFiVaults
    BY TokensAreNaturals, Parties
  <2>2. CASE from
    <3>1. link[a][s].vault \in CeFiVaults
      BY <1>3, <2>2, LinkedVault
    <3>. QED  BY <1>3, <1>5, <2>1, <2>2, <3>1 DEF Shift
  <2>3. CASE ~from
    BY <1>5, <2>1, <2>3
  <2>. QED  BY <2>1, <2>2, <2>3
<1>7. ASSUME NEW y \in Assets, NEW b \in Accounts
      PROVE token'[y][b] = d.world.token[y][b] - (IF to /\ y = x /\ b = a THEN n ELSE 0)
  <2>1. b \in Holders \ CeFiVaults /\ d.world.token[y][b] \in Nat
    BY <1>3, <1>6, Parties
  <2>2. CASE to
    <3>1. v \in CeFiVaults
      BY <1>3, <2>2, LinkedVault
    <3>. QED  BY <1>2, <1>3, <1>5, <2>1, <2>2, <3>1, CommittedTokens DEF Shift
  <2>3. CASE ~to
    BY <1>2, <1>5, <2>1, <2>3, CommittedTokens
  <2>. QED  BY <2>2, <2>3
<1>8. SharesKept(World, z, Others(a, link[a][s], x))
  <2>1. SharesKept(World, d.world, Others(a, link[a][s], x))
    BY <1>3, DebitKeepsShares
  <2>2. SharesKept(d.world, z, Accounts) /\ Others(a, link[a][s], x) \in SUBSET Accounts
    BY <1>3, <1>4, CreditKeepsShares DEF Others
  <2>3. SharesKept(d.world, z, Others(a, link[a][s], x))
    BY <2>2 DEF SharesKept
  <2>. QED  BY <1>3, <1>4, <2>1, <2>2, <2>3, SharesKeptComposes
<1>9. World'.vault = z.vault
  BY <1>2, CommittedTokens DEF World
<1>10. SharesKept(World, World', Others(a, link[a][s], x))
  BY <1>8, <1>9 DEF SharesKept
<1>11. \A y \in Assets, b \in Accounts :
           token'[y][b] = token[y][b] + (IF from /\ y = x /\ b = a THEN n ELSE 0)
                                      - (IF to /\ y = x /\ b = a THEN n ELSE 0)
  BY <1>3, <1>6, <1>7
<1>. QED  BY <1>10, <1>11

\* A swap takes what is swapped in and brings at least what was asked for.
LEMMA InternalSwapMoves ==
    ASSUME IInv, NEW c \in Users, NEW a \in Accounts, NEW x \in Assets,
           NEW y \in Assets \ {x}, NEW n \in Amounts, NEW min \in Amounts,
           InternalSwap(c, a, x, y, n, min)
    PROVE \E amountOut \in Nat :
            /\ amountOut >= min
            /\ book' = Swapped(a, x, y, n, amountOut)
            /\ \A u \in Assets, b \in Accounts :
                 token'[u][b] = token[u][b] - (IF u = x /\ b = a THEN n ELSE 0)
                                            + (IF u = y /\ b = a THEN amountOut ELSE 0)
<1>1. PICK used \in 1 .. n, amountOut \in min .. token[y][Pool] :
          /\ swapExactInputSingle(a, x, y, n, used, amountOut)
          /\ book' = Swapped(a, x, y, n, amountOut)
  BY DEF InternalSwap
<1>2. /\ a \in Holders \ CeFiVaults /\ UniswapHelper \in Holders \ CeFiVaults
      /\ Pool \in Holders \ CeFiVaults /\ Good(World)
      /\ a # UniswapHelper /\ a # Pool /\ UniswapHelper # Pool
  BY Parties DEF IInv
<1>3. n \in Nat /\ min \in Nat /\ token[y][Pool] \in Nat
  BY <1>2, AmountsAreWords, TokensAreNaturals
<1>4. used \in Nat /\ amountOut \in Nat /\ amountOut >= min
  BY <1>3
<1>5. PICK pulled \in Paid(World, x, a, UniswapHelper, n) :
          \E traded \in Paid(pulled, x, UniswapHelper, Pool, used) :
              \E z \in Paid(traded, y, Pool, a, amountOut) : Commit(z)
  BY <1>1 DEF swapExactInputSingle
<1>6. PICK traded \in Paid(pulled, x, UniswapHelper, Pool, used) :
          \E z \in Paid(traded, y, Pool, a, amountOut) : Commit(z)
  BY <1>5
<1>7. PICK z \in Paid(traded, y, Pool, a, amountOut) : Commit(z)
  BY <1>6
<1>8. Good(pulled) /\ Shift(World, pulled, x, a, UniswapHelper, n)
  BY <1>2, <1>3, PaidIsFair, PaidShifts
<1>9. Good(traded) /\ Shift(pulled, traded, x, UniswapHelper, Pool, used)
  BY <1>2, <1>4, <1>8, PaidIsFair, PaidShifts
<1>10. Shift(traded, z, y, Pool, a, amountOut)
  BY <1>2, <1>4, <1>9, PaidShifts
<1>11. ASSUME NEW u \in Assets, NEW b \in Accounts
       PROVE token'[u][b] = token[u][b] - (IF u = x /\ b = a THEN n ELSE 0)
                                        + (IF u = y /\ b = a THEN amountOut ELSE 0)
  <2>1. /\ token[u][b] \in Nat /\ World.token = token /\ token' = z.token
        /\ b \in Holders /\ b # UniswapHelper /\ b # Pool
    BY <1>7, TokensAreNaturals, CommittedTokens, Parties
  <2>2. pulled.token[u][b] = token[u][b] - (IF u = x /\ b = a THEN n ELSE 0)
    BY <1>3, <1>8, <2>1 DEF Shift
  <2>3. traded.token[u][b] = pulled.token[u][b]
    BY <1>3, <1>9, <2>1, <2>2 DEF Shift
  <2>4. z.token[u][b] = traded.token[u][b] + (IF u = y /\ b = a THEN amountOut ELSE 0)
    BY <1>3, <1>4, <1>10, <2>1, <2>2, <2>3 DEF Shift
  <2>. QED  BY <2>1, <2>2, <2>3, <2>4
<1>. QED  BY <1>1, <1>4, <1>11

\* Linking a sub-account with an empty book moves nothing.
LEMMA EmptyLinkMoves ==
    ASSUME IInv, NEW c \in Users, NEW a \in Accounts, NEW s \in SubIds,
           NEW v \in CeFiVaults, LinkSubaccountToVault(c, a, s, v),
           book[a][s][AssetOf[v]] = 0
    PROVE UNCHANGED <<token, vault>> /\ link' = [link EXCEPT ![a][s].vault = v]
  BY DEF LinkSubaccountToVault

\* Linking one with a book takes it out of the account, for the shares recorded.
LEMMA LinkMoves ==
    ASSUME IInv, NEW c \in Users, NEW a \in Accounts, NEW s \in SubIds,
           NEW v \in CeFiVaults, LinkSubaccountToVault(c, a, s, v),
           book[a][s][AssetOf[v]] # 0
    PROVE /\ Shift(World, World', AssetOf[v], a, v, book[a][s][AssetOf[v]])
          /\ \E m \in Nat \ {0} :
               /\ SharesShift(World, World', v, a, m)
               /\ link' = [link EXCEPT ![a][s] = [vault |-> v, share |-> m]]
<1>. DEFINE n == book[a][s][AssetOf[v]]
<1>1. PICK out \in Invested(World, a, v, n) :
          /\ link' = [link EXCEPT ![a][s] = [vault |-> v, share |-> out.ret]]
          /\ Commit(VaultCalled(World, v, out))
  BY DEF LinkSubaccountToVault
<1>. DEFINE z == VaultCalled(World, v, out)
<1>2. out \in deposit(World.vault[v], World.token[AssetOf[v]], v, a, n, a)
  BY <1>1 DEF Invested
<1>3. Good(World) /\ n \in Nat /\ a \in Holders
  BY Parties, BooksAreWords DEF IInv
<1>4. /\ Shift(World, z, AssetOf[v], a, v, n)
      /\ SharesShift(World, z, v, a, out.ret)
      /\ out.ret \in Nat \ {0}
  <2>. HIDE DEF n
  <2>. QED  BY <1>2, <1>3, InvestedShifts
<1>5. World' = z
  BY <1>1 DEF World, Commit, VaultCalled
<1>. QED  BY <1>1, <1>4, <1>5

\* The others pay with their own tokens, and give up shares of their own.
NoneTaken ==
    /\ \A b \in Accounts, y \in Assets :
          token'[y][b] \in Nat /\ token'[y][b] >= token[y][b]
    /\ SharesKept(World, World', Accounts)

LEMMA UntouchedTakesNone == ASSUME IInv, UNCHANGED <<token, vault>> PROVE NoneTaken
<1>1. World' = World
  BY DEF World
<1>2. \A b \in Accounts, y \in Assets : token[y][b] \in Nat
  BY TokensAreNaturals, Parties
<1>. QED  BY <1>1, <1>2, SameSharesKept DEF NoneTaken, IInv

LEMMA ShiftTakesNone ==
    ASSUME IInv, NEW z, NEW x \in Assets, NEW from \in Holders, from \notin Accounts,
           NEW to \in Holders, NEW n \in Nat, Shift(World, z, x, from, to, n), Commit(z),
           SharesKept(World, z, Accounts)
    PROVE NoneTaken
<1>1. token' = z.token /\ World'.vault = z.vault
  BY CommittedTokens DEF World
<1>2. ASSUME NEW b \in Accounts, NEW y \in Assets
      PROVE token'[y][b] \in Nat /\ token'[y][b] >= token[y][b]
  <2>1. token[y][b] \in Nat /\ World.token = token /\ b \in Holders /\ b # from
    BY TokensAreNaturals, Parties
  <2>2. token'[y][b] = token[y][b] + (IF y = x /\ b = to THEN n ELSE 0)
    BY <1>1, <2>1 DEF Shift
  <2>. QED  BY <2>1, <2>2
<1>. QED  BY <1>1, <1>2 DEF NoneTaken, SharesKept

\* A vault call of a user: one payment, to the vault or out of it.
LEMMA VaultCallTakesNone ==
    ASSUME IInv, NEW v \in CeFiVaults, NEW c \in Users, NEW out, NEW n \in Nat,
           Commit(VaultCalled(World, v, out)),
           \/ CanPay(token[AssetOf[v]], v, n) /\ out.bal = Moved(token[AssetOf[v]], v, c, n)
           \/ CanPay(token[AssetOf[v]], c, n) /\ out.bal = Moved(token[AssetOf[v]], c, v, n),
           \A b \in Accounts : out.v.balanceOf[b] >= vault[v].balanceOf[b]
    PROVE NoneTaken
<1>. DEFINE z == VaultCalled(World, v, out)
            x == AssetOf[v]
<1>1. /\ World.token = token /\ token \in [Assets -> Ledger]
      /\ World.vault = vault /\ vault \in [CeFiVaults -> Store(Holders)]
      /\ x \in Assets /\ v \in Holders /\ c \in Holders /\ v # c
      /\ v \notin Accounts /\ c \notin Accounts
  BY TokensAreNaturals, Parties DEF Good, Worlds
<1>2. /\ z.token = [World.token EXCEPT ![x] = out.bal]
      /\ z.vault = [World.vault EXCEPT ![v] = out.v]
  BY DEF VaultCalled
<1>3. \E from, to \in {v, c} : Shift(World, z, x, from, to, n)
  <2>. HIDE DEF z, x
  <2>1. CASE CanPay(token[x], v, n) /\ out.bal = Moved(token[x], v, c, n)
    BY <1>1, <1>2, <2>1, MovedShifts
  <2>2. CASE CanPay(token[x], c, n) /\ out.bal = Moved(token[x], c, v, n)
    BY <1>1, <1>2, <2>2, MovedShifts
  <2>. QED  BY <2>1, <2>2 DEF x
<1>4. SharesKept(World, z, Accounts)
  <2>. SUFFICES ASSUME NEW u \in CeFiVaults, NEW b \in Accounts
                PROVE z.vault[u].balanceOf[b] >= vault[u].balanceOf[b]
    BY <1>1 DEF SharesKept
  <2>1. vault[u].balanceOf[b] \in Nat
    BY <1>1, TokensAreNaturals, SharesAreNaturals, Parties
  <2>2. CASE u = v
    BY <1>1, <1>2, <2>2
  <2>3. CASE u # v
    BY <1>1, <1>2, <2>1, <2>3
  <2>. QED  BY <2>2, <2>3
<1>. QED  BY <1>1, <1>3, <1>4, ShiftTakesNone

\* What a vault call of a user needs of the accounts' shares.
LEMMA AccountShares ==
    ASSUME IInv, NEW v \in CeFiVaults
    PROVE /\ vault[v].balanceOf \in [Holders -> Nat]
          /\ \A b \in Accounts : b \in Holders /\ b \notin Users /\ vault[v].balanceOf[b] \in Nat
  BY TokensAreNaturals, SharesAreNaturals, Parties, StoreOfNaturals DEF Good, Worlds

LEMMA OthersTakeNone == ASSUME IInv, OthersNext PROVE NoneTaken
<1>1. ASSUME NEW c \in Users, NEW n \in Amounts, NEW x \in Assets, NEW h \in Donees,
             TokenTransfer(c, x, h, n)
      PROVE NoneTaken
  <2>1. PICK z \in Paid(World, x, c, h, n) : Commit(z)
    BY <1>1 DEF TokenTransfer
  <2>2. n \in Nat /\ c \in Holders /\ c \notin Accounts /\ h \in Holders /\ Good(World)
        /\ c \notin CeFiVaults
    BY AmountsAreWords, Parties, AccountAssumption, TokensAreNaturals
  <2>3. z.vault = World.vault /\ SharesKept(World, z, Accounts)
    BY <2>2, PaidIsFair, SameSharesKept
  <2>4. CASE c # h
    BY <2>1, <2>2, <2>3, <2>4, PaidShifts, ShiftTakesNone
  <2>5. CASE c = h
    <3>1. z = [World EXCEPT !.token[x] = Moved(World.token[x], c, c, n)]
          /\ CanPay(World.token[x], c, n)
      BY <2>1, <2>5 DEF Paid
    <3>2. World.token = token /\ token \in [Assets -> [Holders -> Nat]]
      BY TokensAreNaturals DEF Good, Worlds, Ledger
    <3>3. Moved(token[x], c, c, n) = token[x]
      BY <2>2, <3>1, <3>2, MovedBalances
    <3>4. z.token = token
      BY <3>1, <3>2, <3>3 DEF World
    <3>. QED  BY <2>1, <2>3, <3>4, CommittedTokens, TokensAreNaturals, UntouchedTakesNone
  <2>. QED  BY <2>4, <2>5
<1>2. ASSUME NEW c \in Users, NEW n \in Amounts, NEW v \in CeFiVaults, Borrow(c, v, n)
      PROVE NoneTaken
  <2>1. PICK out \in borrow(vault[v], token[AssetOf[v]], v, c, n) :
            Commit(VaultCalled(World, v, out))
    BY <1>2 DEF Borrow, VaultCall
  <2>2. /\ CanPay(token[AssetOf[v]], v, n)
        /\ out.bal = Moved(token[AssetOf[v]], v, c, n)
    BY DEF borrow
  <2>3. out.v.balanceOf = vault[v].balanceOf
    <3>. DEFINE w == vault[v]
                bal == token[AssetOf[v]]
    <3>1. /\ w \in Store(Holders) /\ bal \in [Holders -> Nat] /\ v \in Holders
          /\ c \in Holders \ {v} /\ n \in Nat
      BY OwnVault, AmountsAreWords
    <3>2. out \in borrow(w, bal, v, c, n)
      OBVIOUS
    <3>. HIDE DEF w, bal
    <3>3. out.v.balanceOf = w.balanceOf
      BY <3>1, <3>2, BorrowEffect
    <3>. QED  BY <3>3 DEF w
  <2>4. \A b \in Accounts : out.v.balanceOf[b] >= vault[v].balanceOf[b]
    BY <2>3, AccountShares
  <2>. QED  BY <2>1, <2>2, <2>4, AmountsAreWords, VaultCallTakesNone
<1>3. ASSUME NEW c \in Users, NEW n \in Amounts, NEW v \in CeFiVaults, NEW i \in Amounts,
             NEW l \in Amounts, Refund(c, v, n, i, l)
      PROVE NoneTaken
  <2>1. PICK out \in refund(vault[v], token[AssetOf[v]], v, c, n, i, l) :
            Commit(VaultCalled(World, v, out))
    BY <1>3 DEF Refund, VaultCall
  <2>2. PICK sum \in refundSum(n, i, l) :
            /\ CanPay(token[AssetOf[v]], c, sum)
            /\ out.bal = Moved(token[AssetOf[v]], c, v, sum)
    BY DEF refund
  <2>3. sum \in Nat
    BY AmountsAreWords DEF refundSum, Checked
  <2>4. out.v.balanceOf = vault[v].balanceOf
    <3>. DEFINE w == vault[v]
                bal == token[AssetOf[v]]
    <3>1. /\ w \in Store(Holders) /\ bal \in [Holders -> Nat] /\ v \in Holders
          /\ c \in Holders \ {v} /\ n \in Uint /\ i \in Uint /\ l \in Uint
      BY OwnVault, AmountsAreWords
    <3>2. out \in refund(w, bal, v, c, n, i, l)
      OBVIOUS
    <3>. HIDE DEF w, bal
    <3>3. out.v.balanceOf = w.balanceOf
      BY <3>1, <3>2, RefundEffect
    <3>. QED  BY <3>3 DEF w
  <2>5. \A b \in Accounts : out.v.balanceOf[b] >= vault[v].balanceOf[b]
    BY <2>4, AccountShares
  <2>. QED  BY <2>1, <2>2, <2>3, <2>5, VaultCallTakesNone
<1>4. ASSUME NEW c \in Users, NEW n \in Amounts, NEW v \in CeFiVaults,
             NEW r \in Users \cup Accounts, Invest(c, v, n, r)
      PROVE NoneTaken
  <2>1. PICK out \in deposit(vault[v], token[AssetOf[v]], v, c, n, r) :
            Commit(VaultCalled(World, v, out))
    BY <1>4 DEF Invest, VaultCall
  <2>2. EntryFacts(vault[v], token[AssetOf[v]], v, c, r, n, out.ret, out)
    BY OwnVault, Parties, AmountsAreWords, DepositOutcome
  <2>3. out.ret \in Nat /\ out.v.balanceOf = Raised(vault[v].balanceOf, r, out.ret)
    <3>. DEFINE w == vault[v]
                bal == token[AssetOf[v]]
    <3>1. /\ w \in Store(Holders) /\ Sound(w) /\ bal \in [Holders -> Nat] /\ v \in Holders
          /\ c \in Holders \ {v} /\ r \in Holders /\ EntryFacts(w, bal, v, c, r, n, out.ret, out)
      BY <2>2, OwnVault, Parties
    <3>2. out.ret \in Nat
      BY <2>2 DEF EntryFacts
    <3>. HIDE DEF w, bal
    <3>3. out.v.balanceOf = Raised(w.balanceOf, r, out.ret)
      BY <3>1, EntryEffect
    <3>. QED  BY <3>2, <3>3 DEF w
  <2>4. \A b \in Accounts : out.v.balanceOf[b] >= vault[v].balanceOf[b]
    BY <2>3, AccountShares DEF Raised
  <2>. QED  BY <2>1, <2>2, <2>4, AmountsAreWords, VaultCallTakesNone DEF EntryFacts
<1>5. ASSUME NEW c \in Users, NEW n \in Amounts, NEW v \in CeFiVaults, Redeem(c, v, n)
      PROVE NoneTaken
  <2>1. PICK out \in redeem(vault[v], token[AssetOf[v]], v, n, c, c) :
            Commit(VaultCalled(World, v, out))
    BY <1>5 DEF Redeem, VaultCall
  <2>2. ExitFacts(vault[v], token[AssetOf[v]], v, c, c, out.ret, n, out)
    BY OwnVault, AmountsAreWords, RedeemOutcome
  <2>3. out.v.balanceOf = Lowered(vault[v].balanceOf, c, n)
    BY <2>2, OwnVault, ExitEffect
  <2>4. \A b \in Accounts : out.v.balanceOf[b] >= vault[v].balanceOf[b]
    BY <2>3, AccountShares DEF Lowered
  <2>. QED  BY <2>1, <2>2, <2>4, VaultCallTakesNone DEF ExitFacts
<1>6. Investors \subseteq Users
  BY AccountAssumption
<1>. QED  BY <1>1, <1>2, <1>3, <1>4, <1>5, <1>6 DEF OthersNext, OtherCall

-----------------------------------------------------------------------------
(* Tokens leave an account only for its owner *)

\* Every link is to a vault the Bank supports, and none is ever taken off.
LinksSupported ==
    \A a \in Accounts, s \in SubIds : link[a][s].vault \in supportedVaults \cup {NoVault}

LEMMA NextLinks == ASSUME IInv, LinksSupported, [Next]_vars PROVE LinksSupported'
<1>1. CASE UNCHANGED <<bankVars, link>>
  BY <1>1 DEF bankVars, LinksSupported
<1>2. CASE UNCHANGED bankVars /\ \E c \in Users, a \in Accounts, s \in SubIds,
                                   v \in CeFiVaults : LinkSubaccountToVault(c, a, s, v)
  <2>1. PICK c \in Users, a \in Accounts, s \in SubIds, v \in CeFiVaults :
            LinkSubaccountToVault(c, a, s, v)
    BY <1>2
  <2>2. v \in supportedVaults /\ UNCHANGED supportedVaults
    BY <1>2, <2>1 DEF LinkSubaccountToVault, Bank!isVaultSupported, bankVars
  <2>3. PICK info : link' = [link EXCEPT ![a][s] = info] /\ info.vault = v
    <3>1. CASE book[a][s][AssetOf[v]] = 0
      <4>1. link[a][s] \in LinkType
        BY BooksAreWords
      <4>2. [link[a][s] EXCEPT !.vault = v].vault = v
        BY <4>1 DEF LinkType
      <4>3. link' = [link EXCEPT ![a][s] = [link[a][s] EXCEPT !.vault = v]]
        BY <2>1, <3>1 DEF LinkSubaccountToVault
      <4>. QED  BY <4>2, <4>3
    <3>2. CASE book[a][s][AssetOf[v]] # 0
      <4>1. PICK n : link' = [link EXCEPT ![a][s] = [vault |-> v, share |-> n]]
        BY <2>1, <3>2 DEF LinkSubaccountToVault
      <4>2. [vault |-> v, share |-> n].vault = v
        OBVIOUS
      <4>. QED  BY <4>1, <4>2
    <3>. QED  BY <3>1, <3>2
  <2>4. \A b \in Accounts, t \in SubIds :
            link'[b][t] = IF b = a /\ t = s THEN info ELSE link[b][t]
    <3>1. link \in [Accounts -> [SubIds -> LinkType]]
      BY DEF IInv, LinksType
    <3>. QED  BY <2>3, <3>1
  <2>. QED  BY <2>2, <2>3, <2>4 DEF LinksSupported
<1>3. CASE BankCall
  <2>1. supportedVaults \subseteq supportedVaults'
    BY <1>3 DEF BankCall, Bank!RegistryNext, Bank!NftNext, Bank!CreateAccount,
       Bank!AddAsset, Bank!CreateVaultCeFi, Bank!CreateVaultDeFi, Bank!SetApprovalForAll,
       Bank!Approve, Bank!TransferNft, Bank!registryVars
  <2>. QED  BY <1>3, <2>1 DEF BankCall, LinksSupported
<1>4. CASE AccountNext
  BY <1>1, <1>2, <1>4 DEF AccountNext, AccountCall, Deposit, Withdraw, InternalTransfer, InternalSwap,
     LinkSubaccountToVault
<1>5. CASE OthersNext
  BY <1>1, <1>5 DEF OthersNext, OtherCall, TokenTransfer, Borrow, Refund, Invest, Redeem, VaultCall
<1>6. CASE UNCHANGED vars
  BY <1>1, <1>6 DEF vars
<1>. QED  BY <1>3, <1>4, <1>5, <1>6, NextCases

\* A call of c that takes tokens out of an account is one of its owner.
OutflowIsOwners(c, a, x) ==
    token'[x][a] < token[x][a] =>
        /\ c = nftOwner[a]
        /\ PaidToOwner(a, x) \/ PaidIntoVault(a, x) \/ SwappedByOwner(a, x)

Outflows(c) == \A a \in Accounts, x \in Assets : OutflowIsOwners(c, a, x)

NoOutflow == \A a \in Accounts, x \in Assets : ~ (token'[x][a] < token[x][a])

\* An account that loses no tokens has no outflow.
LEMMA NoneTakenOutflows ==
    ASSUME IInv, NoneTaken PROVE NoOutflow /\ \A c \in Users : Outflows(c)
<1>1. \A a \in Accounts, x \in Assets : /\ token[x][a] \in Nat /\ token'[x][a] \in Nat
                                         /\ token'[x][a] >= token[x][a]
  BY TokensAreNaturals, Parties DEF NoneTaken
<1>. QED  BY <1>1 DEF Outflows, OutflowIsOwners, NoOutflow

\* A deposit passes through the account.
LEMMA DepositOutflows ==
    ASSUME IInv, NEW c \in Users, NEW a \in Accounts, NEW s \in SubIds, NEW x \in Assets,
           NEW n \in Amounts, Deposit(c, a, x, n, s)
    PROVE Outflows(c)
<1>1. /\ \A y \in Assets, b \in Accounts :
            token'[y][b] = token[y][b]
              + (IF ~invests(link[a][s], x) /\ y = x /\ b = a THEN n ELSE 0)
      /\ SharesKept(World, World', Accounts)
  BY DepositMoves
<1>2. n \in Nat /\ \A y \in Assets, b \in Accounts : token[y][b] \in Nat
  BY TokensAreNaturals, AmountsAreWords, Parties
<1>3. \A y \in Assets, b \in Accounts :
          token'[y][b] \in Nat /\ token'[y][b] >= token[y][b]
  BY <1>1, <1>2
<1>4. NoneTaken
  BY <1>1, <1>3 DEF NoneTaken
<1>. QED  BY <1>4, NoneTakenOutflows

\* A withdrawal is paid to the owner, out of the account or through it.
LEMMA WithdrawOutflows ==
    ASSUME IInv, NEW c \in Users, NEW a \in Accounts, NEW s \in SubIds, NEW x \in Assets,
           NEW n \in Amounts, Withdraw(c, a, x, n, s)
    PROVE Outflows(c)
<1>. SUFFICES ASSUME NEW b \in Accounts, NEW y \in Assets, token'[y][b] < token[y][b]
              PROVE c = nftOwner[b] /\ PaidToOwner(b, y)
  BY DEF Outflows, OutflowIsOwners
<1>1. /\ n \in Nat /\ c = nftOwner[a] /\ c # a /\ b # c
      /\ a \in Holders \ CeFiVaults /\ b \in Holders \ CeFiVaults /\ c \in Holders \ CeFiVaults
  BY AmountsAreWords, Parties DEF Withdraw, OnlyOwner
<1>2. token[y][b] \in Nat /\ token[x][c] \in Nat
  BY <1>1, TokensAreNaturals
<1>3. \A u \in Assets, h \in Holders \ CeFiVaults :
          token'[u][h] = token[u][h] + (IF u = x /\ h = c THEN n ELSE 0)
            - (IF ~invests(link[a][s], x) /\ u = x /\ h = a THEN n ELSE 0)
  BY WithdrawMoves
<1>4. b = a /\ y = x /\ token'[x][a] = token[x][a] - n
  BY <1>1, <1>2, <1>3
<1>5. token'[x][c] = token[x][c] + n
  BY <1>1, <1>2, <1>3
<1>. QED  BY <1>1, <1>2, <1>4, <1>5 DEF PaidToOwner

\* An internal transfer takes tokens out of the account only for a vault.
LEMMA InternalTransferOutflows ==
    ASSUME IInv, LinksSupported, NEW c \in Users, NEW a \in Accounts, NEW s \in SubIds,
           NEW t \in SubIds, NEW x \in Assets, NEW n \in Amounts,
           InternalTransfer(c, a, x, n, s, t)
    PROVE Outflows(c)
<1>. DEFINE from == invests(link[a][s], x)
            to == invests(link[a][t], x)
            v == link[a][t].vault
<1>. SUFFICES ASSUME NEW b \in Accounts, NEW y \in Assets, token'[y][b] < token[y][b]
              PROVE c = nftOwner[b] /\ PaidIntoVault(b, y)
  BY DEF Outflows, OutflowIsOwners
<1>1. /\ n \in Nat /\ a \in Holders /\ link[a][s] \in LinkType /\ link[a][t] \in LinkType
      /\ Good(World) /\ World.token = token /\ World.vault = vault /\ book[a][s][x] \in Nat
      /\ token[y][b] \in Nat
  BY AmountsAreWords, Parties, BooksAreWords, TokensAreNaturals
<1>2. /\ b = a /\ y = x /\ to /\ ~from
      /\ token'[x][a] = token[x][a] - n /\ token[x][a] \in Nat
  BY <1>1, InternalTransferMoves
<1>3. PICK d \in Debited(World, a, link[a][s], x, n, book[a][s][x]) :
          \E z \in Credited(d.world, a, link[a][t], x, n) : Commit(z)
  BY DEF InternalTransfer
<1>4. PICK z \in Credited(d.world, a, link[a][t], x, n) : Commit(z)
  BY <1>3
<1>5. d.world = World
  BY <1>1, <1>2, DebitedShifts
<1>6. Shift(World, z, x, a, v, n) /\ \E m \in Nat \ {0} : SharesShift(World, z, v, a, m)
  BY <1>1, <1>2, <1>4, <1>5, CreditedShifts
<1>7. v \in CeFiVaults /\ v \in Holders /\ a # v /\ AssetOf[v] = x /\ v \in supportedVaults
  <2>1. v \in CeFiVaults /\ AssetOf[v] = x
    BY <1>1, <1>2, LinkedVault DEF invests
  <2>2. v # NoVault
    BY <1>2 DEF invests
  <2>. QED  BY <2>1, <2>2, Parties DEF LinksSupported
<1>8. token' = z.token /\ vault' = z.vault
  BY <1>4, CommittedTokens
<1>9. token'[x][v] = token[x][v] + n
  BY <1>1, <1>6, <1>7, <1>8, TokensAreNaturals DEF Shift
<1>10. vault'[v].balanceOf[a] > vault[v].balanceOf[a]
  <2>1. vault[v].balanceOf[a] \in Nat
    BY <1>7, AccountShares
  <2>. QED  BY <1>1, <1>6, <1>7, <1>8, <2>1 DEF SharesShift
<1>11. token[x][a] - token'[x][a] = n
  BY <1>1, <1>2
<1>12. c = nftOwner[b]
  BY <1>2 DEF InternalTransfer, OnlyOwner
<1>. QED  BY <1>2, <1>7, <1>9, <1>10, <1>11, <1>12 DEF PaidIntoVault

\* A swap takes tokens out of the account for at least what its owner asked.
LEMMA InternalSwapOutflows ==
    ASSUME IInv, NEW c \in Users, NEW a \in Accounts, NEW x \in Assets,
           NEW y \in Assets \ {x}, NEW n \in Amounts, NEW min \in Amounts,
           InternalSwap(c, a, x, y, n, min)
    PROVE Outflows(c)
<1>. SUFFICES ASSUME NEW b \in Accounts, NEW u \in Assets, token'[u][b] < token[u][b]
              PROVE c = nftOwner[b] /\ SwappedByOwner(b, u)
  BY DEF Outflows, OutflowIsOwners
<1>1. PICK amountOut \in Nat :
          /\ amountOut >= min
          /\ \A w \in Assets, h \in Accounts :
               token'[w][h] = token[w][h] - (IF w = x /\ h = a THEN n ELSE 0)
                                          + (IF w = y /\ h = a THEN amountOut ELSE 0)
  BY InternalSwapMoves
<1>2. n \in Nat /\ min \in Nat /\ token[u][b] \in Nat /\ token[y][a] \in Nat
  BY AmountsAreWords, TokensAreNaturals, Parties
<1>3. b = a /\ u = x
  BY <1>1, <1>2
<1>4. token'[y][a] >= token[y][a] + min
  BY <1>1, <1>2
<1>. QED  BY <1>3, <1>4 DEF SwappedByOwner, InternalSwap, OnlyOwner

\* Linking takes the book out of the account for shares of the vault.
LEMMA LinkOutflows ==
    ASSUME IInv, NEW c \in Users, NEW a \in Accounts, NEW s \in SubIds,
           NEW v \in CeFiVaults, LinkSubaccountToVault(c, a, s, v)
    PROVE Outflows(c)
<1>. DEFINE x == AssetOf[v]
            n == book[a][s][x]
<1>1. CASE n = 0
  <2>1. UNCHANGED <<token, vault>>
    BY <1>1, EmptyLinkMoves
  <2>. QED  BY <2>1, UntouchedTakesNone, NoneTakenOutflows
<1>2. CASE n # 0
  <2>1. /\ x \in Assets /\ n \in Nat /\ a \in Holders \ CeFiVaults /\ v \in Holders
        /\ v \in supportedVaults /\ World.token = token /\ World.vault = vault
        /\ World'.token = token' /\ World'.vault = vault'
    BY Parties, BooksAreWords DEF LinkSubaccountToVault, Bank!isVaultSupported, World
  <2>2. Shift(World, World', x, a, v, n) /\ \E m \in Nat \ {0} : SharesShift(World, World', v, a, m)
    BY <1>2, LinkMoves
  <2>3. AssetOf[v] = x
    OBVIOUS
  <2>. HIDE DEF n, x
  <2>. SUFFICES ASSUME NEW b \in Accounts, NEW y \in Assets, token'[y][b] < token[y][b]
                PROVE c = nftOwner[b] /\ PaidIntoVault(b, y)
    BY DEF Outflows, OutflowIsOwners
  <2>4. /\ token[y][b] \in Nat /\ b \in Holders \ CeFiVaults
        /\ token[x][v] \in Nat /\ token[x][a] \in Nat /\ vault[v].balanceOf[a] \in Nat
    BY <2>1, TokensAreNaturals, Parties, AccountShares
  <2>5. b = a /\ y = x /\ token'[x][a] = token[x][a] - n
    BY <2>1, <2>2, <2>4 DEF Shift
  <2>6. token'[x][v] = token[x][v] + n
    BY <2>1, <2>2, <2>4 DEF Shift
  <2>7. vault'[v].balanceOf[a] > vault[v].balanceOf[a]
    BY <2>1, <2>2, <2>4 DEF SharesShift
  <2>8. c = nftOwner[b]
    BY <2>5 DEF LinkSubaccountToVault, OnlyOwner
  <2>. QED  BY <2>1, <2>3, <2>4, <2>5, <2>6, <2>7, <2>8 DEF PaidIntoVault
<1>. QED  BY <1>1, <1>2

\* No call of anybody but the owner takes tokens out of an account, and no call
\* of the Bank does.
LEMMA CallOutflows ==
    ASSUME IInv, LinksSupported, NEW c \in Users, Call(c) PROVE Outflows(c)
<1>1. CASE AccountCall(c)
  BY <1>1, DepositOutflows, WithdrawOutflows, InternalTransferOutflows,
     InternalSwapOutflows, LinkOutflows DEF AccountCall
<1>2. CASE OtherCall(c)
  BY <1>2, OthersTakeNone, NoneTakenOutflows DEF OthersNext
<1>. QED  BY <1>1, <1>2 DEF Call

LEMMA BankOutflows == ASSUME IInv, BankCall PROVE NoOutflow
  BY UntouchedTakesNone, NoneTakenOutflows DEF BankCall

LEMMA NextOutflows ==
    ASSUME IInv, LinksSupported, Next, NEW a \in Accounts, NEW x \in Assets,
           token'[x][a] < token[x][a]
    PROVE /\ \A c \in Users \ {nftOwner[a]} : ~ Call(c)
          /\ PaidToOwner(a, x) \/ PaidIntoVault(a, x) \/ SwappedByOwner(a, x)
<1>1. ASSUME NEW c \in Users, Call(c)
      PROVE /\ c = nftOwner[a]
            /\ PaidToOwner(a, x) \/ PaidIntoVault(a, x) \/ SwappedByOwner(a, x)
  BY <1>1, CallOutflows DEF Outflows, OutflowIsOwners
<1>2. ~ BankCall
  BY BankOutflows DEF NoOutflow
<1>. QED  BY <1>1, <1>2 DEF Next

-----------------------------------------------------------------------------
(* The theorems *)

\* Books, links, tokens and vaults stay in their types, and the shares of every
\* vault add up to its supply, whatever accounts, savers and vault owners do.
THEOREM LedgersAddUp == Spec => []IInv
<1>1. Init => IInv
  BY InitInvariant
<1>2. IInv /\ [Next]_vars => IInv'
  BY NextKeeps DEF Kept
<1>. QED  BY <1>1, <1>2, PTL DEF Spec

\* The checked share -= withdraw(amount) of updateVaultWithdraw never panics: a
\* debit within what a recorded share redeems for burns no more than that share.
THEOREM DebitsNeverUnderflow == Spec => []DebitNeverUnderflows
<1>1. ASSUME IInv PROVE DebitNeverUnderflows
  <2>. SUFFICES ASSUME NEW a \in Accounts, NEW s \in SubIds,
                       link[a][s].vault # NoVault,
                       NEW newBalance \in previewRedeem(vault[link[a][s].vault],
                                              Held(World, link[a][s].vault), link[a][s].share),
                       NEW n \in 0 .. UintMax, n <= newBalance,
                       NEW burnt \in previewWithdraw(vault[link[a][s].vault],
                                              Held(World, link[a][s].vault), n)
                PROVE burnt <= link[a][s].share
    BY DEF DebitNeverUnderflows
  <2>1. link[a][s].vault \in CeFiVaults /\ link[a][s].share \in Nat
    BY <1>1, BooksAreWords, AmountsAreWords DEF LinkType
  <2>2. /\ vault[link[a][s].vault] \in Store(Holders)
        /\ Held(World, link[a][s].vault) \in Nat
    <3>1. Good(World) /\ World.vault = vault
      BY <1>1 DEF IInv, World
    <3>. QED  BY <2>1, <3>1, GoodVault
  <2>3. n \in Nat
    BY UintMaxAssumption
  <2>. QED  BY <2>1, <2>2, <2>3, WithdrawWithinRedeem
<1>. QED  BY <1>1, LedgersAddUp, PTL

\* No transaction of an account lowers what the shares of a vault's other holders
\* are worth, not even one that withdraws and deposits again; only a refund with
\* a net loss does (deposit, withdraw, internalTransfer, linkSubaccountToVault).
THEOREM SharePricesNeverFall == Spec => SharePriceNeverFalls
<1>. DEFINE Step == \A v \in CeFiVaults :
                      (\E h \in Users : vault[v].balanceOf[h] > 0) =>
                      \/ Worth(vault[v], Held(World, v))' * vault[v].totalSupply
                            >= Worth(vault[v], Held(World, v)) * vault'[v].totalSupply
                      \/ ReportsNetLoss(v)
<1>1. ASSUME IInv, [Next]_vars PROVE [Step]_vars
  <2>1. StepIsFair
    BY <1>1, NextKeeps DEF Kept
  <2>. QED  BY <2>1 DEF StepIsFair, UsersHold, NoLoss, World
<1>. QED  BY <1>1, LedgersAddUp, PTL DEF Spec, SharePriceNeverFalls

LEMMA SupportedLinks == Spec => []LinksSupported
<1>1. ASSUME Init PROVE LinksSupported
  <2>1. \A a \in Accounts, s \in SubIds : link[a][s].vault = NoVault
    BY <1>1 DEF Init, NoLink
  <2>. QED  BY <2>1 DEF LinksSupported
<1>. QED  BY <1>1, NextLinks, LedgersAddUp, PTL DEF Spec

\* Only the present owner of an account can make a call that takes tokens out of
\* it, and they are paid to the owner, or go for shares of a supported vault in the
\* account's name, or for at least what the owner asked of a swap (deposit,
\* withdraw, internalTransfer, internalSwap, linkSubaccountToVault and the calls
\* of all others).
THEOREM OutflowsAreOwners == Spec => OutflowIsTheOwners
<1>. DEFINE Step == \A a \in Accounts, x \in Assets :
                      token'[x][a] < token[x][a] =>
                        /\ \A c \in Users \ {nftOwner[a]} : ~ Call(c)
                        /\ PaidToOwner(a, x) \/ PaidIntoVault(a, x) \/ SwappedByOwner(a, x)
<1>1. ASSUME IInv, LinksSupported, [Next]_vars PROVE [Step]_vars
  BY <1>1, NextOutflows
<1>. QED  BY <1>1, SupportedLinks, LedgersAddUp, PTL DEF Spec, OutflowIsTheOwners
=============================================================================
