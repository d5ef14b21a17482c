-------------------------- MODULE ShareVaultLemmas --------------------------
(***************************************************************************)
(* What the operators of ShareVault return, proved for every size of the   *)
(* machine word and every set of holders.                                  *)
(***************************************************************************)
EXTENDS ShareVault, TokenLedgerLemmas

-----------------------------------------------------------------------------
(* Words *)

\* Unchecked arithmetic always leaves a word.
LEMMA WrappedIsUint == ASSUME NEW n \in Int PROVE Wrapped(n) \in Uint
  BY UintMaxAssumption DEF Wrapped, Uint

\* And changes nothing that is a word already.
LEMMA WrappedOfUint == ASSUME NEW n \in Uint PROVE Wrapped(n) = n
  BY UintMaxAssumption DEF Wrapped, Uint

\* A word less a whole word wraps back to itself.
LEMMA WrappedBelowZero == ASSUME NEW n \in Uint PROVE Wrapped(n - (UintMax + 1)) = n
<1>. DEFINE M == UintMax + 1
            q == (n - M) \div M
            r == (n - M) % M
<1>1. M \in Nat /\ M > 0 /\ n \in 0 .. (M - 1)
  BY UintMaxAssumption DEF Uint
<1>. HIDE DEF M
<1>2. q \in Int /\ r \in 0 .. (M - 1) /\ n - M = M * q + r
  BY <1>1
<1>. HIDE DEF q, r
<1>3. ~ (q >= 0)
  <2>. SUFFICES ASSUME q >= 0 PROVE M * q >= 0
    BY <1>1, <1>2
  <2>. QED  BY <1>1, <1>2
<1>4. ~ (q <= -2)
  <2>. SUFFICES ASSUME q <= -2 PROVE M * q <= M * (-2)
    BY <1>1, <1>2
  <2>. QED  BY <1>1, <1>2
<1>5. q = -1
  BY <1>2, <1>3, <1>4
<1>6. M * q = 0 - M
  BY <1>1, <1>5
<1>7. r = n
  BY <1>1, <1>2, <1>6
<1>. QED  BY <1>7 DEF Wrapped, r, M

\* mulDivDown returns the largest z with z * d <= x * y.
LEMMA MulDivDown ==
    ASSUME NEW x \in Nat, NEW y \in Nat, NEW d \in Nat, NEW z \in mulDivDown(x, y, d)
    PROVE d > 0 /\ z \in Nat /\ z * d <= x * y
<1>1. d > 0 /\ z = (x * y) \div d
  BY DEF mulDivDown
<1>2. x * y \in Nat
  OBVIOUS
<1>. QED  BY <1>1, <1>2

\* mulDivUp returns the smallest z with z * d >= x * y.
LEMMA MulDivUp ==
    ASSUME NEW x \in Nat, NEW y \in Nat, NEW d \in Nat, NEW z \in mulDivUp(x, y, d)
    PROVE d > 0 /\ z \in Nat /\ z * d >= x * y
<1>. DEFINE p == x * y
            q == p \div d
            r == p % d
<1>1. d > 0 /\ z = q + (IF r > 0 THEN 1 ELSE 0)
  BY DEF mulDivUp
<1>2. p \in Nat
  OBVIOUS
<1>3. q \in Nat /\ r \in 0 .. (d - 1) /\ p = d * q + r
  <2>. HIDE DEF p
  <2>. QED  BY <1>1, <1>2
<1>. HIDE DEF p, q, r
<1>4. CASE r = 0
  BY <1>1, <1>3, <1>4 DEF p
<1>5. CASE r > 0
  <2>1. z = q + 1
    BY <1>1, <1>5
  <2>2. z * d = d * q + d
    BY <2>1, <1>1, <1>3
  <2>. QED  BY <2>1, <2>2, <1>1, <1>3 DEF p
<1>. QED  BY <1>3, <1>4, <1>5

\* Rounding up goes no further than the next whole number.
LEMMA MulDivUpBelow ==
    ASSUME NEW x \in Nat, NEW y \in Nat, NEW d \in Nat, NEW z \in mulDivUp(x, y, d),
           NEW k \in Nat, x * y <= k * d
    PROVE z <= k
<1>. DEFINE p == x * y
            q == p \div d
            r == p % d
<1>1. d > 0 /\ z = q + (IF r > 0 THEN 1 ELSE 0)
  BY DEF mulDivUp
<1>2. p \in Nat
  OBVIOUS
<1>3. q \in Nat /\ r \in 0 .. (d - 1) /\ p = d * q + r
  <2>. HIDE DEF p
  <2>. QED  BY <1>1, <1>2
<1>4. d * q + r <= k * d
  BY <1>3
<1>. HIDE DEF p, q, r
<1>5. d * q <= d * k /\ (r > 0 => d * q < d * k)
  BY <1>1, <1>3, <1>4
<1>6. q <= k /\ (r > 0 => q < k)
  BY <1>1, <1>3, <1>5
<1>. QED  BY <1>1, <1>3, <1>6

-----------------------------------------------------------------------------
(* The share token *)

Store(H) == [totalSupply : Uint, balanceOf : [H -> Uint], borrowedFunds : Uint]

\* The invariant of the share token: its balances add up to totalSupply.
Sound(v) == SumsTo(v.balanceOf, v.totalSupply)

\* The balances f with n more, or n less, at x.
Raised(f, x, n) == [f EXCEPT ![x] = f[x] + n]
Lowered(f, x, n) == [f EXCEPT ![x] = f[x] - n]

\* The words of a vault's storage are natural numbers below 2^256.
LEMMA StoreOfNaturals ==
    ASSUME NEW H, NEW v \in Store(H)
    PROVE /\ v.totalSupply \in Nat /\ v.totalSupply <= UintMax
          /\ v.borrowedFunds \in Nat /\ v.borrowedFunds <= UintMax
          /\ v.balanceOf \in [H -> Nat]
          /\ DOMAIN v.balanceOf = H
          /\ v.balanceOf \in [H -> Uint]
  BY UintMaxAssumption DEF Store, Uint

\* _mint keeps the balances adding up: the unchecked credit does not wrap, so
\* the receiver has all of it.
LEMMA MintSound ==
    ASSUME NEW H, NEW v \in Store(H), NEW to \in H, NEW n \in Nat, NEW w \in _mint(v, to, n)
    PROVE /\ w \in Store(H)
          /\ w.totalSupply = v.totalSupply + n
          /\ w.borrowedFunds = v.borrowedFunds
          /\ Sound(v) => /\ Sound(w)
                         /\ w.balanceOf = Raised(v.balanceOf, to, n)
<1>1. /\ v.totalSupply + n \in Uint
      /\ w = [v EXCEPT !.totalSupply = v.totalSupply + n,
                       !.balanceOf = Credit(v.balanceOf, to, n)]
  BY DEF _mint, Checked
<1>2. /\ w.totalSupply = v.totalSupply + n
      /\ w.borrowedFunds = v.borrowedFunds
      /\ w.balanceOf = [v.balanceOf EXCEPT ![to] = Wrapped(v.balanceOf[to] + n)]
  BY <1>1 DEF Store, Credit
<1>3. v.balanceOf[to] \in Nat /\ v.totalSupply \in Nat
  BY StoreOfNaturals
<1>4. Wrapped(v.balanceOf[to] + n) \in Uint
  BY <1>3, WrappedIsUint
<1>5. w \in Store(H)
  BY <1>1, <1>4 DEF Store, Credit
<1>6. ASSUME Sound(v)
      PROVE /\ Sound(w)
            /\ w.balanceOf = Raised(v.balanceOf, to, n)
  <2>1. v.balanceOf[to] <= v.totalSupply
    BY <1>6, StoreOfNaturals, PartsWithinTotal DEF Sound
  <2>2. v.balanceOf[to] + n \in Uint
    BY <2>1, <1>1, <1>3, UintMaxAssumption DEF Uint
  <2>3. w.balanceOf = [v.balanceOf EXCEPT ![to] = v.balanceOf[to] + n]
    BY <1>2, <2>2, WrappedOfUint
  <2>. QED  BY <1>2, <1>6, <2>3, StoreOfNaturals, SumCredited DEF Sound, Raised
<1>. QED  BY <1>2, <1>5, <1>6

\* _burn too: the checked debit bounds the unchecked one of the supply.
LEMMA BurnSound ==
    ASSUME NEW H, NEW v \in Store(H), NEW from \in H, NEW n \in Nat,
           NEW w \in _burn(v, from, n)
    PROVE /\ w \in Store(H)
          /\ w.borrowedFunds = v.borrowedFunds
          /\ n <= v.balanceOf[from]
          /\ w.balanceOf = Lowered(v.balanceOf, from, n)
          /\ Sound(v) => Sound(w) /\ w.totalSupply = v.totalSupply - n
<1>1. /\ v.balanceOf[from] - n \in Uint
      /\ w = [v EXCEPT !.totalSupply = Wrapped(v.totalSupply - n),
                       !.balanceOf = [v.balanceOf EXCEPT ![from] = v.balanceOf[from] - n]]
  BY DEF _burn, Debit, Checked
<1>2. /\ w.totalSupply = Wrapped(v.totalSupply - n)
      /\ w.borrowedFunds = v.borrowedFunds
      /\ w.balanceOf = [v.balanceOf EXCEPT ![from] = v.balanceOf[from] - n]
  BY <1>1 DEF Store
<1>3. v.totalSupply \in Nat /\ v.totalSupply <= UintMax /\ v.balanceOf[from] \in Nat
  BY StoreOfNaturals
<1>4. w \in Store(H)
  <2>1. Wrapped(v.totalSupply - n) \in Uint
    BY <1>3, WrappedIsUint
  <2>. QED  BY <1>1, <2>1 DEF Store
<1>5. n <= v.balanceOf[from]
  BY <1>1, <1>3, UintMaxAssumption DEF Uint
<1>6. ASSUME Sound(v) PROVE Sound(w) /\ w.totalSupply = v.totalSupply - n
  <2>1. v.balanceOf[from] <= v.totalSupply
    BY <1>6, StoreOfNaturals, PartsWithinTotal DEF Sound
  <2>2. v.totalSupply - n \in Uint
    BY <2>1, <1>5, <1>3, UintMaxAssumption DEF Uint
  <2>3. w.totalSupply = v.totalSupply - n
    BY <1>2, <2>2, WrappedOfUint
  <2>. QED  BY <1>2, <1>6, <1>5, <2>3, StoreOfNaturals, SumDebited DEF Sound
<1>. QED  BY <1>2, <1>4, <1>5, <1>6 DEF Lowered

\* transfer moves shares without changing their sum, also from a holder to itself.
LEMMA TransferSound ==
    ASSUME NEW H, NEW v \in Store(H), NEW from \in H, NEW to \in H, NEW n \in Nat,
           NEW w \in transfer(v, from, to, n)
    PROVE /\ w \in Store(H)
          /\ w.totalSupply = v.totalSupply
          /\ w.borrowedFunds = v.borrowedFunds
          /\ n <= v.balanceOf[from]
          /\ Sound(v) =>
               /\ Sound(w)
               /\ from = to => w.balanceOf = v.balanceOf
               /\ from # to =>
                     w.balanceOf = Raised(Lowered(v.balanceOf, from, n), to, n)
<1>. DEFINE f == v.balanceOf
            d == [f EXCEPT ![from] = f[from] - n]
<1>1. /\ f[from] - n \in Uint
      /\ w = [v EXCEPT !.balanceOf = Credit(d, to, n)]
  BY DEF transfer, Debit, Checked
<1>2. /\ f \in [H -> Nat] /\ f \in [H -> Uint] /\ v.totalSupply \in Nat
      /\ v.totalSupply <= UintMax
  BY StoreOfNaturals
<1>3. d \in [H -> Uint] /\ d \in [H -> Nat]
  BY <1>1, <1>2, UintMaxAssumption DEF Uint
<1>4. /\ w.balanceOf = [d EXCEPT ![to] = Wrapped(d[to] + n)]
      /\ w.totalSupply = v.totalSupply
      /\ w.borrowedFunds = v.borrowedFunds
  BY <1>1 DEF Store, Credit
<1>5. Wrapped(d[to] + n) \in Uint
  BY <1>3, WrappedIsUint
<1>6. w \in Store(H)
  BY <1>1, <1>3, <1>5 DEF Store, Credit
<1>7. n <= f[from]
  BY <1>1, <1>2, UintMaxAssumption DEF Uint
<1>8. ASSUME Sound(v)
      PROVE Sound(w) /\ w.balanceOf = [d EXCEPT ![to] = d[to] + n]
  <2>1. f[from] <= v.totalSupply
    BY <1>2, <1>8, PartsWithinTotal DEF Sound
  <2>2. SumsTo(d, v.totalSupply - n) /\ v.totalSupply - n \in Nat
    BY <1>2, <1>7, <1>8, <2>1, SumDebited DEF Sound
  <2>3. d[to] <= v.totalSupply - n
    BY <1>3, <2>2, PartsWithinTotal
  <2>4. d[to] + n \in Uint
    BY <1>2, <1>3, <2>2, <2>3, UintMaxAssumption DEF Uint
  <2>5. w.balanceOf = [d EXCEPT ![to] = d[to] + n]
    BY <1>4, <2>4, WrappedOfUint
  <2>6. SumsTo([d EXCEPT ![to] = d[to] + n], (v.totalSupply - n) + n)
    <3>. HIDE DEF d
    <3>. QED  BY <1>3, <2>2, SumCredited
  <2>7. (v.totalSupply - n) + n = w.totalSupply
    BY <1>2, <1>4
  <2>. QED  BY <2>5, <2>6, <2>7 DEF Sound
<1>9. CASE from = to
  <2>1. [d EXCEPT ![to] = d[to] + n] = f
    BY <1>2, <1>9
  <2>. QED  BY <1>4, <1>6, <1>7, <1>8, <1>9, <2>1
<1>10. CASE from # to
  BY <1>4, <1>6, <1>7, <1>8, <1>10 DEF Raised, Lowered
<1>. QED  BY <1>9, <1>10

-----------------------------------------------------------------------------
(* The four ERC4626 calls: what each moves, and which way it rounds *)

\* The four previews return natural numbers, or revert.
LEMMA PreviewsAreNaturals ==
    ASSUME NEW H, NEW v \in Store(H), NEW held \in Nat, NEW n \in Nat
    PROVE /\ previewDeposit(v, held, n) \subseteq Nat
          /\ previewMint(v, held, n) \subseteq Nat
          /\ previewWithdraw(v, held, n) \subseteq Nat
          /\ previewRedeem(v, held, n) \subseteq Nat
          /\ Worth(v, held) \in Nat
<1>1. v.totalSupply \in Nat /\ v.borrowedFunds \in Nat
  BY StoreOfNaturals
<1>2. totalAssets(v, held) \subseteq Nat /\ Worth(v, held) \in Nat
  BY <1>1 DEF totalAssets, Checked, Worth, Uint
<1>. QED
  BY <1>1, <1>2, MulDivDown, MulDivUp
  DEF previewDeposit, previewMint, previewWithdraw, previewRedeem,
      convertToShares, convertToAssets

\* Shares for assets put in are rounded down.
LEMMA PreviewDepositRoundsDown ==
    ASSUME NEW H, NEW v \in Store(H), NEW held \in Nat, NEW assets \in Nat,
           v.totalSupply # 0, NEW shares \in previewDeposit(v, held, assets)
    PROVE shares * Worth(v, held) <= assets * v.totalSupply
<1>1. /\ Worth(v, held) \in Nat /\ v.totalSupply \in Nat
      /\ shares \in mulDivDown(assets, v.totalSupply, Worth(v, held))
  BY PreviewsAreNaturals, StoreOfNaturals
  DEF previewDeposit, convertToShares, totalAssets, Checked
<1>. QED  BY <1>1, MulDivDown

\* Assets for shares asked for are rounded up.
LEMMA PreviewMintRoundsUp ==
    ASSUME NEW H, NEW v \in Store(H), NEW held \in Nat, NEW shares \in Nat,
           v.totalSupply # 0, NEW assets \in previewMint(v, held, shares)
    PROVE shares * Worth(v, held) <= assets * v.totalSupply
<1>1. /\ Worth(v, held) \in Nat /\ v.totalSupply \in Nat
      /\ assets \in mulDivUp(shares, Worth(v, held), v.totalSupply)
  BY PreviewsAreNaturals, StoreOfNaturals DEF previewMint, totalAssets, Checked
<1>. QED  BY <1>1, MulDivUp

\* Shares for assets asked for are rounded up.
LEMMA PreviewWithdrawRoundsUp ==
    ASSUME NEW H, NEW v \in Store(H), NEW held \in Nat, NEW assets \in Nat,
           v.totalSupply # 0, NEW shares \in previewWithdraw(v, held, assets)
    PROVE assets * v.totalSupply <= shares * Worth(v, held)
<1>1. /\ Worth(v, held) \in Nat /\ v.totalSupply \in Nat
      /\ shares \in mulDivUp(assets, v.totalSupply, Worth(v, held))
  BY PreviewsAreNaturals, StoreOfNaturals DEF previewWithdraw, totalAssets, Checked
<1>. QED  BY <1>1, MulDivUp

\* Assets for shares given back are rounded down.
LEMMA PreviewRedeemRoundsDown ==
    ASSUME NEW H, NEW v \in Store(H), NEW held \in Nat, NEW shares \in Nat,
           v.totalSupply # 0, NEW assets \in previewRedeem(v, held, shares)
    PROVE assets * v.totalSupply <= shares * Worth(v, held)
<1>1. /\ Worth(v, held) \in Nat /\ v.totalSupply \in Nat
      /\ assets \in mulDivDown(shares, Worth(v, held), v.totalSupply)
  BY PreviewsAreNaturals, StoreOfNaturals
  DEF previewRedeem, convertToAssets, totalAssets, Checked
<1>. QED  BY <1>1, MulDivDown

\* What words of shares redeem for is a word.
LEMMA PreviewRedeemIsUint ==
    ASSUME NEW H, NEW v \in Store(H), NEW held \in Nat, NEW shares \in Uint,
           NEW assets \in previewRedeem(v, held, shares)
    PROVE assets \in Uint
<1>. DEFINE W == Worth(v, held)
            S == v.totalSupply
<1>1. shares \in Nat /\ W \in Nat /\ S \in Nat
  BY PreviewsAreNaturals, StoreOfNaturals, UintMaxAssumption DEF Uint
<1>2. CASE S = 0
  BY <1>2 DEF previewRedeem, convertToAssets
<1>3. CASE S # 0
  <2>1. assets \in mulDivDown(shares, W, S)
    BY <1>3 DEF previewRedeem, convertToAssets, totalAssets, Checked
  <2>2. assets \in Nat /\ assets * S <= shares * W
    BY <1>1, <2>1, MulDivDown
  <2>3. shares * W \in Uint
    BY <2>1 DEF mulDivDown
  <2>. HIDE DEF W, S
  <2>4. shares * W <= UintMax
    BY <2>3, UintMaxAssumption DEF Uint
  <2>5. assets <= assets * S
    BY <1>1, <1>3, <2>2
  <2>6. assets * S \in Nat /\ shares * W \in Nat
    BY <1>1, <2>2
  <2>. QED  BY <2>2, <2>4, <2>5, <2>6, UintMaxAssumption DEF Uint
<1>. QED  BY <1>2, <1>3

\* An amount the shares redeem for is not withdrawn for more than the shares.
LEMMA WithdrawWithinRedeem ==
    ASSUME NEW H, NEW v \in Store(H), NEW held \in Nat, NEW shares \in Nat,
           NEW assets \in previewRedeem(v, held, shares), NEW n \in Nat, n <= assets,
           NEW burnt \in previewWithdraw(v, held, n)
    PROVE burnt <= shares
<1>. DEFINE W == Worth(v, held)
            S == v.totalSupply
<1>1. W \in Nat /\ S \in Nat /\ assets \in Nat
  BY PreviewsAreNaturals, StoreOfNaturals
<1>2. CASE S = 0
  BY <1>2 DEF previewRedeem, convertToAssets, previewWithdraw
<1>3. CASE S # 0
  <2>1. burnt \in mulDivUp(n, S, W)
    BY <1>3 DEF previewWithdraw, totalAssets, Checked
  <2>2. assets * S <= shares * W
    BY <1>3, PreviewRedeemRoundsDown
  <2>. HIDE DEF W, S
  <2>3. n * S <= assets * S
    BY <1>1
  <2>4. n * S <= shares * W
    BY <1>1, <2>2, <2>3
  <2>. QED  BY <1>1, <2>1, <2>4, MulDivUpBelow
<1>. QED  BY <1>2, <1>3

\* deposit and mint are one exchange, withdraw and redeem the other: assets
\* against shares, at a rounding that favours the holders who stay.
EntryFacts(v, bal, self, caller, receiver, assets, shares, out) ==
    /\ assets \in Nat /\ shares \in Nat
    /\ CanPay(bal, caller, assets)
    /\ out.bal = Moved(bal, caller, self, assets)
    /\ out.v \in _mint(v, receiver, shares)
    /\ v.totalSupply = 0 => shares = assets
    /\ v.totalSupply # 0 => shares * Worth(v, bal[self]) <= assets * v.totalSupply

ExitFacts(v, bal, self, receiver, owner, assets, shares, out) ==
    /\ assets \in Nat /\ shares \in Nat
    /\ CanPay(bal, self, assets)
    /\ out.bal = Moved(bal, self, receiver, assets)
    /\ out.v \in _burn(v, owner, shares)
    /\ v.totalSupply = 0 => assets = shares
    /\ v.totalSupply # 0 => assets * v.totalSupply <= shares * Worth(v, bal[self])

\* deposit returns the shares it mints.
LEMMA DepositOutcome ==
    ASSUME NEW H, NEW v \in Store(H), NEW bal \in [H -> Nat], NEW self \in H,
           NEW caller \in H, NEW receiver \in H, NEW assets \in Nat,
           NEW out \in deposit(v, bal, self, caller, assets, receiver)
    PROVE EntryFacts(v, bal, self, caller, receiver, assets, out.ret, out)
<1>1. PICK shares \in previewDeposit(v, bal[self], assets) :
          out \in Entered(v, bal, self, caller, receiver, assets, shares, shares)
  BY DEF deposit
<1>2. /\ out.v \in _mint(v, receiver, shares) /\ out.ret = shares
      /\ CanPay(bal, caller, assets) /\ out.bal = Moved(bal, caller, self, assets)
  BY <1>1 DEF Entered
<1>3. bal[self] \in Nat
  OBVIOUS
<1>4. v.totalSupply = 0 => shares = assets
  BY <1>1 DEF previewDeposit, convertToShares
<1>. QED
  BY <1>1, <1>2, <1>3, <1>4, PreviewsAreNaturals, PreviewDepositRoundsDown DEF EntryFacts

\* mint returns the assets it takes.
LEMMA MintOutcome ==
    ASSUME NEW H, NEW v \in Store(H), NEW bal \in [H -> Nat], NEW self \in H,
           NEW caller \in H, NEW receiver \in H, NEW shares \in Nat,
           NEW out \in mint(v, bal, self, caller, shares, receiver)
    PROVE EntryFacts(v, bal, self, caller, receiver, out.ret, shares, out)
<1>1. PICK assets \in previewMint(v, bal[self], shares) :
          out \in Entered(v, bal, self, caller, receiver, assets, shares, assets)
  BY DEF mint
<1>2. /\ out.v \in _mint(v, receiver, shares) /\ out.ret = assets
      /\ CanPay(bal, caller, assets) /\ out.bal = Moved(bal, caller, self, assets)
  BY <1>1 DEF Entered
<1>3. bal[self] \in Nat
  OBVIOUS
<1>4. v.totalSupply = 0 => shares = assets
  BY <1>1 DEF previewMint
<1>. QED
  BY <1>1, <1>2, <1>3, <1>4, PreviewsAreNaturals, PreviewMintRoundsUp DEF EntryFacts

\* withdraw returns the shares it burns.
LEMMA WithdrawOutcome ==
    ASSUME NEW H, NEW v \in Store(H), NEW bal \in [H -> Nat], NEW self \in H,
           NEW receiver \in H, NEW owner \in H, NEW assets \in Nat,
           NEW out \in withdraw(v, bal, self, assets, receiver, owner)
    PROVE ExitFacts(v, bal, self, receiver, owner, assets, out.ret, out)
<1>1. PICK shares \in previewWithdraw(v, bal[self], assets) :
          out \in Left(v, bal, self, receiver, owner, assets, shares, shares)
  BY DEF withdraw
<1>2. /\ out.v \in _burn(v, owner, shares) /\ out.ret = shares
      /\ CanPay(bal, self, assets) /\ out.bal = Moved(bal, self, receiver, assets)
  BY <1>1 DEF Left
<1>3. bal[self] \in Nat
  OBVIOUS
<1>4. assets \in Nat /\ shares \in Nat
  BY <1>3, PreviewsAreNaturals
<1>5. v.totalSupply = 0 => assets = shares
  BY <1>1 DEF previewWithdraw
<1>6. v.totalSupply # 0 => assets * v.totalSupply <= shares * Worth(v, bal[self])
  BY <1>1, <1>3, PreviewWithdrawRoundsUp
<1>. QED  BY <1>2, <1>4, <1>5, <1>6 DEF ExitFacts

\* redeem returns the assets it pays.
LEMMA RedeemOutcome ==
    ASSUME NEW H, NEW v \in Store(H), NEW bal \in [H -> Nat], NEW self \in H,
           NEW receiver \in H, NEW owner \in H, NEW shares \in Nat,
           NEW out \in redeem(v, bal, self, shares, receiver, owner)
    PROVE ExitFacts(v, bal, self, receiver, owner, out.ret, shares, out)
<1>1. PICK assets \in previewRedeem(v, bal[self], shares) :
          out \in Left(v, bal, self, receiver, owner, assets, shares, assets)
  BY DEF redeem
<1>2. /\ out.v \in _burn(v, owner, shares) /\ out.ret = assets
      /\ CanPay(bal, self, assets) /\ out.bal = Moved(bal, self, receiver, assets)
  BY <1>1 DEF Left
<1>3. bal[self] \in Nat
  OBVIOUS
<1>4. assets \in Nat /\ shares \in Nat
  BY <1>3, PreviewsAreNaturals
<1>5. v.totalSupply = 0 => assets = shares
  BY <1>1 DEF previewRedeem, convertToAssets
<1>6. v.totalSupply # 0 => assets * v.totalSupply <= shares * Worth(v, bal[self])
  BY <1>1, <1>3, PreviewRedeemRoundsDown
<1>. QED  BY <1>2, <1>4, <1>5, <1>6 DEF ExitFacts

\* No share loses value: Worth per share is compared by cross-multiplying.
NoShareLoses(v, bal, self, out) ==
    Worth(out.v, out.bal[self]) * v.totalSupply >= Worth(v, bal[self]) * out.v.totalSupply

\* deposit and mint keep the ledger sound and dilute nobody.
LEMMA EntryEffect ==
    ASSUME NEW H, NEW v \in Store(H), NEW bal \in [H -> Nat], NEW self \in H,
           NEW caller \in H \ {self}, NEW receiver \in H, NEW assets, NEW shares, NEW out,
           EntryFacts(v, bal, self, caller, receiver, assets, shares, out)
    PROVE /\ out.v \in Store(H) /\ out.bal \in [H -> Nat]
          /\ out.v.borrowedFunds = v.borrowedFunds
          /\ out.v.totalSupply = v.totalSupply + shares
          /\ out.bal[self] = bal[self] + assets
          /\ Sound(v) => /\ Sound(out.v)
                         /\ out.v.balanceOf = Raised(v.balanceOf, receiver, shares)
          /\ v.totalSupply # 0 => NoShareLoses(v, bal, self, out)
<1>. DEFINE S == v.totalSupply
            W == Worth(v, bal[self])
<1>1. assets \in Nat /\ shares \in Nat /\ S \in Nat /\ bal[self] \in Nat
      /\ v.borrowedFunds \in Nat
  BY StoreOfNaturals DEF EntryFacts
<1>2. /\ out.bal \in [H -> Nat]
      /\ out.bal[self] = bal[self] + assets
  BY <1>1, MovedBalances DEF EntryFacts
<1>3. /\ out.v \in Store(H)
      /\ out.v.borrowedFunds = v.borrowedFunds
      /\ out.v.totalSupply = S + shares
      /\ Sound(v) => /\ Sound(out.v)
                     /\ out.v.balanceOf = Raised(v.balanceOf, receiver, shares)
  <2>1. out.v \in _mint(v, receiver, shares)
    BY DEF EntryFacts
  <2>. QED  BY <1>1, <2>1, MintSound
<1>4. ASSUME S # 0 PROVE NoShareLoses(v, bal, self, out)
  <2>1. W \in Nat /\ Worth(out.v, out.bal[self]) = W + assets
    BY <1>1, <1>2, <1>3 DEF Worth
  <2>2. shares * W <= assets * S
    BY <1>4 DEF EntryFacts
  <2>. HIDE DEF S, W
  <2>3. (W + assets) * S >= W * (S + shares)
    BY <1>1, <2>1, <2>2
  <2>. QED  BY <1>3, <2>1, <2>3 DEF NoShareLoses, S, W
<1>. QED  BY <1>2, <1>3, <1>4

\* withdraw and redeem keep the ledger sound and take nothing from those who stay.
LEMMA ExitEffect ==
    ASSUME NEW H, NEW v \in Store(H), NEW bal \in [H -> Nat], NEW self \in H,
           NEW receiver \in H, NEW owner \in H, NEW assets, NEW shares, NEW out,
           Sound(v), ExitFacts(v, bal, self, receiver, owner, assets, shares, out)
    PROVE /\ out.v \in Store(H) /\ out.bal \in [H -> Nat]
          /\ out.v.borrowedFunds = v.borrowedFunds
          /\ out.v.totalSupply = v.totalSupply - shares
          /\ out.bal[self] = bal[self] - (IF receiver = self THEN 0 ELSE assets)
          /\ Sound(out.v)
          /\ shares <= v.balanceOf[owner]
          /\ out.v.balanceOf = Lowered(v.balanceOf, owner, shares)
          /\ v.totalSupply # 0 => NoShareLoses(v, bal, self, out)
<1>. DEFINE S == v.totalSupply
            W == Worth(v, bal[self])
            paid == IF receiver = self THEN 0 ELSE assets
<1>1. assets \in Nat /\ shares \in Nat /\ S \in Nat /\ bal[self] \in Nat
      /\ v.borrowedFunds \in Nat
  BY StoreOfNaturals DEF ExitFacts
<1>2. /\ out.bal \in [H -> Nat]
      /\ out.bal[self] = bal[self] - paid
  BY <1>1, MovedBalances DEF ExitFacts
<1>3. /\ out.v \in Store(H)
      /\ out.v.borrowedFunds = v.borrowedFunds
      /\ out.v.totalSupply = S - shares
      /\ Sound(out.v)
      /\ shares <= v.balanceOf[owner]
      /\ out.v.balanceOf = Lowered(v.balanceOf, owner, shares)
  <2>1. out.v \in _burn(v, owner, shares)
    BY DEF ExitFacts
  <2>. QED  BY <1>1, <2>1, BurnSound
<1>4. ASSUME S # 0 PROVE NoShareLoses(v, bal, self, out)
  <2>1. W \in Nat /\ Worth(out.v, out.bal[self]) = W - paid
    BY <1>1, <1>2, <1>3 DEF Worth
  <2>2. assets * S <= shares * W
    BY <1>4 DEF ExitFacts
  <2>3. paid * S <= assets * S /\ paid \in Nat
    BY <1>1
  <2>. HIDE DEF S, W, paid
  <2>4. (W - paid) * S >= W * (S - shares)
    BY <1>1, <2>1, <2>2, <2>3
  <2>. QED  BY <1>3, <2>1, <2>4 DEF NoShareLoses, S, W
<1>. QED  BY <1>2, <1>3, <1>4

-----------------------------------------------------------------------------
(* Loans *)

\* A loan turns tokens the vault holds into funds it is owed, one for one.
LEMMA BorrowEffect ==
    ASSUME NEW H, NEW v \in Store(H), NEW bal \in [H -> Nat], NEW self \in H,
           NEW caller \in H \ {self}, NEW amount \in Nat,
           NEW out \in borrow(v, bal, self, caller, amount)
    PROVE /\ out.v \in Store(H) /\ out.bal \in [H -> Nat]
          /\ out.v.totalSupply = v.totalSupply
          /\ out.v.balanceOf = v.balanceOf
          /\ out.v.borrowedFunds = v.borrowedFunds + amount
          /\ out.bal[self] = bal[self] - amount
          /\ out.bal[caller] = bal[caller] + amount
          /\ Worth(out.v, out.bal[self]) = Worth(v, bal[self])
          /\ out.v.borrowedFunds * BPS <= Worth(v, bal[self]) * MAX_BORROW_RATIO
<1>. DEFINE W == Worth(v, bal[self])
<1>1. /\ v.borrowedFunds + amount \in Uint
      /\ CanPay(bal, self, amount)
      /\ \E capacity \in borrowCapacityLeft(v, bal[self]) : amount <= capacity
      /\ out.v = [v EXCEPT !.borrowedFunds = v.borrowedFunds + amount]
      /\ out.bal = Moved(bal, self, caller, amount)
  BY DEF borrow, Checked
<1>2. v.borrowedFunds \in Nat /\ bal[self] \in Nat
  BY StoreOfNaturals
<1>3. /\ out.v \in Store(H)
      /\ out.v.totalSupply = v.totalSupply
      /\ out.v.balanceOf = v.balanceOf
      /\ out.v.borrowedFunds = v.borrowedFunds + amount
  BY <1>1 DEF Store
<1>4. /\ out.bal \in [H -> Nat]
      /\ out.bal[self] = bal[self] - amount
      /\ out.bal[caller] = bal[caller] + amount
  BY <1>1, MovedBalances
<1>5. W \in Nat /\ Worth(out.v, out.bal[self]) = W
  BY <1>2, <1>3, <1>4 DEF Worth
<1>6. amount <= ((W * MAX_BORROW_RATIO) \div BPS) - v.borrowedFunds
  BY <1>1 DEF borrowCapacityLeft, totalAssets, Checked
<1>7. ((W * MAX_BORROW_RATIO) \div BPS) * BPS <= W * MAX_BORROW_RATIO
      /\ ((W * MAX_BORROW_RATIO) \div BPS) \in Nat
  <2>. DEFINE p == W * MAX_BORROW_RATIO
  <2>1. p \in Nat /\ BPS \in Nat /\ BPS > 0
    BY <1>5, RatioAssumption
  <2>. HIDE DEF p
  <2>2. (p \div BPS) * BPS <= p /\ p \div BPS \in Nat
    BY <2>1
  <2>. QED  BY <2>2 DEF p
<1>8. (v.borrowedFunds + amount) * BPS <= ((W * MAX_BORROW_RATIO) \div BPS) * BPS
  <2>. DEFINE c == (W * MAX_BORROW_RATIO) \div BPS
              b == v.borrowedFunds + amount
  <2>1. c \in Nat /\ b \in Nat /\ b <= c /\ BPS \in Nat
    BY <1>2, <1>6, <1>7, RatioAssumption
  <2>. HIDE DEF c, b
  <2>2. b * BPS <= c * BPS
    BY <2>1
  <2>. QED  BY <2>2 DEF c, b
<1>9. out.v.borrowedFunds * BPS <= W * MAX_BORROW_RATIO
  <2>. DEFINE c == ((W * MAX_BORROW_RATIO) \div BPS) * BPS
              b == (v.borrowedFunds + amount) * BPS
              m == W * MAX_BORROW_RATIO
  <2>1. c \in Int /\ b \in Int /\ m \in Int
    BY <1>2, <1>5, <1>7, RatioAssumption
  <2>2. b <= c /\ c <= m
    BY <1>7, <1>8
  <2>. HIDE DEF c, b, m
  <2>3. b <= m
    BY <2>1, <2>2
  <2>. QED  BY <2>3, <1>3 DEF b, m
<1>. QED  BY <1>3, <1>4, <1>5, <1>9

\* The cast back to unsigned never makes borrowedFunds smaller than what was
\* owed less what is refunded; it makes it much larger when it wraps.
LEMMA RefundNeverForgetsFunds ==
    ASSUME NEW b \in Uint, NEW a \in Uint, NEW r \in borrowedAfterRefund(b, a)
    PROVE r \in Uint /\ r >= b - a
<1>. DEFINE M == UintMax + 1
            d == AsInt(b) - AsInt(a)
<1>1. M \in Nat /\ a \in 0 .. (M - 1) /\ b \in 0 .. (M - 1) /\ UintMax = M - 1
  BY UintMaxAssumption DEF Uint
<1>2. r = Wrapped(d)
  BY DEF borrowedAfterRefund, CheckedInt
<1>3. /\ d \in Int
      /\ \/ d = b - a
         \/ d = (b - a) - M
         \/ d = (b - a) + M /\ b <= a
  BY <1>1 DEF AsInt
<1>4. r \in Uint
  BY <1>2, <1>3, WrappedIsUint
<1>5. r \in Nat
  BY <1>4, <1>1 DEF Uint
<1>6. CASE b <= a
  BY <1>1, <1>4, <1>5, <1>6
<1>7. CASE b > a /\ d = b - a
  <2>1. d \in Uint
    BY <1>1, <1>7 DEF Uint
  <2>. QED  BY <2>1, <1>2, <1>4, <1>7, <1>1, WrappedOfUint
<1>8. CASE b > a /\ d = (b - a) - M
  <2>1. b - a \in Uint
    BY <1>1, <1>8 DEF Uint
  <2>2. r = b - a
    BY <2>1, <1>2, <1>8, WrappedBelowZero
  <2>. QED  BY <2>2, <1>1, <1>4
<1>. QED  BY <1>1, <1>3, <1>6, <1>7, <1>8

\* A refund without a net loss never lowers what the shares are worth.
LEMMA RefundEffect ==
    ASSUME NEW H, NEW v \in Store(H), NEW bal \in [H -> Nat], NEW self \in H,
           NEW caller \in H \ {self},
           NEW amount \in Uint, NEW interests \in Uint, NEW losses \in Uint,
           NEW out \in refund(v, bal, self, caller, amount, interests, losses)
    PROVE /\ out.v \in Store(H) /\ out.bal \in [H -> Nat]
          /\ out.v.totalSupply = v.totalSupply
          /\ out.v.balanceOf = v.balanceOf
          /\ out.bal[self] >= bal[self]
          /\ losses <= interests => Worth(out.v, out.bal[self]) >= Worth(v, bal[self])
<1>. DEFINE sum == (amount + interests) - losses
<1>1. PICK b \in borrowedAfterRefund(v.borrowedFunds, amount) :
          /\ sum \in Uint
          /\ CanPay(bal, caller, sum)
          /\ out.v = [v EXCEPT !.borrowedFunds = b]
          /\ out.bal = Moved(bal, caller, self, sum)
  BY DEF refund, refundSum, Checked
<1>2. /\ v.borrowedFunds \in Uint /\ v.borrowedFunds \in Nat /\ bal[self] \in Nat
      /\ amount \in Nat /\ interests \in Nat /\ losses \in Nat /\ sum \in Nat
  BY <1>1, StoreOfNaturals, UintMaxAssumption DEF Store, Uint
<1>3. b \in Uint /\ b \in Nat /\ b >= v.borrowedFunds - amount
  BY <1>2, RefundNeverForgetsFunds, UintMaxAssumption DEF Uint
<1>4. /\ out.v \in Store(H)
      /\ out.v.totalSupply = v.totalSupply
      /\ out.v.balanceOf = v.balanceOf
      /\ out.v.borrowedFunds = b
  BY <1>1, <1>3 DEF Store
<1>5. /\ out.bal \in [H -> Nat]
      /\ out.bal[self] = bal[self] + sum
  BY <1>1, <1>2, MovedBalances
<1>6. losses <= interests => Worth(out.v, out.bal[self]) >= Worth(v, bal[self])
  BY <1>2, <1>3, <1>4, <1>5 DEF Worth
<1>. QED  BY <1>2, <1>4, <1>5, <1>6
=============================================================================
