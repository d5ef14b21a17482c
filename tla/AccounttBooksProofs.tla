------------------------- MODULE AccounttBooksProofs -------------------------
(***************************************************************************)
(* The books of an account against what it holds, proved for every finite  *)
(* set of sub-accounts: the tokens of an account cover its uninvested      *)
(* books, and its vault shares the share numbers it recorded.  Only a      *)
(* second link of a sub-account breaks the first, and only that or a debit *)
(* of a linked one the second.  Both are sums over sub-accounts, of which  *)
(* an operation changes one or two.                                        *)
(***************************************************************************)
EXTENDS AccounttProofs

-----------------------------------------------------------------------------
(* A sum that an amount covers *)

LEMMA CoveredAfterNone ==
    ASSUME NEW D, IsFiniteSet(D), NEW f, \A u \in D : f[u] \in Nat,
           NEW h, \A u \in D : h[u] = f[u],
           NEW held \in Nat, NEW after \in Nat, after >= held, SumFunctionOnSet(f, D) <= held
    PROVE SumFunctionOnSet(h, D) <= after
<1>1. SumFunctionOnSet(h, D) = SumFunctionOnSet(f, D)
  BY SumCongruent
<1>2. SumFunctionOnSet(f, D) \in Nat
  BY SumWithout
<1>. QED  BY <1>1, <1>2

LEMMA CoveredAfterOne ==
    ASSUME NEW D, IsFiniteSet(D), NEW f, \A u \in D : f[u] \in Nat,
           NEW s \in D, NEW h, h[s] \in Nat, \A u \in D \ {s} : h[u] = f[u],
           NEW held \in Nat, NEW after \in Nat, h[s] + held <= f[s] + after,
           SumFunctionOnSet(f, D) <= held
    PROVE SumFunctionOnSet(h, D) <= after
<1>1. /\ SumFunctionOnSet(f, D) \in Nat /\ SumFunctionOnSet(h, D) \in Nat
      /\ SumFunctionOnSet(h, D) + f[s] = SumFunctionOnSet(f, D) + h[s]
  BY SumChanged
<1>2. f[s] \in Nat
  OBVIOUS
<1>. QED  BY <1>1, <1>2

LEMMA CoveredAfterTwo ==
    ASSUME NEW D, IsFiniteSet(D), NEW f, \A u \in D : f[u] \in Nat,
           NEW s \in D, NEW t \in D \ {s}, NEW h, h[s] \in Nat, h[t] \in Nat,
           \A u \in D \ {s, t} : h[u] = f[u],
           NEW held \in Nat, NEW after \in Nat, h[s] + h[t] + held <= f[s] + f[t] + after,
           SumFunctionOnSet(f, D) <= held
    PROVE SumFunctionOnSet(h, D) <= after
<1>. DEFINE k == [u \in D |-> IF u = s THEN h[s] ELSE f[u]]
<1>1. /\ k[s] = h[s] /\ k[t] = f[t]
      /\ \A u \in D : k[u] \in Nat
      /\ \A u \in D \ {s} : k[u] = f[u]
      /\ \A u \in D \ {t} : h[u] = k[u]
  OBVIOUS
<1>. HIDE DEF k
<1>2. /\ SumFunctionOnSet(f, D) \in Nat /\ SumFunctionOnSet(k, D) \in Nat
      /\ SumFunctionOnSet(k, D) + f[s] = SumFunctionOnSet(f, D) + k[s]
  BY <1>1, SumChanged
<1>3. /\ SumFunctionOnSet(h, D) \in Nat
      /\ SumFunctionOnSet(h, D) + k[t] = SumFunctionOnSet(k, D) + h[t]
  BY <1>1, SumChanged
<1>4. f[s] \in Nat /\ f[t] \in Nat
  OBVIOUS
<1>. QED  BY <1>1, <1>2, <1>3, <1>4

\* An unchecked addition never leaves more than the sum.
LEMMA WrappedNeverRaises == ASSUME NEW n \in Nat PROVE Wrapped(n) \in Nat /\ Wrapped(n) <= n
  BY UintMaxAssumption DEF Wrapped

-----------------------------------------------------------------------------
(* The invariant *)

\* The default sub-account is never linked, and one that was never linked has no
\* shares recorded: a link records shares of its own vault only.
LinksRecorded ==
    \A a \in Accounts :
        /\ link[a][DefaultSub].vault = NoVault
        /\ \A s \in SubIds : link[a][s].vault = NoVault => link[a][s].share = 0

BooksInv == IInv /\ LinksRecorded

LinksOnly(a, s, info) ==
    \A b \in Accounts, t \in SubIds :
        link'[b][t] = IF b = a /\ t = s THEN info ELSE link[b][t]

LEMMA LinkWritten ==
    ASSUME IInv, NEW a \in Accounts, NEW s \in SubIds, NEW info,
           link' = [link EXCEPT ![a][s] = info]
    PROVE LinksOnly(a, s, info)
  BY DEF IInv, LinksType, LinksOnly

\* What linking leaves of the old link: with an empty book, its share number.
LEMMA Linked ==
    ASSUME IInv, NEW c \in Users, NEW a \in Accounts, NEW s \in SubIds,
           NEW v \in CeFiVaults, LinkSubaccountToVault(c, a, s, v)
    PROVE \E m :
            /\ book[a][s][AssetOf[v]] = 0 => m = link[a][s].share
            /\ book[a][s][AssetOf[v]] # 0 => m \in Nat \ {0} /\ SharesShift(World, World', v, a, m)
            /\ LinksOnly(a, s, [vault |-> v, share |-> m])
<1>1. CASE book[a][s][AssetOf[v]] = 0
  <2>1. link[a][s] \in LinkType
    BY BooksAreWords
  <2>2. [link[a][s] EXCEPT !.vault = v] = [vault |-> v, share |-> link[a][s].share]
    BY <2>1 DEF LinkType
  <2>3. link' = [link EXCEPT ![a][s] = [vault |-> v, share |-> link[a][s].share]]
    BY <1>1, <2>2, EmptyLinkMoves
  <2>4. LinksOnly(a, s, [vault |-> v, share |-> link[a][s].share])
    BY <2>3, LinkWritten
  <2>. QED  BY <1>1, <2>4
<1>2. CASE book[a][s][AssetOf[v]] # 0
  <2>1. PICK m \in Nat \ {0} :
            /\ SharesShift(World, World', v, a, m)
            /\ link' = [link EXCEPT ![a][s] = [vault |-> v, share |-> m]]
    BY <1>2, LinkMoves
  <2>2. LinksOnly(a, s, [vault |-> v, share |-> m])
    BY <2>1, LinkWritten
  <2>. QED  BY <1>2, <2>1, <2>2
<1>. QED  BY <1>1, <1>2

LEMMA NextLinksRecorded == ASSUME BooksInv, [Next]_vars PROVE LinksRecorded'
<1>1. CASE UNCHANGED link
  BY <1>1 DEF BooksInv, LinksRecorded
<1>2. ASSUME NEW c \in Users, NEW a \in Accounts, NEW s \in SubIds, NEW v \in CeFiVaults,
             LinkSubaccountToVault(c, a, s, v)
      PROVE LinksRecorded'
  <2>0. IInv
    BY DEF BooksInv
  <2>1. PICK m : LinksOnly(a, s, [vault |-> v, share |-> m])
    BY <1>2, <2>0, Linked
  <2>2. s # DefaultSub /\ v # NoVault /\ DefaultSub \in SubIds
    BY <1>2, AccountAssumption DEF LinkSubaccountToVault
  <2>. QED  BY <2>1, <2>2 DEF BooksInv, LinksRecorded, LinksOnly
<1>3. CASE AccountNext
  BY <1>1, <1>2, <1>3 DEF AccountNext, AccountCall, Deposit, Withdraw, InternalTransfer, InternalSwap
<1>4. CASE OthersNext
  BY <1>1, <1>4 DEF OthersNext, OtherCall, TokenTransfer, Borrow, Refund, Invest, Redeem, VaultCall
<1>5. CASE BankCall
  BY <1>1, <1>5 DEF BankCall
<1>6. CASE UNCHANGED vars
  BY <1>1, <1>6 DEF vars
<1>. QED  BY <1>3, <1>4, <1>5, <1>6, NextCases



-----------------------------------------------------------------------------
(* Uninvested books against tokens *)

Idle(a, x) == { s \in SubIds : ~invests(link[a][s], x) }
Booked(a, x) == [s \in SubIds |-> book[a][s][x]]

\* What the lemmas on sums need to know of the books, before and after a step.
LEMMA IdleBooksAreSums ==
    ASSUME IInv, IInv', NEW a \in Accounts, NEW x \in Assets
    PROVE /\ IsFiniteSet(Idle(a, x)) /\ Idle(a, x) \subseteq SubIds
          /\ IdleBooks(a, x) = SumFunctionOnSet(Booked(a, x), Idle(a, x))
          /\ IdleBooks(a, x)' = SumFunctionOnSet(Booked(a, x)', Idle(a, x)')
          /\ token[x][a] \in Nat /\ token'[x][a] \in Nat
          /\ \A u \in SubIds :
               /\ Booked(a, x)[u] = book[a][u][x] /\ book[a][u][x] \in Nat
               /\ Booked(a, x)'[u] = book'[a][u][x] /\ book'[a][u][x] \in Nat
<1>1. IsFiniteSet(Idle(a, x)) /\ Idle(a, x) \subseteq SubIds
  BY FiniteAssumption, FS_Subset DEF Idle
<1>2. /\ IdleBooks(a, x) = SumFunctionOnSet(Booked(a, x), Idle(a, x))
      /\ IdleBooks(a, x)' = SumFunctionOnSet(Booked(a, x)', Idle(a, x)')
  BY DEF IdleBooks, Booked, Idle
<1>3. a \in Holders /\ Uint \subseteq Nat
  BY Parties, AmountsAreWords
<1>4. token[x][a] \in Nat /\ token'[x][a] \in Nat
  BY <1>3 DEF IInv, Good, Worlds, World, Ledger
<1>5. ASSUME NEW u \in SubIds
      PROVE /\ Booked(a, x)[u] = book[a][u][x] /\ book[a][u][x] \in Nat
            /\ Booked(a, x)'[u] = book'[a][u][x] /\ book'[a][u][x] \in Nat
  <2>1. /\ book[a] \in [SubIds -> [Assets -> Uint]]
        /\ book'[a] \in [SubIds -> [Assets -> Uint]]
    BY DEF IInv, BooksType
  <2>2. book[a][u] \in [Assets -> Uint] /\ book'[a][u] \in [Assets -> Uint]
    BY <2>1
  <2>. QED  BY <1>3, <2>2 DEF Booked
<1>. QED  BY <1>1, <1>2, <1>4, <1>5

\* Only the books of two sub-accounts change, s and t, and the tokens cover it.
\* s = t, or one of them is not idle: then its book does not count.
LEMMA BackedAfterChanges ==
    ASSUME IInv, IInv', NEW b \in Accounts, NEW y \in Assets, IdleBacked(b, y),
           Idle(b, y)' = Idle(b, y), NEW s \in SubIds, NEW t \in SubIds,
           \A u \in Idle(b, y) \ {s, t} : book'[b][u][y] = book[b][u][y],
           NEW raise \in Nat, NEW cut \in Nat,
           s \in Idle(b, y) => IF s = t
                              THEN book'[b][s][y] <= book[b][s][y] + raise - cut
                              ELSE book'[b][s][y] <= book[b][s][y] - cut,
           s # t /\ t \in Idle(b, y) => book'[b][t][y] <= book[b][t][y] + raise,
           token'[y][b] >= token[y][b] + (IF t \in Idle(b, y) THEN raise ELSE 0)
                                       - (IF s \in Idle(b, y) THEN cut ELSE 0)
    PROVE IdleBacked(b, y)'
<1>. DEFINE D == Idle(b, y)
            f == Booked(b, y)
            h == Booked(b, y)'
            held == token[y][b]
            after == token'[y][b]
<1>1. /\ IsFiniteSet(D) /\ D \subseteq SubIds /\ held \in Nat /\ after \in Nat
      /\ IdleBooks(b, y) = SumFunctionOnSet(f, D) /\ IdleBooks(b, y)' = SumFunctionOnSet(h, D)
      /\ \A u \in SubIds : /\ f[u] = book[b][u][y] /\ f[u] \in Nat
                            /\ h[u] = book'[b][u][y] /\ h[u] \in Nat
  BY IdleBooksAreSums
<1>2. SumFunctionOnSet(f, D) <= held
  BY <1>1 DEF IdleBacked
<1>3. /\ \A u \in D \ {s, t} : h[u] = f[u]
      /\ s \in D => IF s = t THEN h[s] <= f[s] + raise - cut ELSE h[s] <= f[s] - cut
      /\ s # t /\ t \in D => h[t] <= f[t] + raise
      /\ after >= held + (IF t \in D THEN raise ELSE 0) - (IF s \in D THEN cut ELSE 0)
  BY <1>1
<1>. SUFFICES SumFunctionOnSet(h, D) <= after
  BY <1>1 DEF IdleBacked
<1>. HIDE DEF D, f, h, held, after
<1>4. \A u \in D : f[u] \in Nat /\ h[u] \in Nat
  BY <1>1
<1>5. CASE s \notin D /\ t \notin D
  <2>1. \A u \in D : h[u] = f[u]
    BY <1>3, <1>5
  <2>2. after >= held
    BY <1>1, <1>3, <1>5
  <2>. QED  BY <1>1, <1>2, <1>4, <2>1, <2>2, CoveredAfterNone
<1>6. CASE s \in D /\ (s = t \/ t \notin D)
  <2>1. \A u \in D \ {s} : h[u] = f[u]
    BY <1>3, <1>6
  <2>2. h[s] + held <= f[s] + after
    BY <1>1, <1>3, <1>6
  <2>. QED  BY <1>1, <1>2, <1>4, <1>6, <2>1, <2>2, CoveredAfterOne
<1>7. CASE s \notin D /\ t \in D
  <2>1. \A u \in D \ {t} : h[u] = f[u]
    BY <1>3, <1>7
  <2>2. h[t] + held <= f[t] + after
    BY <1>1, <1>3, <1>7
  <2>. QED  BY <1>1, <1>2, <1>4, <1>7, <2>1, <2>2, CoveredAfterOne
<1>8. CASE s \in D /\ t \in D /\ s # t
  <2>1. h[s] + h[t] + held <= f[s] + f[t] + after
    BY <1>1, <1>3, <1>8
  <2>. QED  BY <1>1, <1>2, <1>3, <1>4, <1>8, <2>1, CoveredAfterTwo
<1>. QED  BY <1>5, <1>6, <1>7, <1>8

LEMMA BackedAfterNone ==
    ASSUME IInv, IInv', NEW b \in Accounts, NEW y \in Assets, IdleBacked(b, y),
           Idle(b, y)' = Idle(b, y),
           \A u \in Idle(b, y) : book'[b][u][y] = book[b][u][y],
           token'[y][b] >= token[y][b]
    PROVE IdleBacked(b, y)'
<1>1. DefaultSub \in SubIds
  BY AccountAssumption
<1>2. /\ book[b][DefaultSub][y] \in Nat /\ token[y][b] \in Nat
      /\ DefaultSub \in Idle(b, y) =>
           book'[b][DefaultSub][y] <= book[b][DefaultSub][y] + 0 - 0
      /\ \A d \in {0} : token'[y][b] >= token[y][b] + d - d
  BY <1>1, IdleBooksAreSums
<1>. QED  BY <1>1, <1>2, BackedAfterChanges

LEMMA IdleUnchanged ==
    ASSUME UNCHANGED link, NEW b, NEW y PROVE Idle(b, y)' = Idle(b, y)
  BY DEF Idle

\* Writing one book, and then another one.
LEMMA BookChanged ==
    ASSUME NEW f \in [Accounts -> [SubIds -> [Assets -> Int]]], NEW a \in Accounts,
           NEW s \in SubIds, NEW x \in Assets, NEW n \in Int,
           NEW h, h = [f EXCEPT ![a][s][x] = n]
    PROVE /\ h \in [Accounts -> [SubIds -> [Assets -> Int]]]
          /\ \A b \in Accounts, u \in SubIds, y \in Assets :
               h[b][u][y] = IF b = a /\ u = s /\ y = x THEN n ELSE f[b][u][y]
  OBVIOUS

LEMMA BooksAreIntegers ==
    ASSUME IInv PROVE book \in [Accounts -> [SubIds -> [Assets -> Int]]]
<1>1. Uint \subseteq Int
  BY AmountsAreWords
<1>2. [Assets -> Uint] \subseteq [Assets -> Int]
  BY <1>1
<1>3. [SubIds -> [Assets -> Uint]] \subseteq [SubIds -> [Assets -> Int]]
  BY <1>2
<1>. QED  BY <1>3 DEF IInv, BooksType

\* The book a debit leaves: of an idle sub-account, the amount less.
LEMMA DebitIsBooked ==
    ASSUME IInv, NEW a \in Accounts, NEW s \in SubIds, NEW x \in Assets, NEW n \in Nat,
           NEW d \in Debited(World, a, link[a][s], x, n, book[a][s][x])
    PROVE d.booked \in Nat /\ (~invests(link[a][s], x) => d.booked = book[a][s][x] - n)
<1>1. /\ book[a][s][x] \in Nat /\ book[a][s][x] \in Uint
      /\ link[a][s] \in LinkType /\ Good(World)
  BY BooksAreWords DEF IInv
<1>2. d.booked \in Uint
  BY <1>1, DebitedIsFair
<1>3. ~invests(link[a][s], x) => d.booked = book[a][s][x] - n
  BY <1>1 DEF Debited, Checked
<1>4. d.booked \in Nat
  BY <1>2, AmountsAreWords
<1>. QED  BY <1>3, <1>4

LEMMA DepositBacks ==
    ASSUME IInv, IInv', NEW c \in Users, NEW a \in Accounts, NEW s \in SubIds,
           NEW x \in Assets, NEW n \in Amounts, Deposit(c, a, x, n, s),
           NEW b \in Accounts, NEW y \in Assets, IdleBacked(b, y)
    PROVE IdleBacked(b, y)'
<1>. DEFINE raise == IF y = x /\ b = a THEN n ELSE 0
<1>1. n \in Nat /\ book[a][s][x] \in Nat /\ book[b][s][y] \in Nat /\ token[y][b] \in Nat
  BY AmountsAreWords, BooksAreWords, IdleBooksAreSums
<1>2. /\ Wrapped(book[a][s][x] + n) \in Nat
      /\ Wrapped(book[a][s][x] + n) <= book[a][s][x] + n
  BY <1>1, WrappedNeverRaises
<1>3. /\ book' = [book EXCEPT ![a][s][x] = Wrapped(book[a][s][x] + n)]
      /\ Idle(b, y)' = Idle(b, y)
  BY IdleUnchanged DEF Deposit
<1>4. \A u \in SubIds :
        book'[b][u][y] = IF b = a /\ u = s /\ y = x THEN Wrapped(book[a][s][x] + n)
                         ELSE book[b][u][y]
  BY <1>2, <1>3, BooksAreIntegers, BookChanged
<1>5. token'[y][b] = token[y][b]
          + (IF ~invests(link[a][s], x) /\ y = x /\ b = a THEN n ELSE 0)
  BY DepositMoves
<1>6. /\ \A u \in Idle(b, y) \ {s} : book'[b][u][y] = book[b][u][y]
      /\ book'[b][s][y] <= book[b][s][y] + raise - 0
      /\ raise \in Nat
      /\ token'[y][b] >= token[y][b] + (IF s \in Idle(b, y) THEN raise ELSE 0)
                                     - (IF s \in Idle(b, y) THEN 0 ELSE 0)
  BY <1>1, <1>2, <1>4, <1>5 DEF Idle
<1>. HIDE DEF raise
<1>. QED  BY <1>3, <1>6, BackedAfterChanges

LEMMA WithdrawBacks ==
    ASSUME IInv, IInv', NEW c \in Users, NEW a \in Accounts, NEW s \in SubIds,
           NEW x \in Assets, NEW n \in Amounts, Withdraw(c, a, x, n, s),
           NEW b \in Accounts, NEW y \in Assets, IdleBacked(b, y)
    PROVE IdleBacked(b, y)'
<1>. DEFINE cut == IF y = x /\ b = a THEN n ELSE 0
<1>1. n \in Nat /\ book[a][s][x] \in Nat /\ book[b][s][y] \in Nat /\ token[y][b] \in Nat
  BY AmountsAreWords, BooksAreWords, IdleBooksAreSums
<1>2. PICK d \in Debited(World, a, link[a][s], x, n, book[a][s][x]) :
          book' = [book EXCEPT ![a][s][x] = d.booked]
  BY DEF Withdraw
<1>3. d.booked \in Int /\ (~invests(link[a][s], x) => d.booked = book[a][s][x] - n)
  BY <1>1, DebitIsBooked
<1>4. Idle(b, y)' = Idle(b, y)
  BY IdleUnchanged DEF Withdraw
<1>5. \A u \in SubIds :
        book'[b][u][y] = IF b = a /\ u = s /\ y = x THEN d.booked ELSE book[b][u][y]
  BY <1>2, <1>3, BooksAreIntegers, BookChanged
<1>6. token'[y][b] = token[y][b]
          - (IF ~invests(link[a][s], x) /\ y = x /\ b = a THEN n ELSE 0)
  <2>1. b \in Holders \ CeFiVaults /\ b # c
    BY Parties
  <2>. QED  BY <1>1, <2>1, WithdrawMoves
<1>7. /\ \A u \in Idle(b, y) \ {s} : book'[b][u][y] = book[b][u][y]
      /\ s \in Idle(b, y) => book'[b][s][y] <= book[b][s][y] + 0 - cut
      /\ cut \in Nat
      /\ token'[y][b] >= token[y][b] + (IF s \in Idle(b, y) THEN 0 ELSE 0)
                                     - (IF s \in Idle(b, y) THEN cut ELSE 0)
  BY <1>1, <1>3, <1>5, <1>6 DEF Idle
<1>. HIDE DEF cut
<1>. QED  BY <1>4, <1>7, BackedAfterChanges

\* What leaves one book enters another one: from a book to itself, to or from one
\* that a vault invests, or between two idle ones.
LEMMA InternalTransferBacks ==
    ASSUME IInv, IInv', NEW c \in Users, NEW a \in Accounts, NEW s \in SubIds,
           NEW t \in SubIds, NEW x \in Assets, NEW n \in Amounts,
           InternalTransfer(c, a, x, n, s, t),
           NEW b \in Accounts, NEW y \in Assets, IdleBacked(b, y)
    PROVE IdleBacked(b, y)'
<1>. DEFINE m == IF y = x /\ b = a THEN n ELSE 0
<1>1. /\ n \in Nat /\ book[a][s][x] \in Nat /\ book[b][s][y] \in Nat
      /\ book[a][t][x] \in Nat /\ book[b][t][y] \in Nat /\ token[y][b] \in Nat
  BY AmountsAreWords, BooksAreWords, IdleBooksAreSums
<1>2. PICK d \in Debited(World, a, link[a][s], x, n, book[a][s][x]) :
          book' = Transferred(a, x, s, t, d.booked, n)
  BY DEF InternalTransfer
<1>3. d.booked \in Nat /\ (~invests(link[a][s], x) => d.booked = book[a][s][x] - n)
  BY <1>1, DebitIsBooked
<1>4. Idle(b, y)' = Idle(b, y)
  BY IdleUnchanged DEF InternalTransfer
<1>. DEFINE debited == [book EXCEPT ![a][s][x] = d.booked]
            credited == debited[a][t][x]
<1>5. /\ debited \in [Accounts -> [SubIds -> [Assets -> Int]]]
      /\ \A e \in Accounts, u \in SubIds, z \in Assets :
           debited[e][u][z] = IF e = a /\ u = s /\ z = x THEN d.booked ELSE book[e][u][z]
  BY <1>3, BooksAreIntegers, BookChanged
<1>6. book' = [debited EXCEPT ![a][t][x] = Wrapped(credited + n)]
  BY <1>2 DEF Transferred
<1>. HIDE DEF debited
<1>7. credited \in Nat /\ (s = t => credited = d.booked) /\ (s # t => credited = book[a][t][x])
  BY <1>1, <1>3, <1>5
<1>. HIDE DEF credited
<1>8. Wrapped(credited + n) \in Nat /\ Wrapped(credited + n) <= credited + n
  BY <1>1, <1>7, WrappedNeverRaises
<1>9. \A u \in SubIds :
        book'[b][u][y] = IF b = a /\ u = t /\ y = x THEN Wrapped(credited + n)
                         ELSE debited[b][u][y]
  BY <1>5, <1>6, <1>8, BookChanged
<1>10. token'[y][b] = token[y][b]
           + (IF invests(link[a][s], x) /\ y = x /\ b = a THEN n ELSE 0)
           - (IF invests(link[a][t], x) /\ y = x /\ b = a THEN n ELSE 0)
  BY InternalTransferMoves
<1>11. \A u \in Idle(b, y) \ {s, t} : book'[b][u][y] = book[b][u][y]
  BY <1>5, <1>9 DEF Idle
<1>12. s \in Idle(b, y) => IF s = t THEN book'[b][s][y] <= book[b][s][y] + m - m
                                   ELSE book'[b][s][y] <= book[b][s][y] - m
  BY <1>1, <1>3, <1>5, <1>7, <1>8, <1>9 DEF Idle
<1>13. s # t /\ t \in Idle(b, y) => book'[b][t][y] <= book[b][t][y] + m
  BY <1>1, <1>5, <1>7, <1>8, <1>9
<1>14. /\ m \in Nat
       /\ token'[y][b] >= token[y][b] + (IF t \in Idle(b, y) THEN m ELSE 0)
                                      - (IF s \in Idle(b, y) THEN m ELSE 0)
  BY <1>1, <1>10 DEF Idle
<1>. HIDE DEF m
<1>. QED  BY <1>4, <1>11, <1>12, <1>13, <1>14, BackedAfterChanges

\* A swap takes tokens and the book of the default sub-account, which is idle.
LEMMA InternalSwapBacks ==
    ASSUME BooksInv, IInv', NEW c \in Users, NEW a \in Accounts, NEW x \in Assets,
           NEW z \in Assets \ {x}, NEW n \in Amounts, NEW min \in Amounts,
           InternalSwap(c, a, x, z, n, min),
           NEW b \in Accounts, NEW y \in Assets, IdleBacked(b, y)
    PROVE IdleBacked(b, y)'
<1>. DEFINE s == DefaultSub
<1>1. IInv /\ s \in SubIds /\ \A e \in Assets : s \in Idle(b, e)
  BY AccountAssumption DEF BooksInv, LinksRecorded, Idle, invests
<1>2. PICK amountOut \in Nat :
          /\ book' = Swapped(a, x, z, n, amountOut)
          /\ token'[y][b] = token[y][b] - (IF y = x /\ b = a THEN n ELSE 0)
                                        + (IF y = z /\ b = a THEN amountOut ELSE 0)
  BY <1>1, InternalSwapMoves
<1>3. /\ n \in Nat /\ \A e \in Accounts, u \in Assets : book[e][s][u] \in Nat
      /\ token[y][b] \in Nat /\ book[a][s][x] >= n
  BY <1>1, AmountsAreWords, BooksAreWords, IdleBooksAreSums DEF InternalSwap
<1>4. Idle(b, y)' = Idle(b, y)
  BY IdleUnchanged DEF InternalSwap
<1>. DEFINE debited == [book EXCEPT ![a][s][x] = Wrapped(book[a][s][x] - n)]
<1>5. book[a][s][x] - n \in Nat
  BY <1>3
<1>6. /\ Wrapped(book[a][s][x] - n) \in Nat
      /\ Wrapped(book[a][s][x] - n) <= book[a][s][x] - n
  BY <1>5, WrappedNeverRaises
<1>7. /\ debited \in [Accounts -> [SubIds -> [Assets -> Int]]]
      /\ \A e \in Accounts, u \in SubIds, w \in Assets :
           debited[e][u][w] = IF e = a /\ u = s /\ w = x THEN Wrapped(book[a][s][x] - n)
                              ELSE book[e][u][w]
  BY <1>1, <1>6, BooksAreIntegers, BookChanged
<1>8. book' = [debited EXCEPT ![a][s][z] = Wrapped(debited[a][s][z] + amountOut)]
  BY <1>2 DEF Swapped
<1>. HIDE DEF debited
<1>9. debited[a][s][z] = book[a][s][z]
  BY <1>1, <1>7
<1>10. /\ Wrapped(book[a][s][z] + amountOut) \in Nat
       /\ Wrapped(book[a][s][z] + amountOut) <= book[a][s][z] + amountOut
  BY <1>3, WrappedNeverRaises
<1>11. \A u \in SubIds :
         book'[b][u][y] = IF b = a /\ u = s /\ y = z THEN Wrapped(book[a][s][z] + amountOut)
                          ELSE debited[b][u][y]
  BY <1>1, <1>7, <1>8, <1>9, <1>10, BookChanged
<1>. DEFINE cut == IF y = x /\ b = a THEN n ELSE 0
            raise == IF y = z /\ b = a THEN amountOut ELSE 0
<1>12. \A u \in Idle(b, y) \ {s} : book'[b][u][y] = book[b][u][y]
  BY <1>7, <1>11 DEF Idle
<1>13. book'[b][s][y] <= book[b][s][y] + raise - cut
  BY <1>1, <1>3, <1>6, <1>7, <1>10, <1>11
<1>14. /\ raise \in Nat /\ cut \in Nat
       /\ token'[y][b] >= token[y][b] + (IF s \in Idle(b, y) THEN raise ELSE 0)
                                      - (IF s \in Idle(b, y) THEN cut ELSE 0)
  BY <1>1, <1>2, <1>3
<1>. HIDE DEF raise, cut
<1>. QED  BY <1>1, <1>4, <1>12, <1>13, <1>14, BackedAfterChanges

\* What linking takes out of the account: the book of the vault's asset, if any.
LEMMA LinkTakesBook ==
    ASSUME IInv, NEW c \in Users, NEW a \in Accounts, NEW s \in SubIds,
           NEW v \in CeFiVaults, LinkSubaccountToVault(c, a, s, v),
           NEW b \in Accounts, NEW y \in Assets
    PROVE token'[y][b] = token[y][b]
                           - (IF y = AssetOf[v] /\ b = a THEN book[a][s][AssetOf[v]] ELSE 0)
<1>1. /\ token[y][b] \in Nat /\ b \in Holders \ CeFiVaults
      /\ AssetOf[v] \in Assets /\ book[a][s][AssetOf[v]] \in Nat
  BY TokensAreNaturals, Parties, BooksAreWords
<1>2. CASE book[a][s][AssetOf[v]] = 0
  <2>1. token' = token
    BY <1>2, EmptyLinkMoves
  <2>. QED  BY <1>1, <1>2, <2>1
<1>3. CASE book[a][s][AssetOf[v]] # 0
  <2>. DEFINE n == book[a][s][AssetOf[v]]
  <2>1. Shift(World, World', AssetOf[v], a, v, n)
    BY <1>3, LinkMoves
  <2>. HIDE DEF n
  <2>2. World'.token[y][b] = World.token[y][b] + 0 - (IF y = AssetOf[v] /\ b = a THEN n ELSE 0)
    BY <1>1, <2>1 DEF Shift
  <2>3. World'.token = token' /\ World.token = token
    BY DEF World
  <2>. QED  BY <1>1, <2>2, <2>3 DEF n
<1>. QED  BY <1>2, <1>3

\* A first link invests the whole book of the vault's asset, which was idle.
LEMMA LinkBacks ==
    ASSUME IInv, IInv', NEW c \in Users, NEW a \in Accounts, NEW s \in SubIds,
           NEW v \in CeFiVaults, LinkSubaccountToVault(c, a, s, v),
           NEW b \in Accounts, NEW y \in Assets, IdleBacked(b, y)
    PROVE IdleBacked(b, y)' \/ Relinks(b)
<1>. DEFINE x == AssetOf[v]
<1>1. CASE b = a /\ link[a][s].vault # NoVault
  BY <1>1 DEF Relinks
<1>2. PICK m : LinksOnly(a, s, [vault |-> v, share |-> m])
  BY Linked
<1>3. v # NoVault /\ x \in Assets /\ book' = book
  BY AccountAssumption, Parties DEF LinkSubaccountToVault
<1>4. token'[y][b] = token[y][b] - (IF y = x /\ b = a THEN book[a][s][x] ELSE 0)
  BY LinkTakesBook
<1>5. ASSUME NEW u \in SubIds
      PROVE invests(link'[b][u], y) = IF b = a /\ u = s THEN y = x ELSE invests(link[b][u], y)
  BY <1>2, <1>3 DEF LinksOnly, invests
<1>. DEFINE D == Idle(b, y)
            f == Booked(b, y)
            h == Booked(b, y)'
<1>6. /\ IsFiniteSet(D) /\ D \subseteq SubIds
      /\ IdleBooks(b, y) = SumFunctionOnSet(f, D)
      /\ IdleBooks(b, y)' = SumFunctionOnSet(h, Idle(b, y)')
      /\ token[y][b] \in Nat /\ token'[y][b] \in Nat
      /\ \A u \in SubIds : f[u] = book[b][u][y] /\ f[u] \in Nat
  BY IdleBooksAreSums
<1>7. h = f
  BY <1>3 DEF Booked
<1>8. CASE b = a /\ link[a][s].vault = NoVault /\ y = x
  <2>1. s \in D /\ Idle(b, y)' = D \ {s}
    BY <1>5, <1>8 DEF Idle, invests
  <2>2. token'[y][b] = token[y][b] - f[s]
    BY <1>4, <1>6, <1>8
  <2>3. SumFunctionOnSet(f, D) <= token[y][b]
    BY <1>6 DEF IdleBacked
  <2>. SUFFICES SumFunctionOnSet(f, D \ {s}) <= token'[y][b]
    BY <1>6, <1>7, <2>1 DEF IdleBacked
  <2>. HIDE DEF D, f, h
  <2>4. \A u \in D : f[u] \in Nat
    BY <1>6
  <2>5. /\ SumFunctionOnSet(f, D \ {s}) \in Nat
        /\ SumFunctionOnSet(f, D) = SumFunctionOnSet(f, D \ {s}) + f[s]
    BY <1>6, <2>1, <2>4, SumWithout
  <2>. QED  BY <1>6, <2>2, <2>3, <2>4, <2>5
<1>9. CASE b # a \/ (link[a][s].vault = NoVault /\ y # x)
  <2>1. Idle(b, y)' = D
    BY <1>5, <1>9 DEF Idle, invests
  <2>2. token'[y][b] >= token[y][b]
    BY <1>4, <1>6, <1>9
  <2>. QED  BY <1>3, <2>1, <2>2, BackedAfterNone
<1>. QED  BY <1>1, <1>8, <1>9

LEMMA NoneTakenBacks ==
    ASSUME IInv, IInv', NoneTaken, UNCHANGED <<book, link>>,
           NEW b \in Accounts, NEW y \in Assets, IdleBacked(b, y)
    PROVE IdleBacked(b, y)'
<1>1. token'[y][b] >= token[y][b]
  BY DEF NoneTaken
<1>. QED  BY <1>1, IdleUnchanged, BackedAfterNone

IdleStays(b, y) == IdleBacked(b, y) => IdleBacked(b, y)' \/ Relinks(b)

LEMMA NextBacks ==
    ASSUME BooksInv, IInv', Next, NEW b \in Accounts, NEW y \in Assets
    PROVE IdleStays(b, y)
<1>. SUFFICES ASSUME IdleBacked(b, y) PROVE IdleBacked(b, y)' \/ Relinks(b)
  BY DEF IdleStays
<1>1. IInv /\ DefaultSub \in SubIds
  BY AccountAssumption DEF BooksInv
<1>2. CASE AccountNext
  BY <1>1, <1>2, DepositBacks, WithdrawBacks, InternalTransferBacks, InternalSwapBacks,
     LinkBacks DEF AccountNext, AccountCall
<1>3. CASE OthersNext
  <2>1. NoneTaken
    BY <1>1, <1>3, OthersTakeNone
  <2>2. UNCHANGED <<book, link>>
    BY <1>3 DEF OthersNext, OtherCall, TokenTransfer, Borrow, Refund, Invest, Redeem, VaultCall
  <2>. QED  BY <1>1, <2>1, <2>2, NoneTakenBacks
<1>4. CASE BankCall
  BY <1>1, <1>4, UntouchedTakesNone, NoneTakenBacks DEF BankCall
<1>. QED  BY <1>2, <1>3, <1>4, NextCases

-----------------------------------------------------------------------------
(* Recorded share numbers against shares *)

Linkers(a, v) == { s \in SubIds : link[a][s].vault = v }
Recorded(a) == [s \in SubIds |-> link[a][s].share]

LEMMA RecordedSharesAreSums ==
    ASSUME IInv, IInv', NEW a \in Accounts, NEW v \in CeFiVaults
    PROVE /\ IsFiniteSet(Linkers(a, v)) /\ IsFiniteSet(Linkers(a, v)')
          /\ Linkers(a, v) \subseteq SubIds /\ Linkers(a, v)' \subseteq SubIds
          /\ RecordedShares(a, v) = SumFunctionOnSet(Recorded(a), Linkers(a, v))
          /\ RecordedShares(a, v)' = SumFunctionOnSet(Recorded(a)', Linkers(a, v)')
          /\ vault[v].balanceOf[a] \in Nat /\ vault'[v].balanceOf[a] \in Nat
          /\ \A u \in SubIds :
               /\ Recorded(a)[u] = link[a][u].share /\ link[a][u].share \in Nat
               /\ Recorded(a)'[u] = link'[a][u].share /\ link'[a][u].share \in Nat
<1>1. /\ IsFiniteSet(Linkers(a, v)) /\ IsFiniteSet(Linkers(a, v)')
      /\ Linkers(a, v) \subseteq SubIds /\ Linkers(a, v)' \subseteq SubIds
  BY FiniteAssumption, FS_Subset DEF Linkers
<1>2. /\ RecordedShares(a, v) = SumFunctionOnSet(Recorded(a), Linkers(a, v))
      /\ RecordedShares(a, v)' = SumFunctionOnSet(Recorded(a)', Linkers(a, v)')
  BY DEF RecordedShares, Recorded, Linkers
<1>3. a \in Holders /\ Uint \subseteq Nat
  BY Parties, AmountsAreWords
<1>4. vault[v].balanceOf[a] \in Nat
  BY <1>3, TokensAreNaturals, SharesAreNaturals
<1>5. vault'[v].balanceOf[a] \in Nat
  <2>1. Good(World') /\ World'.vault = vault'
    BY DEF IInv, Good, World
  <2>. QED  BY <1>3, <2>1, SharesAreNaturals
<1>6. ASSUME NEW u \in SubIds
      PROVE /\ Recorded(a)[u] = link[a][u].share /\ link[a][u].share \in Nat
            /\ Recorded(a)'[u] = link'[a][u].share /\ link'[a][u].share \in Nat
  <2>1. link[a] \in [SubIds -> LinkType] /\ link'[a] \in [SubIds -> LinkType]
    BY DEF IInv, LinksType
  <2>2. link[a][u].share \in Uint /\ link'[a][u].share \in Uint
    BY <2>1 DEF LinkType
  <2>. QED  BY <1>3, <2>2 DEF Recorded
<1>. QED  BY <1>1, <1>2, <1>4, <1>5, <1>6

\* The same share numbers, and no fewer shares.
LEMMA HeldAfterNone ==
    ASSUME IInv, IInv', NEW b \in Accounts, NEW v \in CeFiVaults, SharesHeld(b, v),
           Linkers(b, v)' = Linkers(b, v),
           \A u \in Linkers(b, v) : link'[b][u].share = link[b][u].share,
           vault'[v].balanceOf[b] >= vault[v].balanceOf[b]
    PROVE SharesHeld(b, v)'
<1>. DEFINE D == Linkers(b, v)
            f == Recorded(b)
            h == Recorded(b)'
            held == vault[v].balanceOf[b]
            after == vault'[v].balanceOf[b]
<1>1. /\ IsFiniteSet(D) /\ D \subseteq SubIds /\ held \in Nat /\ after \in Nat
      /\ RecordedShares(b, v) = SumFunctionOnSet(f, D)
      /\ RecordedShares(b, v)' = SumFunctionOnSet(h, D)
      /\ \A u \in SubIds : f[u] = link[b][u].share /\ f[u] \in Nat /\ h[u] = link'[b][u].share
  BY RecordedSharesAreSums
<1>2. SumFunctionOnSet(f, D) <= held /\ after >= held /\ \A u \in D : h[u] = f[u]
  BY <1>1 DEF SharesHeld
<1>. SUFFICES SumFunctionOnSet(h, D) <= after
  BY <1>1 DEF SharesHeld
<1>. HIDE DEF D, f, h, held, after
<1>3. \A u \in D : f[u] \in Nat
  BY <1>1
<1>. QED  BY <1>1, <1>2, <1>3, CoveredAfterNone

\* The operations other than links leave the share numbers as they were.
LEMMA KeptSharesHeld ==
    ASSUME IInv, IInv', UNCHANGED link, NEW S \in SUBSET Accounts, NEW b \in S,
           SharesKept(World, World', S), NEW v \in CeFiVaults, SharesHeld(b, v)
    PROVE SharesHeld(b, v)'
<1>1. vault'[v].balanceOf[b] >= vault[v].balanceOf[b]
  BY DEF SharesKept, World
<1>2. /\ Linkers(b, v)' = Linkers(b, v)
      /\ \A u \in Linkers(b, v) : link'[b][u].share = link[b][u].share
  BY DEF Linkers
<1>. QED  BY <1>1, <1>2, HeldAfterNone

\* A first link records the shares it buys, or none with an empty book.
LEMMA LinkHolds ==
    ASSUME BooksInv, IInv', NEW c \in Users, NEW a \in Accounts, NEW s \in SubIds,
           NEW v \in CeFiVaults, LinkSubaccountToVault(c, a, s, v),
           NEW b \in Accounts, NEW u \in CeFiVaults, SharesHeld(b, u)
    PROVE SharesHeld(b, u)' \/ Relinks(b)
<1>0. IInv
  BY DEF BooksInv
<1>1. CASE b = a /\ link[a][s].vault # NoVault
  BY <1>1 DEF Relinks
<1>2. PICK m :
        /\ book[a][s][AssetOf[v]] = 0 => m = link[a][s].share
        /\ book[a][s][AssetOf[v]] # 0 => m \in Nat \ {0} /\ SharesShift(World, World', v, a, m)
        /\ LinksOnly(a, s, [vault |-> v, share |-> m])
  BY <1>0, Linked
<1>3. /\ IsFiniteSet(Linkers(b, u)) /\ IsFiniteSet(Linkers(b, u)')
      /\ Linkers(b, u) \subseteq SubIds /\ Linkers(b, u)' \subseteq SubIds
      /\ RecordedShares(b, u) = SumFunctionOnSet(Recorded(b), Linkers(b, u))
      /\ RecordedShares(b, u)' = SumFunctionOnSet(Recorded(b)', Linkers(b, u)')
      /\ vault[u].balanceOf[b] \in Nat /\ vault'[u].balanceOf[b] \in Nat
      /\ \A t \in SubIds :
           /\ Recorded(b)[t] = link[b][t].share /\ Recorded(b)[t] \in Nat
           /\ Recorded(b)'[t] = link'[b][t].share /\ Recorded(b)'[t] \in Nat
  BY <1>0, RecordedSharesAreSums
<1>4. m = link'[a][s].share /\ link'[a][s].share \in Nat
  BY <1>0, <1>2, RecordedSharesAreSums DEF LinksOnly
<1>5. link[a][s].vault = NoVault /\ book[a][s][AssetOf[v]] = 0 => m = 0
  BY <1>2 DEF BooksInv, LinksRecorded
<1>6. link[a][s].vault = NoVault \/ b # a =>
        vault'[u].balanceOf[b] = vault[u].balanceOf[b] + (IF u = v /\ b = a THEN m ELSE 0)
  <2>1. b \in Holders /\ World.vault = vault /\ World'.vault = vault'
    BY Parties DEF World
  <2>2. CASE book[a][s][AssetOf[v]] = 0
    BY <1>0, <1>3, <1>5, <2>2, EmptyLinkMoves
  <2>3. CASE book[a][s][AssetOf[v]] # 0
    BY <1>2, <2>1, <2>3 DEF SharesShift
  <2>. QED  BY <2>2, <2>3
<1>7. v # NoVault /\ u # NoVault
  BY AccountAssumption
<1>8. CASE b = a /\ link[a][s].vault = NoVault /\ u = v
  <2>. DEFINE D == Linkers(b, u)
              E == Linkers(b, u)'
              f == Recorded(b)
              h == Recorded(b)'
  <2>1. s \in E /\ D = E \ {s}
    BY <1>2, <1>7, <1>8 DEF LinksOnly, Linkers
  <2>2. \A t \in E \ {s} : h[t] = f[t]
    BY <1>2, <1>3, <1>8 DEF LinksOnly
  <2>3. h[s] = m /\ \A t \in E : h[t] \in Nat /\ f[t] \in Nat
    BY <1>3, <1>4, <1>8
  <2>4. SumFunctionOnSet(f, D) <= vault[u].balanceOf[b]
    BY <1>3 DEF SharesHeld
  <2>. SUFFICES SumFunctionOnSet(h, E) <= vault'[u].balanceOf[b]
    BY <1>3 DEF SharesHeld
  <2>5. IsFiniteSet(D) /\ IsFiniteSet(E)
    BY <1>3
  <2>. HIDE DEF D, E, f, h
  <2>6. SumFunctionOnSet(h, D) = SumFunctionOnSet(f, D)
    BY <2>1, <2>2, <2>3, <2>5, SumCongruent
  <2>7. /\ SumFunctionOnSet(h, E \ {s}) \in Nat
        /\ SumFunctionOnSet(h, E) = SumFunctionOnSet(h, E \ {s}) + h[s]
    BY <2>1, <2>3, <2>5, SumWithout
  <2>8. vault'[u].balanceOf[b] = vault[u].balanceOf[b] + m
    BY <1>6, <1>8
  <2>. QED  BY <1>3, <1>4, <2>1, <2>3, <2>4, <2>6, <2>7, <2>8
<1>9. CASE b # a \/ (link[a][s].vault = NoVault /\ u # v)
  <2>1. Linkers(b, u)' = Linkers(b, u)
    BY <1>2, <1>7, <1>9 DEF LinksOnly, Linkers
  <2>2. \A t \in Linkers(b, u) : link'[b][t].share = link[b][t].share
    BY <1>2, <1>7, <1>9 DEF LinksOnly, Linkers
  <2>3. vault'[u].balanceOf[b] >= vault[u].balanceOf[b]
    BY <1>3, <1>6, <1>9
  <2>. QED  BY <1>0, <2>1, <2>2, <2>3, HeldAfterNone
<1>. QED  BY <1>1, <1>8, <1>9

SharesStay(b, v) == SharesHeld(b, v) => SharesHeld(b, v)' \/ DebitsLinked(b) \/ Relinks(b)

\* A debit takes shares from the account it is of, and only if a vault invests.
LEMMA DebitHolds ==
    ASSUME IInv, IInv', NEW c \in Users, NEW a \in Accounts, NEW s \in SubIds,
           NEW x \in Assets, NEW n \in Amounts,
           Withdraw(c, a, x, n, s) \/ \E t \in SubIds : InternalTransfer(c, a, x, n, s, t),
           NEW b \in Accounts, NEW v \in CeFiVaults
    PROVE SharesStay(b, v)
<1>1. CASE b = a /\ invests(link[a][s], x)
  BY <1>1 DEF DebitsLinked, SharesStay
<1>2. CASE b # a \/ ~invests(link[a][s], x)
  <2>1. SharesKept(World, World', Others(a, link[a][s], x)) /\ UNCHANGED link
    BY WithdrawMoves, InternalTransferMoves DEF Withdraw, InternalTransfer
  <2>2. b \in Others(a, link[a][s], x) /\ Others(a, link[a][s], x) \in SUBSET Accounts
    BY <1>2 DEF Others
  <2>. QED  BY <2>1, <2>2, KeptSharesHeld DEF SharesStay
<1>. QED  BY <1>1, <1>2

LEMMA NextHolds ==
    ASSUME BooksInv, IInv', Next, NEW b \in Accounts, NEW v \in CeFiVaults
    PROVE SharesStay(b, v)
<1>0. IInv
  BY DEF BooksInv
<1>1. ASSUME SharesKept(World, World', Accounts), UNCHANGED link PROVE SharesStay(b, v)
  BY <1>0, <1>1, KeptSharesHeld DEF SharesStay
<1>2. CASE AccountNext
  <2>. SUFFICES ASSUME NEW c \in Users, NEW a \in Accounts, NEW s \in SubIds,
                \/ \E x \in Assets, n \in Amounts :
                      \/ Deposit(c, a, x, n, s)
                      \/ Withdraw(c, a, x, n, s)
                      \/ \E t \in SubIds : InternalTransfer(c, a, x, n, s, t)
                      \/ \E y \in Assets \ {x}, min \in Amounts :
                            InternalSwap(c, a, x, y, n, min)
                \/ \E u \in CeFiVaults : LinkSubaccountToVault(c, a, s, u)
                PROVE SharesStay(b, v)
    BY <1>2 DEF AccountNext, AccountCall
  <2>1. ASSUME NEW x \in Assets, NEW n \in Amounts, Deposit(c, a, x, n, s)
        PROVE SharesStay(b, v)
    <3>1. SharesKept(World, World', Accounts)
      BY <1>0, <2>1, DepositMoves
    <3>. QED  BY <1>1, <2>1, <3>1 DEF Deposit
  <2>2. ASSUME NEW x \in Assets, NEW y \in Assets, NEW n \in Amounts, NEW min \in Amounts,
               InternalSwap(c, a, x, y, n, min)
        PROVE SharesStay(b, v)
    <3>1. vault' = vault /\ World'.vault = vault' /\ World.vault = vault
      BY <2>2 DEF InternalSwap, World
    <3>2. SharesKept(World, World', Accounts)
      BY <1>0, <3>1, SameSharesKept DEF IInv
    <3>. QED  BY <1>1, <2>2, <3>2 DEF InternalSwap
  <2>3. ASSUME NEW u \in CeFiVaults, LinkSubaccountToVault(c, a, s, u)
        PROVE SharesStay(b, v)
    BY <2>3, LinkHolds DEF SharesStay
  <2>4. ASSUME NEW x \in Assets, NEW n \in Amounts,
               Withdraw(c, a, x, n, s) \/ \E t \in SubIds : InternalTransfer(c, a, x, n, s, t)
        PROVE SharesStay(b, v)
    BY <1>0, <2>4, DebitHolds
  <2>. QED  BY <2>1, <2>2, <2>3, <2>4
<1>3. CASE OthersNext
  <2>1. NoneTaken
    BY <1>0, <1>3, OthersTakeNone
  <2>. QED  BY <1>1, <1>3, <2>1 DEF NoneTaken, OthersNext, OtherCall, TokenTransfer, Borrow, Refund,
                                    Invest, Redeem, VaultCall
<1>4. CASE BankCall
  BY <1>0, <1>1, <1>4, UntouchedTakesNone DEF BankCall, NoneTaken
<1>. QED  BY <1>2, <1>3, <1>4, NextCases

-----------------------------------------------------------------------------
(* The theorems *)

LEMMA BooksInvariant == Spec => []BooksInv
<1>1. ASSUME Init PROVE LinksRecorded
  <2>1. DefaultSub \in SubIds /\ link = [a \in Accounts |-> [s \in SubIds |-> NoLink]]
    BY <1>1, AccountAssumption DEF Init
  <2>. QED  BY <2>1 DEF LinksRecorded, NoLink
<1>2. IInv /\ LinksRecorded /\ [Next]_vars => LinksRecorded'
  BY NextLinksRecorded DEF BooksInv
<1>3. Spec => []LinksRecorded
  BY <1>1, <1>2, LedgersAddUp, PTL DEF Spec
<1>4. IInv /\ LinksRecorded <=> BooksInv
  BY DEF BooksInv
<1>. QED  BY <1>3, <1>4, LedgersAddUp, PTL

\* The tokens of an account cover its uninvested books, for any number of
\* sub-accounts and whatever happens to the vaults; only linking a sub-account a
\* second time (linkSubaccountToVault has no check against it) can end that.
THEOREM IdleBooksStayBacked == Spec => IdleStaysBacked
<1>1. ASSUME BooksInv, IInv', [Next]_vars
      PROVE [\A a \in Accounts, x \in Assets : IdleStays(a, x)]_vars
  BY <1>1, NextBacks
<1>2. [\A a \in Accounts, x \in Assets : IdleStays(a, x)]_vars
      => [\A a \in Accounts, x \in Assets :
            IdleBacked(a, x) => IdleBacked(a, x)' \/ Relinks(a)]_vars
  BY DEF IdleStays
<1>. QED  BY <1>1, <1>2, LedgersAddUp, BooksInvariant, PTL DEF Spec, IdleStaysBacked

\* The shares an account holds at a vault cover the share numbers its sub-accounts
\* recorded; only a debit of a linked sub-account, whose share number stays as it
\* was, and linking one a second time can end that.
THEOREM RecordedSharesStayHeld == Spec => SharesStayHeld
<1>1. ASSUME BooksInv, IInv', [Next]_vars
      PROVE [\A a \in Accounts, v \in CeFiVaults : SharesStay(a, v)]_vars
  BY <1>1, NextHolds
<1>2. [\A a \in Accounts, v \in CeFiVaults : SharesStay(a, v)]_vars
      => [\A a \in Accounts, v \in CeFiVaults :
            SharesHeld(a, v) => SharesHeld(a, v)' \/ DebitsLinked(a) \/ Relinks(a)]_vars
  BY DEF SharesStay
<1>. QED  BY <1>1, <1>2, LedgersAddUp, BooksInvariant, PTL DEF Spec, SharesStayHeld

\* An account deployed has no books and no links.
LEMMA NothingBooked ==
    ASSUME Init
    PROVE /\ \A a \in Accounts, x \in Assets : IdleBacked(a, x)
          /\ \A a \in Accounts, v \in CeFiVaults : SharesHeld(a, v)
<1>1. IInv
  BY InitInvariant
<1>2. ASSUME NEW a \in Accounts, NEW x \in Assets PROVE IdleBacked(a, x)
  <2>1. token[x][a] \in Nat
    BY <1>1, TokensAreNaturals, Parties
  <2>2. IsFiniteSet(Idle(a, x)) /\ \A u \in Idle(a, x) : Booked(a, x)[u] = 0
    BY FiniteAssumption, FS_Subset DEF Init, Booked, Idle
  <2>3. SumFunctionOnSet(Booked(a, x), Idle(a, x)) = 0
    BY <2>2, SumOfZeros
  <2>. QED  BY <2>1, <2>3 DEF IdleBacked, IdleBooks, Booked, Idle
<1>3. ASSUME NEW a \in Accounts, NEW v \in CeFiVaults PROVE SharesHeld(a, v)
  <2>1. vault[v].balanceOf[a] \in Nat
    BY <1>1, TokensAreNaturals, SharesAreNaturals, Parties
  <2>2. IsFiniteSet(Linkers(a, v)) /\ \A u \in Linkers(a, v) : Recorded(a)[u] = 0
    BY FiniteAssumption, FS_Subset DEF Init, NoLink, Recorded, Linkers
  <2>3. SumFunctionOnSet(Recorded(a), Linkers(a, v)) = 0
    BY <2>2, SumOfZeros
  <2>. QED  BY <2>1, <2>3 DEF SharesHeld, RecordedShares, Recorded, Linkers
<1>. QED  BY <1>2, <1>3

\* Savings stay secure when vaults fail, as the README promises, for an owner who
\* links each sub-account at most once: relinking is the only cause of what the
\* run Accountt_relink shows.
THEOREM IdleBackedWithoutRelinks ==
    Spec /\ [][\A a \in Accounts : ~Relinks(a)]_vars => []IdleAlwaysBacked
<1>1. Init => IdleAlwaysBacked
  BY NothingBooked DEF IdleAlwaysBacked
<1>2. ASSUME BooksInv, IInv', IdleAlwaysBacked, [Next]_vars,
             [\A a \in Accounts : ~Relinks(a)]_vars
      PROVE IdleAlwaysBacked'
  <2>1. CASE Next /\ \A a \in Accounts : ~Relinks(a)
    BY <1>2, <2>1, NextBacks DEF IdleStays, IdleAlwaysBacked
  <2>2. CASE UNCHANGED vars
    BY <1>2, <2>2 DEF vars, IdleAlwaysBacked, IdleBacked, IdleBooks
  <2>3. UNCHANGED vars \/ \A a \in Accounts : ~Relinks(a)
    BY <1>2
  <2>. QED  BY <1>2, <2>1, <2>2, <2>3
<1>. QED  BY <1>1, <1>2, LedgersAddUp, BooksInvariant, PTL DEF Spec

\* And the shares an account holds always cover its recorded share numbers when,
\* moreover, nothing is withdrawn or transferred out of a linked sub-account.
THEOREM SharesHeldWithoutDebits ==
    Spec /\ [][\A a \in Accounts : ~Relinks(a) /\ ~DebitsLinked(a)]_vars
      => [](\A a \in Accounts, v \in CeFiVaults : SharesHeld(a, v))
<1>. DEFINE Covered == \A a \in Accounts, v \in CeFiVaults : SharesHeld(a, v)
<1>1. Init => Covered
  BY NothingBooked
<1>2. ASSUME BooksInv, IInv', Covered, [Next]_vars,
             [\A a \in Accounts : ~Relinks(a) /\ ~DebitsLinked(a)]_vars
      PROVE Covered'
  <2>1. CASE Next /\ \A a \in Accounts : ~Relinks(a) /\ ~DebitsLinked(a)
    BY <1>2, <2>1, NextHolds DEF SharesStay
  <2>2. CASE UNCHANGED vars
    BY <1>2, <2>2 DEF vars, SharesHeld, RecordedShares
  <2>3. UNCHANGED vars \/ \A a \in Accounts : ~Relinks(a) /\ ~DebitsLinked(a)
    BY <1>2
  <2>. QED  BY <1>2, <2>1, <2>2, <2>3
<1>. HIDE DEF Covered
<1>3. Spec /\ [][\A a \in Accounts : ~Relinks(a) /\ ~DebitsLinked(a)]_vars => []Covered
  BY <1>1, <1>2, LedgersAddUp, BooksInvariant, PTL DEF Spec
<1>. QED  BY <1>3 DEF Covered

-----------------------------------------------------------------------------
(* The registry: what is proved of the Bank alone holds with its accounts *)

\* The history of approvals that BankProofs has besides does not matter here.
BP == INSTANCE BankProofs WITH grantor <- <<>>

\* The assumptions of the Bank.
LEMMA BankAssumed ==
    /\ Nobody \notin BP!NftHolders
    /\ Users \cap Accounts = {}
    /\ CeFiVaults \cap DeFiVaults = {}
    /\ AssetOf \in [BP!Vaults -> Assets]
    /\ BankAdmin \in Users
    /\ VaultAdmins \subseteq Users
    /\ NewOwners \subseteq Users
    /\ Operators \subseteq BP!NftHolders
    /\ Recipients \subseteq BP!NftHolders
    /\ BP!IsFiniteSet(Accounts)
<1>1. BP!IsFiniteSet(Accounts)
  BY FiniteAssumption DEF IsFiniteSet, BP!IsFiniteSet
<1>. QED  BY <1>1, RegistryAssumption DEF Bank!Vaults, Bank!NftHolders, BP!Vaults, BP!NftHolders

LEMMA BankInit == Init => BP!IInv
<1>1. Init => BP!Init
  BY DEF Init, Bank!Init, BP!Init, Bank!NftHolders, BP!NftHolders
<1>2. BP!Init => BP!IInv
  BY BankAssumed, BP!InitInvariant
<1>. QED  BY <1>1, <1>2

\* A step of the system is one of the Bank, or leaves it alone.
LEMMA StepOfBank == [Next]_vars => [BP!Next]_(BP!vars)
<1>1. CASE BankCall
  <2>1. Bank!RegistryNext => BP!RegistryNext
    BY DEF Bank!RegistryNext, Bank!CreateAccount, Bank!AddAsset, Bank!CreateVaultCeFi,
           Bank!CreateVaultDeFi, Bank!Created, Bank!isAssetSupported, Bank!isVaultSupported,
           Bank!registryVars, Bank!nftVars, Bank!Vaults,
           BP!RegistryNext, BP!CreateAccount, BP!AddAsset, BP!CreateVaultCeFi,
           BP!CreateVaultDeFi, BP!Created, BP!isAssetSupported, BP!isVaultSupported,
           BP!registryVars, BP!nftVars, BP!Vaults
  <2>2. Bank!NftNext => BP!NftNext
    BY DEF Bank!NftNext, Bank!SetApprovalForAll, Bank!Approve, Bank!TransferNft, Bank!Created,
           Bank!isApprovedOrOwner, Bank!ApprovalCleared, Bank!BalancesMoved,
           Bank!registryVars, Bank!NftHolders,
           BP!NftNext, BP!SetApprovalForAll, BP!Approve, BP!TransferNft, BP!Created,
           BP!isApprovedOrOwner, BP!ApprovalCleared, BP!BalancesMoved,
           BP!registryVars, BP!NftHolders
  <2>. QED  BY <1>1, <2>1, <2>2 DEF BankCall, BP!Next
<1>2. ASSUME UNCHANGED bankVars PROVE UNCHANGED BP!vars
  BY <1>2 DEF bankVars, BP!vars, BP!registryVars, BP!nftVars
<1>3. CASE AccountNext
  BY <1>2, <1>3 DEF AccountNext, AccountCall, Deposit, Withdraw, InternalTransfer, InternalSwap,
                    LinkSubaccountToVault
<1>4. CASE OthersNext
  BY <1>2, <1>4 DEF OthersNext, OtherCall, TokenTransfer, Borrow, Refund, Invest, Redeem, VaultCall
<1>5. CASE UNCHANGED vars
  BY <1>2, <1>5 DEF vars
<1>. QED  BY <1>1, <1>3, <1>4, <1>5, NextCases

LEMMA BankInvariant == Spec => []BP!IInv
<1>1. BP!IInv /\ [BP!Next]_(BP!vars) => BP!IInv'
  BY BankAssumed, BP!NextInvariant
<1>2. BP!IInv /\ [Next]_vars => BP!IInv'
  BY <1>1, StepOfBank
<1>. QED  BY <1>2, BankInit, PTL DEF Spec

\* Every variable of the accounts, vaults, tokens and the Bank stays in its type:
\* books and shares are words although they change in unchecked blocks, tokens
\* and the counts of account tokens never fall below zero.
THEOREM TypeCorrect == Spec => []TypeOK
<1>1. BP!IInv => Bank!TypeOK
  BY DEF BP!IInv, BP!TypeOK, Bank!TypeOK, Bank!Vaults, Bank!NftHolders, BP!Vaults, BP!NftHolders
<1>2. IInv => /\ book \in [Accounts -> [SubIds -> [Assets -> Uint]]]
              /\ link \in [Accounts -> [SubIds -> [vault : CeFiVaults \cup {NoVault}, share : Uint]]]
              /\ token \in [Assets -> [Holders -> Nat]]
              /\ vault \in [CeFiVaults -> [totalSupply   : Uint,
                                           balanceOf     : [Holders -> Uint],
                                           borrowedFunds : Uint]]
  BY DEF IInv, BooksType, LinksType, LinkType, Good, World, Worlds, Ledger, Store
<1>3. BP!IInv /\ IInv => TypeOK
  BY <1>1, <1>2 DEF TypeOK
<1>. QED  BY <1>3, BankInvariant, LedgersAddUp, PTL

\* No owner is stuck with a link: the asset of every linked vault is one that
\* withdraw and internalTransfer accept (createVaultCeFi, linkSubaccountToVault).
THEOREM LinkedAssetsAreSupported == Spec => []LinkedAssetsSupported
<1>1. ASSUME BP!IInv, LinksSupported PROVE LinkedAssetsSupported
  <2>1. \A v \in supportedVaults : AssetOf[v] \in supportedAssets
    BY <1>1 DEF BP!IInv, BP!SupportedVaultsHoldSupportedAssets
  <2>. QED  BY <1>1, <2>1 DEF LinksSupported, LinkedAssetsSupported
<1>. QED  BY <1>1, BankInvariant, SupportedLinks, PTL

=============================================================================
