----------------------------- MODULE BankHistory ----------------------------
(***************************************************************************)
(* The Bank with a history: under which owner each approval was given.     *)
(* The code does not keep it; no step of Bank reads it.                    *)
(***************************************************************************)
EXTENDS Bank

\* grantor[a]: who owned the token of a when its approval was last set.
VARIABLE grantor

historyVars == <<vars, grantor>>

HistoryInit == Init /\ grantor = [a \in Accounts |-> Nobody]

HistoryNext ==
    /\ Next
    /\ grantor' = [a \in Accounts |->
                     IF nftApproved'[a] # nftApproved[a] THEN nftOwner[a] ELSE grantor[a]]

HistorySpec == HistoryInit /\ [][HistoryNext]_historyVars

\* An approval to move an account was given under its present owner: one given
\* by an earlier owner does not survive the sale of the account (_approve and
\* _transfer of the ERC721).
ApprovalsAreTheOwners ==
    \A a \in Accounts : nftApproved[a] # Nobody => grantor[a] = nftOwner[a]
=============================================================================
