---------------------------- MODULE MCEntryForms ----------------------------
(* EntryForms for TLC: two accounts, one of them imported without a title, and one *)
(* authenticator; room for one more of each. The user types a dash, of which       *)
(* nothing is left when it is clean, and the code has one in its secret.           *)
EXTENDS EntryForms, TLC
CONSTANTS a1, a2, t1, t2
MCOldAccount == (a1 :> [title |-> "mail", user |-> "ann", password |-> "p"])
             @@ (a2 :> [title |-> Blank, user |-> "bob", password |-> "q"])
MCOldTotp == t1 :> [name |-> "cat", issuer |-> "shop", secret |-> "S", link |-> None]
MCCode == {[raw |-> FALSE, label |-> "site", account |-> "dan", issuer |-> Blank, secret |-> "k-k"]}
Upper == ("mail" :> "MAIL") @@ ("ann" :> "ANN") @@ ("p" :> "P") @@ ("bob" :> "BOB") @@ ("q" :> "Q")
         @@ ("cat" :> "CAT") @@ ("shop" :> "SHOP") @@ ("site" :> "SITE") @@ ("dan" :> "DAN")
         @@ ("k-k" :> "KK") @@ ("-" :> Blank)
MCClean == [s \in DOMAIN Upper \cup {Upper[t] : t \in DOMAIN Upper} \cup {Nul, "S"} |->
              IF s \in DOMAIN Upper THEN Upper[s] ELSE s]
=============================================================================
