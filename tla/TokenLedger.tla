---------------------------- MODULE TokenLedger ----------------------------
(***************************************************************************)
(* What admission promises about bearer tokens, with no store, tasks or    *)
(* messages: what each token stands for, from the moment it is generated.  *)
(* A token is "unused", then stands for one bearer (a member, the          *)
(* administrator, the invitation, or a request of its own), then is        *)
(* "spent", for ever.                                                      *)
(***************************************************************************)
CONSTANTS Token, Member

VARIABLE bearer

\* bearers that have at most one token at a time
Single == Member \cup {"admin", "invite"}

Free(b) == \A t \in Token : bearer[t] # b

Init ==
    /\ bearer \in [Token -> {"unused", "admin", "invite", "request", "spent"}]
    /\ \A t, u \in Token : t # u /\ bearer[t] \in Single => bearer[t] # bearer[u]

\* a new token for a bearer that has none
Mint(t, b) ==
    /\ bearer[t] = "unused"
    /\ b \in Single => Free(b)
    /\ bearer' = [bearer EXCEPT ![t] = b]

\* a new group: the administrator's token and the invitation
Found(t, u) ==
    /\ t # u /\ bearer[t] = "unused" /\ bearer[u] = "unused"
    /\ Free("admin") /\ Free("invite")
    /\ bearer' = [bearer EXCEPT ![t] = "admin", ![u] = "invite"]

\* rotation: the new token takes the place of the old one
Replace(t, u) ==
    /\ bearer[t] \in Single
    /\ bearer[u] = "unused"
    /\ bearer' = [bearer EXCEPT ![t] = "spent", ![u] = bearer[t]]

\* an approved request is exchanged for a new member's token
Exchange(t, u, m) ==
    /\ bearer[t] = "request"
    /\ bearer[u] = "unused"
    /\ Free(m)
    /\ bearer' = [bearer EXCEPT ![t] = "spent", ![u] = m]

\* a request is rejected, or redeemed in vain
Spend(t) ==
    /\ bearer[t] = "request"
    /\ bearer' = [bearer EXCEPT ![t] = "spent"]

\* the first conjunct only spares TLC the rest for steps that change no token
Next ==
    /\ bearer' # bearer
    /\ \/ \E t \in Token : Spend(t) \/ \E b \in Single \cup {"request"} : Mint(t, b)
       \/ \E t, u \in Token :
             Found(t, u) \/ Replace(t, u) \/ \E m \in Member : Exchange(t, u, m)

Spec == Init /\ [][Next]_bearer
=============================================================================
