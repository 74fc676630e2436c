-------------------------- MODULE DeliveryLifecycle --------------------------
(***************************************************************************)
(* What the queue promises, without ticks, leases, attempts or faults: the *)
(* statuses a campaign and its recipients go through.  SendQueue           *)
(* implements it.                                                          *)
(*                                                                         *)
(* A campaign is launched once, with everybody it will ever mail.  A row   *)
(* is claimed only while its campaign is active, a claim is resolved one   *)
(* way or another, and a row is withdrawn only while nobody holds it.  A   *)
(* campaign completes only when none of its rows is pending.               *)
(***************************************************************************)
CONSTANTS Campaigns, Addresses

VARIABLES
  campaign,  \* campaigns.status
  status     \* campaign_recipients.delivery_status

vars == <<campaign, status>>

Row           == Campaigns \X Addresses
RowsOf(c)     == {r \in Row : r[1] = c}
Pending       == {"QUEUED", "SENDING"}
Terminal      == {"SENT", "FAILED", "SUPPRESSED", "CANCELLED"}
Active        == {"QUEUED", "SENDING"}

Init ==
  /\ campaign = [c \in Campaigns |-> "DRAFT"]
  /\ status = [r \in Row |-> "ABSENT"]

SetStatus(S, to)   == status' = [r \in Row |-> IF r \in S THEN to ELSE status[r]]
SetCampaign(C, to) == campaign' = [c \in Campaigns |-> IF c \in C THEN to ELSE campaign[c]]

\* queueCampaign: never with an empty queue.
Launch(c) ==
  /\ campaign[c] = "DRAFT"
  /\ SetCampaign({c}, "QUEUED")
  /\ \E S \in SUBSET RowsOf(c) : /\ S # {}
                                 /\ \A r \in S : status[r] = "ABSENT"
                                 /\ SetStatus(S, "QUEUED")

Claim(S) ==
  /\ \A r \in S : status[r] = "QUEUED" /\ campaign[r[1]] \in Active
  /\ SetStatus(S, "SENDING")
  /\ UNCHANGED campaign

\* Sent, failed, suppressed at the last moment, or put back for another attempt.
Resolve(S, to) ==
  /\ \A r \in S : status[r] = "SENDING"
  /\ SetStatus(S, to)
  /\ UNCHANGED campaign

Withdraw(S, to) ==
  /\ \A r \in S : status[r] = "QUEUED"
  /\ SetStatus(S, to)
  /\ UNCHANGED campaign

\* Start, pause, resume and cancel.
Steer(C, to) ==
  /\ \A c \in C : <<campaign[c], to>> \in
       {<<"QUEUED", "SENDING">>, <<"QUEUED", "PAUSED">>, <<"SENDING", "PAUSED">>,
        <<"PAUSED", "SENDING">>, <<"QUEUED", "CANCELLED">>, <<"SENDING", "CANCELLED">>,
        <<"PAUSED", "CANCELLED">>}
  /\ SetCampaign(C, to)
  /\ UNCHANGED status

Complete(C) ==
  /\ \A c \in C : campaign[c] \in Active /\ \A r \in RowsOf(c) : status[r] \notin Pending
  /\ SetCampaign(C, "COMPLETED")
  /\ UNCHANGED status

Next ==
  \/ \E c \in Campaigns : Launch(c)
  \/ \E S \in SUBSET Row : \/ Claim(S)
                           \/ \E to \in {"QUEUED", "SENT", "FAILED", "SUPPRESSED"} : Resolve(S, to)
                           \/ \E to \in {"SUPPRESSED", "CANCELLED"} : Withdraw(S, to)
  \/ \E C \in SUBSET Campaigns : \/ \E to \in {"SENDING", "PAUSED", "CANCELLED"} : Steer(C, to)
                                 \/ Complete(C)

Spec == Init /\ [][Next]_vars

-----------------------------------------------------------------------------
\* A row that reached SENT, FAILED, SUPPRESSED or CANCELLED never changes its
\* status again.
TerminalIsFinal ==
  [][\A r \in Row : status[r] \in Terminal => status'[r] = status[r]]_vars

\* A COMPLETED campaign has nothing left to send, and never gets it back.
CompletedIsDone ==
  \A c \in Campaigns : campaign[c] = "COMPLETED" =>
    \A r \in RowsOf(c) : status[r] \notin Pending
=============================================================================
