--------------------------------- MODULE TestSmtp ---------------------------------
(***************************************************************************)
(* The built-in SMTP server of the test panel, src/lib/testing/            *)
(* test-smtp.ts, with the transport that talks to it: one server for the   *)
(* process, any number of connections, and addresses that say how they     *)
(* are to fail (test-addresses.ts).                                        *)
(*                                                                         *)
(* Lines and replies are on their way for a while, and a transport that    *)
(* gives up is gone before the server sees it.  Greetings, EHLO, AUTH and  *)
(* MAIL change nothing and are left out.                                   *)
(***************************************************************************)
EXTENDS Naturals, Sequences

CONSTANTS
  Callers,      \* who asks for the server: ticks, test messages, snapshots
  Connections,  \* the transport's pool
  Messages,     \* what is sent
  To,           \* the address of each
  Scenario,     \* what parseTestAddress reads in an address; "foreign" if nothing
  Failures,     \* .. and the number of failures in it
  Keep,         \* KEEP
  MaxTries      \* bound of the model: attempts at a message

ASSUME SmtpAssumption ==
  /\ 0 \notin Messages /\ Keep \in Nat
  /\ \A m \in Messages : To[m] \in DOMAIN Scenario
  /\ \A a \in DOMAIN Scenario :
       /\ Scenario[a] \in {"success", "slow", "tempfail", "permfail", "foreign"}
       /\ Failures[a] \in Nat /\ (Scenario[a] # "tempfail" => Failures[a] = 0)

VARIABLES
  shared,   \* the process's server: is there one, is one starting; and those that listen or begin to
  asking,   \* what each caller has
  conns,    \* connections: both ends and what is on its way
  refusals, \* the server's memory: refusals of each address
  received, \* the messages it has, as filed
  tries,    \* attempts at each message
  fate      \* what the worker knows of each

smtpVars == <<shared, asking, conns, refusals, received, tries, fate>>

Nobody == 0
NoLine == "none"

Closed == [up |-> FALSE, live |-> FALSE, message |-> Nobody, asked |-> NoLine, line |-> NoLine, reply |-> NoLine,
           recipients |-> <<>>, data |-> FALSE, held |-> <<>>]

SmtpInit ==
  /\ shared = [instance |-> FALSE, starting |-> FALSE, begun |-> 0, listening |-> 0]
  /\ asking = [p \in Callers |-> "nothing"]
  /\ conns = [c \in Connections |-> Closed]
  /\ refusals = [a \in DOMAIN Scenario |-> 0]
  /\ received = <<>>
  /\ tries = [m \in Messages |-> 0]
  /\ fate = [m \in Messages |-> "queued"]

-----------------------------------------------------------------------------
(* One server for the process. *)

EnsureSmtpAlone(p) ==
  /\ asking[p] \in {"nothing", "error"}
  /\ asking' = [asking EXCEPT ![p] = IF shared.instance THEN "server" ELSE "waiting"]
  /\ shared' = IF shared.instance THEN shared ELSE [shared EXCEPT !.starting = TRUE, !.begun = @ + 1]
  /\ UNCHANGED <<conns, refusals, received, tries, fate>>

(* ensureTestSmtp: a start under way is shared. *)
EnsureSmtp(p) ==
  /\ asking[p] \in {"nothing", "error"}
  /\ asking' = [asking EXCEPT ![p] = IF shared.instance THEN "server" ELSE "waiting"]
  /\ shared' = IF shared.instance \/ shared.starting THEN shared
               ELSE [shared EXCEPT !.starting = TRUE, !.begun = @ + 1]
  /\ UNCHANGED <<conns, refusals, received, tries, fate>>

Answered(what) == [p \in Callers |-> IF asking[p] = "waiting" THEN what ELSE asking[p]]

StartSucceeds ==
  /\ shared.begun > 0
  /\ shared' = [shared EXCEPT !.instance = TRUE, !.begun = @ - 1, !.listening = @ + 1]
  /\ asking' = Answered("server")
  /\ UNCHANGED <<conns, refusals, received, tries, fate>>

(* The port is taken: the next to ask begins again. *)
StartFails ==
  /\ shared.begun > 0
  /\ shared' = [shared EXCEPT !.starting = FALSE, !.begun = @ - 1]
  /\ asking' = Answered("error")
  /\ UNCHANGED <<conns, refusals, received, tries, fate>>

-----------------------------------------------------------------------------
(* The server's side of a connection. *)

Becomes(c, k) == conns' = [conns EXCEPT ![c] = k]

Replied(k, reply) == [k EXCEPT !.line = NoLine, !.reply = reply]

ReadRcptOnceMore(c) ==
  LET k == conns[c]
      a == To[k.message]
  IN
  /\ k.live /\ k.line = "RCPT"
  /\ \/ /\ Scenario[a] \in {"foreign", "permfail"}
        /\ Becomes(c, Replied(k, "550")) /\ UNCHANGED refusals
     \/ /\ Scenario[a] = "tempfail" /\ refusals[a] <= Failures[a]
        /\ Becomes(c, Replied(k, "451")) /\ refusals' = [refusals EXCEPT ![a] = @ + 1]
     \/ /\ Scenario[a] \in {"success", "slow"} \/ (Scenario[a] = "tempfail" /\ refusals[a] > Failures[a])
        /\ Becomes(c, [Replied(k, "250") EXCEPT !.recipients = Append(@, a)]) /\ UNCHANGED refusals
  /\ UNCHANGED <<shared, asking, received, tries, fate>>

(* RCPT TO: the address decides. *)
ReadRcpt(c) ==
  LET k == conns[c]
      a == To[k.message]
  IN
  /\ k.live /\ k.line = "RCPT"
  /\ \/ /\ Scenario[a] \in {"foreign", "permfail"}
        /\ Becomes(c, Replied(k, "550")) /\ UNCHANGED refusals
     \/ /\ Scenario[a] = "tempfail" /\ refusals[a] < Failures[a]
        /\ Becomes(c, Replied(k, "451")) /\ refusals' = [refusals EXCEPT ![a] = @ + 1]
     \/ /\ Scenario[a] \in {"success", "slow"} \/ (Scenario[a] = "tempfail" /\ refusals[a] >= Failures[a])
        /\ Becomes(c, [Replied(k, "250") EXCEPT !.recipients = Append(@, a)]) /\ UNCHANGED refusals
  /\ UNCHANGED <<shared, asking, received, tries, fate>>

ReadData(c) ==
  /\ conns[c].live /\ conns[c].line = "DATA"
  /\ Becomes(c, IF conns[c].recipients = <<>> THEN Replied(conns[c], "554")
                ELSE [Replied(conns[c], "354") EXCEPT !.data = TRUE])
  /\ UNCHANGED <<shared, asking, refusals, received, tries, fate>>

\* deliver: the message is filed, and the oldest forgotten beyond KEEP.
Filed(message, to) ==
  LET all == Append(received, [message |-> message, to |-> to])
  IN IF Len(all) > Keep THEN Tail(all) ELSE all

ReadContentKeepingRecipients(c) ==
  LET k == conns[c]
      to == Head(k.recipients)
  IN
  /\ k.live /\ k.data /\ k.line = "content"
  /\ \/ /\ Scenario[to] = "slow"
        /\ Becomes(c, [k EXCEPT !.line = NoLine, !.data = FALSE, !.held = <<k.message, to>>])
        /\ UNCHANGED received
     \/ /\ Scenario[to] # "slow"
        /\ Becomes(c, [Replied(k, "250") EXCEPT !.data = FALSE])
        /\ received' = Filed(k.message, to)
  /\ UNCHANGED <<shared, asking, refusals, tries, fate>>

ReadContentAnsweringAtOnce(c) ==
  LET k == conns[c]
      to == Head(k.recipients)
  IN
  /\ k.live /\ k.data /\ k.line = "content"
  /\ \/ /\ Scenario[to] = "slow"
        /\ Becomes(c, [Replied(k, "250") EXCEPT !.data = FALSE, !.held = <<k.message, to>>, !.recipients = <<>>])
        /\ UNCHANGED received
     \/ /\ Scenario[to] # "slow"
        /\ Becomes(c, [Replied(k, "250") EXCEPT !.data = FALSE, !.recipients = <<>>])
        /\ received' = Filed(k.message, to)
  /\ UNCHANGED <<shared, asking, refusals, tries, fate>>

(* finishMessage: it is for the first recipient; a slow one is held back. *)
ReadContent(c) ==
  LET k == conns[c]
      to == Head(k.recipients)
  IN
  /\ k.live /\ k.data /\ k.line = "content"
  /\ \/ /\ Scenario[to] = "slow"
        /\ Becomes(c, [k EXCEPT !.line = NoLine, !.data = FALSE, !.held = <<k.message, to>>, !.recipients = <<>>])
        /\ UNCHANGED received
     \/ /\ Scenario[to] # "slow"
        /\ Becomes(c, [Replied(k, "250") EXCEPT !.data = FALSE, !.recipients = <<>>])
        /\ received' = Filed(k.message, to)
  /\ UNCHANGED <<shared, asking, refusals, tries, fate>>

(* The seconds in the address have passed. *)
HoldingBackEnds(c) ==
  /\ conns[c].held # <<>>
  /\ received' = Filed(conns[c].held[1], conns[c].held[2])
  /\ Becomes(c, [conns[c] EXCEPT !.held = <<>>, !.reply = IF conns[c].live THEN "250" ELSE @])
  /\ UNCHANGED <<shared, asking, refusals, tries, fate>>

SeeCloseHolding(c) ==
  /\ ~conns[c].up /\ conns[c].live
  /\ Becomes(c, [Closed EXCEPT !.held = conns[c].held])
  /\ UNCHANGED <<shared, asking, refusals, received, tries, fate>>

(* The server learns that the transport has gone, and drops what it held back. *)
SeeClose(c) ==
  /\ ~conns[c].up /\ conns[c].live
  /\ Becomes(c, Closed)
  /\ UNCHANGED <<shared, asking, refusals, received, tries, fate>>

-----------------------------------------------------------------------------
(* The worker's side: the pooled transport of lib/mailer.ts. *)

\* isPermanentSmtpError: a reply of the 500s.  No reply at all is temporary.
Permanent(reply) == reply \in {"550", "554"}

(* sendMail, on a connection of the pool or a new one. *)
SendMail(c, m) ==
  /\ \E p \in Callers : asking[p] = "server"
  /\ fate[m] = "queued" /\ tries[m] < MaxTries
  /\ conns[c].message = Nobody /\ (conns[c].up \/ ~conns[c].live)
  /\ Becomes(c, [conns[c] EXCEPT !.up = TRUE, !.live = TRUE, !.message = m, !.asked = "RCPT", !.line = "RCPT"])
  /\ tries' = [tries EXCEPT ![m] = @ + 1]
  /\ fate' = [fate EXCEPT ![m] = "sending"]
  /\ UNCHANGED <<shared, asking, refusals, received>>

(* On to DATA and the content. *)
GoOn(c) ==
  /\ conns[c].up
  /\ \E next \in {"DATA", "content"} :
       /\ next = "DATA" => conns[c].asked = "RCPT" /\ conns[c].reply = "250"
       /\ next = "content" => conns[c].reply = "354"
       /\ Becomes(c, [conns[c] EXCEPT !.reply = NoLine, !.asked = next, !.line = next])
  /\ UNCHANGED <<shared, asking, refusals, received, tries, fate>>

TakenBy(c) ==
  /\ conns[c].up /\ conns[c].asked = "content" /\ conns[c].reply = "250"
  /\ Becomes(c, [conns[c] EXCEPT !.reply = NoLine, !.message = Nobody])
  /\ fate' = [fate EXCEPT ![conns[c].message] = "sent"]
  /\ UNCHANGED <<shared, asking, refusals, received, tries>>

\* The pool drops a connection on which a message failed.
Dropped(k) == [k EXCEPT !.up = FALSE, !.message = Nobody, !.reply = NoLine]

(* A temporary failure goes back to the queue. *)
RefusedBy(c) ==
  /\ conns[c].up /\ conns[c].reply \in {"451", "550", "554"}
  /\ Becomes(c, Dropped(conns[c]))
  /\ fate' = [fate EXCEPT ![conns[c].message] = IF Permanent(conns[c].reply) THEN "failed" ELSE "queued"]
  /\ UNCHANGED <<shared, asking, refusals, received, tries>>

(* A timeout, or the connection breaks: whatever was on its way is lost. *)
GiveUp(c) ==
  /\ conns[c].up /\ conns[c].message # Nobody
  /\ Becomes(c, [Dropped(conns[c]) EXCEPT !.line = NoLine])
  /\ fate' = [fate EXCEPT ![conns[c].message] = "queued"]
  /\ UNCHANGED <<shared, asking, refusals, received, tries>>

(* The end of the tick closes the pool. *)
HangUp(c) ==
  /\ conns[c].up /\ conns[c].message = Nobody
  /\ Becomes(c, Dropped(conns[c]))
  /\ UNCHANGED <<shared, asking, refusals, received, tries, fate>>

SmtpNext ==
  \/ StartSucceeds \/ StartFails
  \/ \E p \in Callers : EnsureSmtp(p)
  \/ \E c \in Connections :
       \/ ReadRcpt(c) \/ ReadData(c) \/ ReadContent(c) \/ HoldingBackEnds(c) \/ SeeClose(c)
       \/ GoOn(c) \/ TakenBy(c) \/ RefusedBy(c) \/ GiveUp(c) \/ HangUp(c)
       \/ \E m \in Messages : SendMail(c, m)

SmtpSpec == SmtpInit /\ [][SmtpNext]_smtpVars

-----------------------------------------------------------------------------
(* Properties. *)

\* However many ask at once, and whatever start has failed, the process has one server.
OneServer == shared.begun + shared.listening <= 1

\* Each message ends as its address says (test-smtp.ts:18-24), on whichever connections it was tried:
\* failed only if the address is to fail for good, sent only after all the refusals asked for.
FateIsTheScenario ==
  \A m \in Messages :
    /\ refusals[To[m]] <= Failures[To[m]]
    /\ fate[m] = "failed" => Scenario[To[m]] \in {"permfail", "foreign"}
    /\ fate[m] = "sent" => Scenario[To[m]] \in {"success", "slow", "tempfail"} /\ refusals[To[m]] = Failures[To[m]]

\* A message is filed under its own address, though connections are used again after a failure.
FiledForAddressee == \A k \in DOMAIN received : received[k].to = To[received[k].message]

\* What the worker believes sent, the server has (as far as it keeps any).
SentIsReceived ==
  \A m \in Messages : fate[m] = "sent" /\ Len(received) < Keep => \E k \in DOMAIN received : received[k].message = m

\* A message is taken in only together with the reply that says so, on a connection the server has
\* not seen close: one held back for a transport that gave up is being tried again elsewhere.
NothingAfterHangUp ==
  [][received' # received =>
       \E c \in Connections : conns[c].live /\ conns[c].reply = NoLine /\ conns'[c].reply = "250"]_smtpVars

\* What becomes of each message is what its address says, and the worker and the one server agree on
\* it, whatever is late, refused or broken off.
MailAccounted ==
  /\ [](OneServer /\ FateIsTheScenario /\ FiledForAddressee /\ SentIsReceived)
  /\ NothingAfterHangUp
================================================================================
