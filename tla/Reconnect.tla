----------------------------- MODULE Reconnect ------------------------------
(***************************************************************************)
(* A client's links to its daemons (internal/tui reconnect.go, router.go,  *)
(* offline.go, dialdest.go): the Router's pump per connection, the redial  *)
(* ladder per destination, hosts that were unreachable at launch, and the  *)
(* project form that dials a host by itself.  Ticks, dials and their       *)
(* results are messages that come back in any order.                       *)
(***************************************************************************)
EXTENDS Integers, Sequences, FiniteSets

CONSTANTS Local,      \* the local daemon
          Hosts,      \* remote destinations
          MaxConns,   \* bound: connections ever opened
          MaxTries    \* bound: failed dials

ASSUME ReconnectAssumption == IsFiniteSet(Hosts) /\ Local \notin Hosts

VARIABLES rt,      \* Router: conns, and the connection whose pump is live (stop)
          pumps,   \* pump goroutines that have not ended: [d, c]
          inCh,    \* link losses on their way to the model
          link,    \* links: gen, active, parked, attempt
          redial,  \* destinations with a RedialFunc
          ticks,   \* redialTickMsgs to come: [d, gen, attempt]
          dials,   \* redialCmds in flight: [d, gen, old]
          results, \* redialResultMsgs to come: [d, gen, c, err]
          form,    \* the project form's dial: "no", a host, or the connection it made
          off,     \* each destination's offline row: "no", "retrying", "needs", "gone"
          woken,   \* offlineDestMsg: unsent, sent, handled
          opened,  \* connections ever opened
          open,    \* connections not closed by the client
          dead,    \* connections the peer or the network dropped
          tries,
          beside   \* history: the form's dial was adopted beside a ladder or its late
                   \* answers, or a loss arrived after its destination was removed

recVars == <<rt, pumps, inCh, link, redial, ticks, dials, results, form, off, woken, opened,
             open, dead, tries, beside>>

DestIds == {Local} \cup Hosts
NoConn == 0
Fresh == [gen |-> 0, active |-> FALSE, parked |-> FALSE, attempt |-> 0]

\* Local is connected; a host is connected or unreachable at launch.
RecInit ==
    \E up \in SUBSET Hosts :
      LET n == Cardinality(up) + 1
      IN  /\ \E f \in [up \cup {Local} -> 1 .. n] :
               /\ f[Local] = 1 /\ \A c \in 1 .. n : \E d \in DOMAIN f : f[d] = c
               /\ rt = [d \in DestIds |-> IF d \in DOMAIN f THEN [conn |-> f[d], stop |-> f[d]]
                                          ELSE [conn |-> NoConn, stop |-> NoConn]]
          /\ pumps = {[d |-> d, c |-> rt[d].conn] : d \in up \cup {Local}}
          /\ opened = n /\ open = 1 .. n
          /\ \E k \in {"retrying", "needs"} :
               off = [d \in DestIds |-> IF d \in up \cup {Local} THEN "no" ELSE k]
          /\ inCh = <<>> /\ ticks = {} /\ dials = {} /\ results = {} /\ form = "no"
          /\ link = [d \in DestIds |-> Fresh] /\ redial = DestIds
          /\ woken = [d \in DestIds |-> "unsent"]
          /\ dead = {} /\ tries = 0 /\ beside = FALSE

rest == <<rt, pumps, inCh, link, redial, ticks, dials, results, form, off, woken>>
conv == <<opened, open, dead, tries, beside>>
-----------------------------------------------------------------------------
(* The Router. *)

LinkDies(c) ==
    /\ c \in open \ dead
    /\ dead' = dead \cup {c}
    /\ UNCHANGED <<rest, opened, open, tries, beside>>

\* pump: Receive fails; a stopped pump ends silently, any other retires its
\* own entry and reports the loss.
Pump(p) ==
    /\ p \in pumps /\ p.c \in dead \cup ((1 .. opened) \ open)
    /\ pumps' = pumps \ {p}
    /\ IF rt[p.d].stop = p.c
       THEN /\ rt' = [rt EXCEPT ![p.d].stop = NoConn]
            /\ inCh' = Append(inCh, p.d)
       ELSE UNCHANGED <<rt, inCh>>
    /\ UNCHANGED <<link, redial, ticks, dials, results, form, off, woken, conv>>

\* Remove closes the stop channel, Add starts a pump unless one is live.
Removed(r, d) == [r EXCEPT ![d] = [conn |-> NoConn, stop |-> NoConn]]
Added(r, d, c) == IF r[d].stop # NoConn THEN r ELSE [r EXCEPT ![d] = [conn |-> c, stop |-> c]]
-----------------------------------------------------------------------------
(* The ladder. *)

\* scheduleRedial on link state l.
Scheduled(l, d) ==
    /\ link' = [link EXCEPT ![d] = [l EXCEPT !.attempt = @ + 1]]
    /\ ticks' = ticks \cup {[d |-> d, gen |-> l.gen, attempt |-> l.attempt + 1]}

\* beginReconnect: one ladder per destination; a flap carries its attempts.
BeginReconnect(d) ==
    IF link[d].active THEN UNCHANGED <<link, ticks>>
    ELSE \E carried \in {0, link[d].attempt} :
           Scheduled([Fresh EXCEPT !.gen = link[d].gen, !.active = TRUE, !.attempt = carried], d)

\* linkLostMsg; without a dialer the link is parked, or the client quits.
LinkLost ==
    /\ inCh # <<>>
    /\ LET d == Head(inCh)
       IN  IF d \in redial THEN BeginReconnect(d) /\ UNCHANGED beside
           ELSE /\ link' = [link EXCEPT ![d] = [@ EXCEPT !.active = TRUE, !.parked = TRUE]]
                /\ beside' = TRUE /\ UNCHANGED ticks
    /\ inCh' = Tail(inCh)
    /\ UNCHANGED <<rt, pumps, redial, dials, results, form, off, woken, opened, open, dead, tries>>

\* redialTickMsg and redialCmd: only the current attempt of the current
\* generation dials.
RedialTick(t) ==
    /\ t \in ticks
    /\ ticks' = ticks \ {t}
    /\ dials' = IF t.gen = link[t.d].gen /\ link[t.d].active /\ t.attempt = link[t.d].attempt
                THEN dials \cup {[d |-> t.d, gen |-> t.gen, old |-> rt[t.d].conn]} ELSE dials
    /\ UNCHANGED <<rt, pumps, inCh, link, redial, results, form, off, woken, conv>>

\* markPermanentLinkFailure: what waiting may cure, and what it cannot.
LinkFailures == {"again", "permanent"}

\* verifyRemoteLinkGated: a host that was never connected must also speak
\* this version.
VerifyFailures(old) == LinkFailures \cup (IF old = NoConn THEN {"mismatch"} ELSE {})

\* The connection a redial made, on its way back.
DialRemoteTransport(x) ==
    /\ opened < MaxConns
    /\ opened' = opened + 1 /\ open' = (open \ {x.old}) \cup {opened + 1}
    /\ results' = results \cup {[d |-> x.d, gen |-> x.gen, c |-> opened + 1, err |-> "no"]}
    /\ UNCHANGED tries

\* redialRemote, redialLocal: the old connection is closed first, the new one
\* verified; the version gate applies only where there was none before.
Redial(x) ==
    /\ x \in dials
    /\ dials' = dials \ {x}
    /\ \/ DialRemoteTransport(x)
       \/ /\ tries < MaxTries /\ tries' = tries + 1
          /\ open' = open \ {x.old} /\ UNCHANGED opened
          /\ \E e \in VerifyFailures(x.old) :
               results' = results \cup {[d |-> x.d, gen |-> x.gen, c |-> NoConn, err |-> e]}
    /\ UNCHANGED <<rt, pumps, inCh, link, redial, ticks, form, off, woken, dead, beside>>

\* finishReconnect: the Router's entry is replaced, the generation retires
\* what is still on its way, and the panes attach anew.
FinishReconnect(d, c) ==
    /\ rt' = Added(Removed(rt, d), d, c)
    /\ pumps' = pumps \cup {[d |-> d, c |-> c]}
    /\ link' = [link EXCEPT ![d] = [Fresh EXCEPT !.gen = link[d].gen + 1, !.attempt = link[d].attempt]]

\* Mutant of RedialResult: a late result's connection is only dropped.
RedialResultDropped(r) ==
    LET l == link[r.d]
    IN  /\ r \in results
        /\ results' = results \ {r}
        /\ IF r.gen # l.gen \/ ~l.active
           THEN UNCHANGED <<rt, pumps, link, ticks, off, open>>
           ELSE IF r.err = "no"
           THEN FinishReconnect(r.d, r.c) /\ UNCHANGED <<ticks, off, open>>
           ELSE IF r.err = "again" THEN Scheduled(l, r.d) /\ UNCHANGED <<rt, pumps, off, open>>
           ELSE /\ link' = [link EXCEPT ![r.d] = [l EXCEPT !.active = r.err = "permanent",
                                                            !.parked = r.err = "permanent"]]
                /\ off' = IF r.err = "mismatch" /\ off[r.d] # "no" THEN [off EXCEPT ![r.d] = "needs"] ELSE off
                /\ UNCHANGED <<rt, pumps, ticks, open>>
        /\ UNCHANGED <<inCh, redial, dials, form, woken, opened, dead, tries, beside>>

\* redialResultMsg: stale ones are closed, a mismatch ends the ladder with an
\* upgrade offer, a permanent failure parks it, others go on.
RedialResult(r) ==
    LET l == link[r.d]
    IN  /\ r \in results
        /\ results' = results \ {r}
        /\ IF r.gen # l.gen \/ ~l.active
           THEN open' = open \ {r.c} /\ UNCHANGED <<rt, pumps, link, ticks, off>>
           ELSE IF r.err = "no"
           THEN FinishReconnect(r.d, r.c) /\ UNCHANGED <<ticks, off, open>>
           ELSE IF r.err = "again" THEN Scheduled(l, r.d) /\ UNCHANGED <<rt, pumps, off, open>>
           ELSE /\ link' = [link EXCEPT ![r.d] = [l EXCEPT !.active = r.err = "permanent",
                                                            !.parked = r.err = "permanent"]]
                /\ off' = IF r.err = "mismatch" /\ off[r.d] # "no" THEN [off EXCEPT ![r.d] = "needs"] ELSE off
                /\ UNCHANGED <<rt, pumps, ticks, open>>
        /\ UNCHANGED <<inCh, redial, dials, form, woken, opened, dead, tries, beside>>

\* The resume key on a parked link.
ResumeReconnect(d) ==
    /\ link[d].active /\ link[d].parked /\ d \in redial /\ tries < MaxTries
    /\ Scheduled([link[d] EXCEPT !.parked = FALSE], d)
    /\ UNCHANGED <<rt, pumps, inCh, redial, dials, results, form, off, woken, conv>>
-----------------------------------------------------------------------------
(* Hosts that were not there at launch, and hosts that come and go. *)

\* wakeOfflineDests and offlineDestMsg: one ladder per waiting host.
WakeOffline(d) ==
    /\ off[d] = "retrying" /\ woken[d] # "handled"
    /\ IF woken[d] = "unsent" THEN woken' = [woken EXCEPT ![d] = "sent"] /\ UNCHANGED <<link, ticks>>
       ELSE woken' = [woken EXCEPT ![d] = "handled"] /\ BeginReconnect(d)
    /\ UNCHANGED <<rt, pumps, inCh, redial, dials, results, form, off, conv>>

\* retryOfflineDest, offered where no ladder runs; also after an upgrade.
RetryOffline(d) ==
    /\ off[d] \in {"retrying", "needs"} /\ ~link[d].active /\ d \in redial
    /\ off' = [off EXCEPT ![d] = "retrying"]
    /\ woken' = [woken EXCEPT ![d] = "unsent"]
    /\ Scheduled([link[d] EXCEPT !.active = TRUE, !.parked = FALSE, !.attempt = 0], d)
    /\ UNCHANGED <<rt, pumps, inCh, redial, dials, results, form, conv>>

\* The first workspace state of a host replaces its offline rows.
StateReaches(d) ==
    /\ off[d] # "no" /\ rt[d].stop # NoConn
    /\ off' = [off EXCEPT ![d] = "no"]
    /\ UNCHANGED <<rt, pumps, inCh, link, redial, ticks, dials, results, form, woken, conv>>

\* The project form dials a host without a connection.
FormDials(d) ==
    /\ form = "no" /\ rt[d].conn = NoConn /\ opened < MaxConns
    /\ form' = d
    /\ UNCHANGED <<rt, pumps, inCh, link, redial, ticks, dials, results, off, woken, conv>>

\* destDialedMsg and adoptDest, or the form was closed and nothing adopts.
DestDialed(d) ==
    /\ form = d
    /\ form' = "no"
    /\ opened' = opened + 1 /\ open' = open \cup {opened + 1}
    /\ rt' = Added(rt, d, opened + 1)
    /\ pumps' = IF rt[d].stop # NoConn THEN pumps ELSE pumps \cup {[d |-> d, c |-> opened + 1]}
    /\ redial' = redial \cup {d}
    /\ beside' = (beside \/ link[d].active \/ rt[d].conn # NoConn
                             \/ \E x \in ticks \cup dials \cup results : x.d = d)
    /\ off' = IF off[d] = "gone" THEN [off EXCEPT ![d] = "no"] ELSE off
    /\ UNCHANGED <<inCh, link, ticks, dials, results, woken, dead, tries>>

\* disconnectDest: everything kept for the host goes, its link state included.
Disconnect(d) ==
    /\ off[d] # "gone" /\ form # d
    /\ rt' = Removed(rt, d)
    /\ open' = open \ {rt[d].conn}
    /\ redial' = redial \ {d}
    /\ link' = [link EXCEPT ![d] = Fresh]
    /\ off' = [off EXCEPT ![d] = "gone"] /\ woken' = [woken EXCEPT ![d] = "handled"]
    /\ UNCHANGED <<pumps, inCh, ticks, dials, results, form, opened, dead, tries, beside>>
-----------------------------------------------------------------------------
RecNext ==
    \/ \E c \in 1 .. MaxConns : LinkDies(c)
    \/ \E p \in pumps : Pump(p)
    \/ LinkLost
    \/ \E t \in ticks : RedialTick(t)
    \/ \E x \in dials : Redial(x)
    \/ \E r \in results : RedialResult(r)
    \/ \E d \in DestIds : ResumeReconnect(d)
    \/ \E d \in Hosts : WakeOffline(d) \/ RetryOffline(d) \/ StateReaches(d) \/ FormDials(d)
                        \/ DestDialed(d) \/ Disconnect(d)

RecSpec == RecInit /\ [][RecNext]_recVars
-----------------------------------------------------------------------------
(***************************************************************************)
(* Links are tended, whatever ticks, dials and losses cross: a link that   *)
(* is down and not parked has a tick, a dial or a result on its way, never *)
(* a banner that counts down to nothing; a link that is up has its pump,   *)
(* or its loss is already queued; and every open connection is the         *)
(* Router's or on its way to it, so no ssh child is left behind.  Excepted *)
(* are a host dialled by the form while its ladder runs, or while answers  *)
(* of a ladder ended by disconnectDest (which restarts the generations at  *)
(* 0) are still on their way, and a loss read after its host was removed.  *)
(***************************************************************************)
LinksTended == ~beside =>
    /\ \A d \in DestIds : link[d].active /\ ~link[d].parked =>
         \/ \E t \in ticks : t.d = d /\ t.gen = link[d].gen /\ t.attempt = link[d].attempt
         \/ \E x \in dials \cup results : x.d = d /\ x.gen = link[d].gen
    /\ \A d \in DestIds : off[d] = "no" /\ ~link[d].active =>
         \/ rt[d].stop # NoConn /\ rt[d].stop = rt[d].conn /\ [d |-> d, c |-> rt[d].stop] \in pumps
         \/ \E i \in DOMAIN inCh : inCh[i] = d
    /\ open \subseteq {rt[d].conn : d \in DestIds} \cup {r.c : r \in results}
=============================================================================
