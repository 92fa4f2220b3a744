------------------------------ MODULE ProxyRoute ------------------------------
(***************************************************************************)
(* _resolve_route of ssh_connection.py: the hops of an alias, from the     *)
(* ProxyJump lists of the SSH config.  A list may name hosts that have     *)
(* lists of their own; the walk visits the hosts of a list in order, each  *)
(* before the host whose list it is, and refuses a route that comes back   *)
(* to a host or has too many jumps.  AsyncSSH reads the file anew for      *)
(* every host, so the config may be saved in the middle of a walk.         *)
(***************************************************************************)
EXTENDS SshConfig, Naturals, SequencesExt

CONSTANTS
  Host,      \* names in the config
  Alias,     \* those that are connected
  MaxHops    \* _MAX_PROXY_HOPS

ASSUME HopAssumption == MaxHops \in Nat /\ Alias \subseteq Host /\ IsFiniteSet(Host)
ASSUME ConfigAssumption == Config \subseteq [Host -> Seq(Host)]

VARIABLE walk   \* the walk of the task that connects

\* stack: the visits entered (the path), each with the names still to visit;
\* jumps: seen_jumps; endpoints: the hops so far; changed: history, the file
\* was replaced since the walk began.
NoWalk == [pc |-> "idle"]
WalkOf(alias, visit) ==
  [pc |-> "visit", alias |-> alias, stack |-> <<visit>>, jumps |-> {},
   endpoints |-> <<>>, changed |-> FALSE]

WalkAt(pc) == walk.pc = pc
Top == Last(walk.stack)
Path == {walk.stack[i].host : i \in DOMAIN walk.stack}
Visit(h) == [host |-> h, rest |-> config[h]]

\* visit(alias, role "target").
Resolves ==
  /\ WalkAt("idle") /\ config # NoConfig
  /\ \E alias \in Alias : walk' = WalkOf(alias, Visit(alias))

\* A mutant: off by one, the maximum is reached before it counts.
OneHopMore(h) == h \in Path \cup walk.jumps \/ Cardinality(walk.jumps) > MaxHops

IsRefused(h) == h \in Path \cup walk.jumps \/ Cardinality(walk.jumps) >= MaxHops

\* The next name of the innermost list; its list is read from the file.
VisitsJump ==
  /\ WalkAt("visit") /\ Top.rest # <<>>
  /\ LET h == Head(Top.rest)
         entered == Append(Front(walk.stack), [Top EXCEPT !.rest = Tail(@)])
     IN walk' = IF IsRefused(h) THEN [walk EXCEPT !.pc = "refused"]
                ELSE [walk EXCEPT !.jumps = @ \cup {h}, !.stack = Append(entered, Visit(h))]

\* A list is done: its host is the next hop.
ListsHop ==
  /\ WalkAt("visit") /\ Top.rest = <<>>
  /\ walk' = [walk EXCEPT !.endpoints = Append(@, Top.host), !.stack = Front(@),
                          !.pc = IF Len(walk.stack) = 1 THEN "done" ELSE "visit"]

\* The route is used or the error reported, and another connection resolves.
WalkEnds == walk.pc \in {"done", "refused"} /\ walk' = NoWalk

\* A task that is cancelled, or fails at reading the file.
WalkDropped == WalkAt("visit") /\ walk' = NoWalk

WalkStep == Resolves \/ VisitsJump \/ ListsHop \/ WalkEnds \/ WalkDropped

SeesChange == walk' = IF WalkAt("idle") THEN walk ELSE [walk EXCEPT !.changed = TRUE]

WalkTypeOK ==
  walk \in {NoWalk} \cup
    [pc: {"visit", "done", "refused"}, alias: Alias, jumps: SUBSET Host,
     stack: Seq([host: Host, rest: Seq(Host)]), endpoints: Seq(Host), changed: BOOLEAN]

-----------------------------------------------------------------------------
(* A route, as a property of the lists *)
Closed(S) == \A h \in S : Range(config[h]) \subseteq S

Reachable == {h \in Host : \A S \in SUBSET Host : walk.alias \in S /\ Closed(S) => h \in S}

\* Every place in the lists that the alias leads to, by host and position.
Places == UNION {{<<h, i>> : i \in DOMAIN config[h]} : h \in Reachable}
Named(p) == config[p[1]][p[2]]

IsTree ==
  /\ \A p \in Places : Named(p) # walk.alias
  /\ \A p, q \in Places : Named(p) = Named(q) => p = q

Fits == IsTree /\ Cardinality(Reachable) <= MaxHops + 1

\* Where a host stands among the hops.
Position(h) == CHOOSE i \in DOMAIN walk.endpoints : walk.endpoints[i] = h

\* Each host behind the hosts of its list, and those in the list's order.
InsideOut ==
  \A h \in Reachable : \A i \in DOMAIN config[h] :
    LET next == IF i = Len(config[h]) THEN h ELSE config[h][i + 1] IN
    Position(config[h][i]) < Position(next)

\* No save, however it falls into a walk, makes a route that comes to a host
\* twice or is too long; and a walk that no save fell into accepts exactly the
\* lists in which the alias leads to no host twice and to at most MaxHops
\* jumps, and then lists every such host, inside out, the alias last.
RouteIsSafe ==
  /\ WalkAt("done") =>
       /\ IsInjective(walk.endpoints) /\ Last(walk.endpoints) = walk.alias
       /\ Len(walk.endpoints) <= MaxHops + 1
       /\ ~walk.changed => Fits /\ Range(walk.endpoints) = Reachable /\ InsideOut
  /\ WalkAt("refused") /\ ~walk.changed => ~Fits

=============================================================================
