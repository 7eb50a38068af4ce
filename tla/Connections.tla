---------------------------- MODULE Connections ----------------------------
(***************************************************************************)
(* What the HTTP server promises to its peers: each connection is served   *)
(* by itself, one request after the other.  Every step is that of one      *)
(* connection and leaves the others as they are.  The header of a request  *)
(* is read line by line up to its empty line, the body behind it; nothing  *)
(* is read while the request is answered, and the next one begins behind   *)
(* the answer with what has arrived in the meantime, unless the peer has   *)
(* closed its side.  The numbers of connections are limited.  A connection *)
(* may be given up in every state.                                         *)
(***************************************************************************)
EXTENDS Naturals, Sequences, FiniteSets

CONSTANTS
    Pcbs, Addrs,     \* the connections, and the addresses of the peers
    MaxConnections,  \* how many are served at a time
    MaxConnPerIp,    \* how many of one address; 0 is "not limited"
    Arrivals,        \* what may arrive at once: sequences of tokens
    NoAddr

VARIABLE conn        \* of every connection, a record as Fresh

(* phase is what the connection waits for, input what has arrived and has  *)
(* not been read, fin that no more will come.                              *)
Fresh(a) == [phase |-> "idle", addr |-> a, input |-> << >>, fin |-> FALSE]
None     == [Fresh(NoAddr) EXCEPT !.phase = "none"]
Closing  == [Fresh(NoAddr) EXCEPT !.phase = "closing"]

Served  == {p \in Pcbs : conn[p].phase \in {"idle", "header", "body", "response"}}
From(a) == {p \in Served : conn[p].addr = a}

Init == conn = [p \in Pcbs |-> None]

-----------------------------------------------------------------------------
(* What may become of one connection c.                                    *)
Drop(s, n) == SubSeq(s, n + 1, Len(s))

Arrives(c, d) ==
    /\ c.phase \in {"idle", "header", "body", "response"} /\ ~c.fin
    /\ \E w \in Arrivals : d = [c EXCEPT !.input = @ \o w]

(* The peer closes its side; an idle connection ends instead.              *)
PeerCloses(c, d) ==
    /\ c.phase \in {"header", "body", "response"} /\ ~c.fin
    /\ d = [c EXCEPT !.fin = TRUE]

Begins(c, d) ==
    /\ c.phase = "idle" /\ ~c.fin /\ c.input # << >>
    /\ d = [c EXCEPT !.phase = "header"]

(* A line or a part of it, and never more.                                 *)
ReadsLine(c, d) ==
    /\ c.phase = "header"
    /\ \E n \in 1 .. Len(c.input) :
          /\ \A i \in 1 .. n - 1 : c.input[i] # "eol"
          /\ d = [c EXCEPT !.input = Drop(@, n)]

(* The empty line.                                                         *)
EndsHeader(c, d) ==
    /\ c.phase = "header" /\ c.input # << >> /\ c.input[1] = "eol"
    /\ d = [c EXCEPT !.phase = "body", !.input = Drop(@, 1)]

ReadsBody(c, d) ==
    /\ c.phase = "body"
    /\ \E n \in 1 .. Len(c.input) : d = [c EXCEPT !.input = Drop(@, n)]

Answers(c, d) ==
    /\ c.phase = "body"
    /\ d = [c EXCEPT !.phase = "response"]

IsKept(c, d) ==
    /\ c.phase = "response" /\ ~c.fin
    /\ d = [c EXCEPT !.phase = "idle"]

(* A connection that cannot be closed at once is closed later.             *)
Ends(c, d) ==
    \/ c.phase # "none" /\ d = None
    \/ c.phase \notin {"none", "closing"} /\ d = Closing

Serves(c, d) ==
    \/ Arrives(c, d)
    \/ PeerCloses(c, d)
    \/ Begins(c, d)
    \/ ReadsLine(c, d)
    \/ EndsHeader(c, d)
    \/ ReadsBody(c, d)
    \/ Answers(c, d)
    \/ IsKept(c, d)
    \/ Ends(c, d)

-----------------------------------------------------------------------------
Only(p) == \A q \in Pcbs \ {p} : conn'[q] = conn[q]

Accept(p, a) ==
    /\ conn[p] = None
    /\ Cardinality(Served) < MaxConnections
    /\ MaxConnPerIp > 0 => Cardinality(From(a)) < MaxConnPerIp
    /\ conn'[p] = Fresh(a) /\ Only(p)

Serve(p) == Serves(conn[p], conn'[p]) /\ Only(p)

(* The server stops; nothing is promised behind that.                      *)
Stop == conn' = [p \in Pcbs |-> None]

Next ==
    \/ \E p \in Pcbs, a \in Addrs : Accept(p, a)
    \/ \E p \in Pcbs : Serve(p)
    \/ Stop

Spec == Init /\ [][Next]_conn
=============================================================================
