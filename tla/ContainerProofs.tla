--------------------------- MODULE ContainerProofs ---------------------------
(***************************************************************************)
(* Proofs about Container, for whatever servers the file lists and any     *)
(* number of calls, runs, requests and faults: contexts are left in the    *)
(* reverse of their order, the loop is closed over nothing, and a close    *)
(* that raises nothing has given everything back.                          *)
(***************************************************************************)
EXTENDS Container, SequenceTheorems, FiniteSetTheorems, WellFoundedInduction, TLAPS

\* The least of a set of naturals: what takes the place of induction below.
LEMMA LeastNat == ASSUME NEW T \in SUBSET Nat, T # {} PROVE \E n \in T : \A m \in T : n <= m
<1> DEFINE R == StrictSubsetOrdering(Nat)
           F == FiniteSubsetsOf(Nat)
           D == {1 .. n : n \in T}
<1>1. IsWellFoundedOn(R, F)
  BY FS_StrictSubsetOrderingWellFounded
<1>2. D \subseteq F
  <2>1. \A n \in T : IsFiniteSet(1 .. n)
    BY FS_Interval
  <2>2. QED BY <2>1 DEF FiniteSubsetsOf
<1>3. D # {}
  OBVIOUS
<1>4. PICK d \in D : \A e \in D : ~(<<e, d>> \in R)
  <2> HIDE DEF R, F, D
  <2> QED BY <1>1, <1>2, <1>3, WFMin
<1>5. PICK n \in T : d = 1 .. n
  OBVIOUS
<1>6. ASSUME NEW m \in T, m < n PROVE FALSE
  <2>1. 1 .. m \in D
    OBVIOUS
  <2>2. 1 .. m \subseteq 1 .. n /\ 1 .. m # 1 .. n
    BY <1>6, n \in 1 .. n
  <2>3. <<1 .. m, 1 .. n>> \in R
    BY <2>2 DEF StrictSubsetOrdering
  <2> QED BY <1>4, <1>5, <2>1, <2>3
<1>7. QED
  BY <1>6

-----------------------------------------------------------------------------
(* What the state of the manager is and says.                                *)

Enabled == Behind(0)

Owned == {conns[k] : k \in DOMAIN conns}

Failing == {"unwindSession", "unwindTransport"}

Single == Opening \union Failing \union Closing \union {"list"}

LifePcs == Single \union {"none", "hold", "done"}

LifeRec == [pc : LifePcs, at : Nat, page : Nat, cancel : BOOLEAN, cut : BOOLEAN, err : BOOLEAN]

LayerRec == [Layers -> {"none", "open", "torn"}]

Typed ==
  /\ file \in [valid : BOOLEAN, servers : Seq(Server)]
  /\ life \in LifeRec
  /\ conns \in Seq(Servers)
  /\ ctx \in [Servers -> LayerRec]

\* The connections are the first of the enabled servers, in their order.
OrderInv ==
  /\ \A k, l \in DOMAIN conns : k < l => conns[k] < conns[l]
  /\ Owned \subseteq Enabled
  /\ \A i \in Owned, j \in Enabled : j < i => j \in Owned

\* Which of them the lifecycle has got to.
AtInv ==
  /\ life.pc \in Single => life.at \in Enabled
  /\ life.pc = "none" => conns = <<>>
  /\ life.pc \in Opening \union Failing => Owned = {j \in Enabled : j < life.at}
  /\ life.pc = "list" => Owned = {j \in Enabled : j <= life.at}
  /\ life.pc = "hold" => Owned = Enabled /\ Enabled # {}
  /\ life.pc \in Closing => life.at \in Owned

\* The contexts c of a server s: its transport open over its client, all of them,
\* a session that is not open, and none.
Based(s, c) == c.transport = "open" /\ (s.http => c.client = "open")

Whole(s, c) == c.session = "open" /\ Based(s, c)

Left(s, c) == c.session # "open" /\ (c.transport = "open" => Based(s, c))

Untouched(c) == c.session = "none" /\ c.transport = "none" /\ c.client = "none"

\* Those in front of the n-th are open, those behind it are not.
Around(E, s, c, n) ==
  \A i \in E : (i < n => Whole(s[i], c[i])) /\ (i > n => Left(s[i], c[i]))

NestInv ==
  /\ \A i \in Servers \ Enabled : Left(file.servers[i], ctx[i])
  /\ life.pc = "none" => \A i \in Servers : Left(file.servers[i], ctx[i])
  /\ life.pc = "hold" => \A i \in Enabled : Whole(file.servers[i], ctx[i])
  /\ life.pc = "done" => \E n \in Nat : /\ Around(Enabled, file.servers, ctx, n)
                                        /\ n \in Enabled => Left(file.servers[n], ctx[n])
  /\ life.pc \in Single => Around(Enabled, file.servers, ctx, life.at)
  /\ life.pc \in {"initialize", "list", "closeSession"} => Whole(Here, ctx[life.at])
  /\ life.pc \in {"session", "unwindSession"} =>
       Based(Here, ctx[life.at])
  /\ life.pc \in {"unwindTransport", "closeTransport"} =>
       Based(Here, ctx[life.at]) /\ ctx[life.at].session # "open"
  /\ life.pc = "transport" /\ Here.http => ctx[life.at].client = "open"

\* Without an exception nothing is left behind: not in front of the lifecycle
\* while it opens, not behind it while it closes.
Clear(S, E, c, n) == \A i \in S : i \notin E \/ i > n => Untouched(c[i])

FreshInv ==
  /\ life.pc \notin Closing \union {"done"} => ~life.err /\ ~life.cut
  /\ life.pc = "none" => \A i \in Servers : Untouched(ctx[i])
  /\ life.pc = "hold" => \A i \in Servers \ Enabled : Untouched(ctx[i])
  /\ life.pc \in Single /\ ~life.err => Clear(Servers, Enabled, ctx, life.at)
  /\ life.pc = "client" => Untouched(ctx[life.at])
  /\ life.pc \in {"transport", "session"} => ctx[life.at].session = "none"
  /\ life.pc = "transport" => ctx[life.at].transport = "none"
  /\ life.pc = "closeTransport" /\ ~life.err /\ ~life.cut => ctx[life.at].session = "none"
  /\ life.pc = "done" /\ ~life.err => conns = <<>> /\ \A i \in Servers : Untouched(ctx[i])

\* The thread and its task.
CallRec == [state : {"none", "sent", "error", "result", "cancelled"}, server : Nat]

ThreadInv ==
  /\ call \in [Calls -> CallRec]
  /\ thread = "none" <=> life.pc = "none"
  /\ mgr \in {"new", "idle", "refused"} => thread = "none"
  /\ mgr \notin {"new", "idle", "refused", "closed"} => thread # "none"
  /\ thread = "closed" => life.pc = "done"
  /\ thread # "runs" => \A c \in Calls : call[c].state # "sent"
  /\ mgr \in {"stopping", "joining"} => life.pc = "done" /\ ~life.err
  /\ mgr = "closed" => thread = "none" \/ (thread = "closed" /\ life.pc = "done" /\ ~life.err)

\* The bus, and how far the container has closed.
BusRec == [held : BOOLEAN, conn : BOOLEAN, subscribed : BOOLEAN]

ListenerRec == [pc : {"none", "created", "subscribing", "listening", "leaving", "done"},
                cancel : BOOLEAN]

AppInv ==
  /\ listener \in ListenerRec
  /\ pubsub \in BusRec
  /\ closer \in {"closed", "raised"} => ~Alive
  /\ closer = "closed" => ~pubsub.held /\ ~pubsub.conn /\ ~pubsub.subscribed /\ channel = <<>>
  /\ app \in {"closeMcp", "closePubsub", "closeRedis", "closed"} => closer = "closed"
  /\ app \in {"closePubsub", "closeRedis", "closed"} => mgr = "closed"
  /\ pools # Clients => closer = "closed" /\ mgr = "closed"
  /\ app \notin {"closeRedis", "closed", "closeRaised"} => pools = Clients
  /\ app = "closeRedis" => leaked = 0 /\ pools = {"main"}
  /\ app = "closed" => leaked = 0 /\ pools = {}

LifeInv == Typed /\ OrderInv /\ AtInv /\ NestInv /\ FreshInv

IInv == LifeInv /\ ThreadInv /\ AppInv

-----------------------------------------------------------------------------
(* Where the lifecycle goes next.                                            *)

LEMMA Numbers ==
  ASSUME Typed
  PROVE  /\ Servers \subseteq Nat \ {0} /\ Enabled \subseteq Servers
         /\ Len(conns) \in Nat /\ DOMAIN conns = 1..Len(conns)
         /\ \A k \in DOMAIN conns : conns[k] \in Servers
         /\ \A i \in Nat : Behind(i) = {j \in Enabled : j > i}
<1>1. Servers \subseteq Nat \ {0}
  <2>1. file.servers \in Seq(Server)
    BY DEF Typed
  <2>2. DOMAIN file.servers = 1..Len(file.servers) /\ Len(file.servers) \in Nat
    BY <2>1, LenProperties
  <2>3. QED  BY <2>2 DEF Servers
<1>2. Len(conns) \in Nat /\ DOMAIN conns = 1..Len(conns)
  BY LenProperties DEF Typed
<1>3. \A k \in DOMAIN conns : conns[k] \in Servers
  BY <1>2, ElementOfSeq DEF Typed
<1>4. \A j \in Servers : j > 0
  BY <1>1
<1>5. QED  BY <1>1, <1>2, <1>3, <1>4 DEF Enabled, Behind

\* The places of the lifecycle, one by one.
LEMMA Places ==
  {"none", "hold", "done", "client", "transport", "session", "initialize", "list",
   "unwindSession", "unwindTransport", "closeSession", "closeTransport"} = LifePcs
BY DEF LifePcs, Single, Opening, Failing, Closing

LEMMA FirstIsLeast ==
  ASSUME Typed, NEW i \in Nat, Behind(i) # {}
  PROVE  First(i) \in Behind(i) /\ \A k \in Behind(i) : First(i) <= k
<1>1. Behind(i) \in SUBSET Nat
  BY Numbers DEF Behind
<1>2. \E j \in Behind(i) : \A k \in Behind(i) : j <= k
  BY <1>1, LeastNat
<1>3. QED  BY <1>2 DEF First

\* To the next server, if there is one.
LEMMA NextTo ==
  ASSUME Typed, NEW i \in Nat, NextServer(i)
  PROVE  /\ life' \in LifeRec
         /\ life'.err = life.err /\ life'.cut = life.cut
         /\ \/ Behind(i) = {} /\ life'.pc = "hold"
            \/ /\ life'.at \in Behind(i) /\ \A k \in Behind(i) : life'.at <= k
               /\ life'.pc = IF file.servers[life'.at].http THEN "client" ELSE "transport"
<1>1. CASE Behind(i) = {}
  <2>1. "hold" \in LifePcs
    BY Places
  <2>2. life' = [life EXCEPT !.pc = "hold", !.at = 0, !.page = 0]
    BY <1>1 DEF NextServer
  <2>3. life' \in LifeRec
    BY <2>1, <2>2 DEF Typed, LifeRec
  <2>4. QED  BY <1>1, <2>2, <2>3 DEF Typed, LifeRec
<1>2. CASE Behind(i) # {}
  <2>1. PICK f \in Nat : f = First(i) /\ f \in Behind(i) /\ \A k \in Behind(i) : f <= k
    BY <1>2, FirstIsLeast, Numbers DEF Behind
  <2>2. PICK p \in {"client", "transport"} :
          p = IF file.servers[f].http THEN "client" ELSE "transport"
    OBVIOUS
  <2>3. life' = [life EXCEPT !.at = f, !.page = 1, !.pc = p]
    BY <1>2, <2>1, <2>2 DEF NextServer
  <2>4. p \in LifePcs
    BY Places
  <2>5. life' \in LifeRec
    BY <2>3, <2>4 DEF Typed, LifeRec
  <2>6. life'.at = f /\ life'.pc = p /\ life'.err = life.err /\ life'.cut = life.cut
    BY <2>3 DEF Typed, LifeRec
  <2>7. QED  BY <2>1, <2>2, <2>5, <2>6
<1>3. QED  BY <1>1, <1>2

\* The last connection is that of the greatest number.
LEMMA LastIsGreatest ==
  ASSUME Typed, OrderInv, conns # <<>>
  PROVE  Last(conns) \in Owned /\ \A j \in Owned : j <= Last(conns)
<1>1. PICK n \in Nat : n = Len(conns) /\ DOMAIN conns = 1..n /\ n # 0
  BY Numbers, EmptySeq DEF Typed
<1>2. Last(conns) = conns[n]
  BY <1>1 DEF Last
<1>3. n \in DOMAIN conns
  BY <1>1
<1>4. ASSUME NEW k \in DOMAIN conns PROVE conns[k] <= conns[n]
  <2>1. CASE k = n
    BY <1>3, <2>1, Numbers
  <2>2. CASE k # n
    <3>1. k < n
      BY <1>1, <2>2
    <3>2. conns[k] < conns[n] /\ conns[k] \in Nat /\ conns[n] \in Nat
      BY <1>3, <3>1, Numbers DEF OrderInv
    <3>3. QED  BY <3>2
  <2>3. QED  BY <2>1, <2>2
<1>5. QED  BY <1>2, <1>3, <1>4 DEF Owned

\* After an exception: the last connection is closed first.
LEMMA FailsTo ==
  ASSUME Typed, OrderInv, Fails
  PROVE  /\ life' \in LifeRec
         /\ life'.err /\ life'.cut = life.cut
         /\ \/ Owned = {} /\ life'.pc = "done"
            \/ /\ life'.pc = "closeSession" /\ life'.at \in Owned
               /\ \A j \in Owned : j <= life'.at
<1>1. CASE conns = <<>>
  <2>1. Owned = {}
    <3>1. DOMAIN <<>> = {}
      OBVIOUS
    <3>2. QED  BY <1>1, <3>1 DEF Owned
  <2>2. life' = [life EXCEPT !.err = TRUE, !.cancel = FALSE, !.page = 0, !.pc = "done", !.at = 0]
    BY <1>1 DEF Fails
  <2>3. "done" \in LifePcs
    BY Places
  <2>4. life' \in LifeRec
    BY <2>2, <2>3 DEF Typed, LifeRec
  <2>5. QED  BY <2>1, <2>2, <2>4 DEF Typed, LifeRec
<1>2. CASE conns # <<>>
  <2>1. PICK n \in Nat : n = Last(conns) /\ n \in Owned /\ \A j \in Owned : j <= n
    BY <1>2, LastIsGreatest, Numbers DEF OrderInv
  <2>2. life' = [life EXCEPT !.err = TRUE, !.cancel = FALSE, !.page = 0, !.pc = "closeSession", !.at = n]
    BY <1>2, <2>1 DEF Fails
  <2>3. "closeSession" \in LifePcs
    BY Places
  <2>4. life' \in LifeRec
    BY <2>1, <2>2, <2>3 DEF Typed, LifeRec
  <2>5. QED  BY <2>1, <2>2, <2>4 DEF Typed, LifeRec
<1>3. QED  BY <1>1, <1>2

\* Behind a transport: the connection in front of it, if there is one.
LEMMA ClosesTo ==
  ASSUME Typed, OrderInv, life.at \in Owned, ClosesNext
  PROVE  /\ life' \in LifeRec
         /\ life'.cut = life.cut
         /\ \/ life.cut /\ life'.pc = "done" /\ life'.err /\ UNCHANGED conns
            \/ /\ ~life.cut /\ life'.err = life.err /\ life'.pc = "done" /\ conns' = <<>>
               /\ \A j \in Owned : j >= life.at
            \/ /\ ~life.cut /\ life'.err = life.err /\ life'.pc = "closeSession" /\ UNCHANGED conns
               /\ life'.at \in Owned /\ life'.at < life.at
               /\ \A j \in Owned : j < life.at => j <= life'.at
<1>1. CASE life.cut
  <2>1. "done" \in LifePcs
    BY Places
  <2>2. life' = [life EXCEPT !.pc = "done", !.at = 0, !.err = TRUE] /\ conns' = conns
    BY <1>1 DEF ClosesNext
  <2>3. life' \in LifeRec
    BY <2>1, <2>2 DEF Typed, LifeRec
  <2>4. QED  BY <1>1, <2>2, <2>3 DEF Typed, LifeRec
<1>2. CASE ~life.cut
  <2>1. PICK p \in DOMAIN conns : p = Position /\ conns[p] = life.at
    <3>1. \E k \in DOMAIN conns : conns[k] = life.at
      BY DEF Owned
    <3>2. QED  BY <3>1 DEF Position
  <2>2. \A k \in DOMAIN conns : conns[k] \in Nat /\ k \in Nat
    BY Numbers
  <2>3. \A k \in DOMAIN conns : (k < p => conns[k] < life.at) /\ (k > p => conns[k] > life.at)
    BY <2>1, <2>2 DEF OrderInv
  <2>4. CASE p = 1
    <3>1. life' = [life EXCEPT !.pc = "done", !.at = 0] /\ conns' = <<>>
      BY <1>2, <2>1, <2>4 DEF ClosesNext
    <3>2. \A k \in DOMAIN conns : conns[k] >= life.at
      BY <2>1, <2>2, <2>3, <2>4, Numbers
    <3>3. "done" \in LifePcs
      BY Places
    <3>4. life' \in LifeRec
      BY <3>1, <3>3 DEF Typed, LifeRec
    <3>5. \A j \in Owned : j >= life.at
      BY <3>2 DEF Owned
    <3>6. life'.pc = "done" /\ life'.err = life.err /\ life'.cut = life.cut
      BY <3>1 DEF Typed, LifeRec
    <3>7. QED  BY <1>2, <3>1, <3>4, <3>5, <3>6
  <2>5. CASE p # 1
    <3>1. p - 1 \in DOMAIN conns /\ p - 1 < p
      BY <2>1, <2>5, Numbers
    <3>2. PICK n \in Nat : n = conns[p - 1] /\ n < life.at
      BY <2>2, <2>3, <3>1
    <3>3. life' = [life EXCEPT !.pc = "closeSession", !.at = n] /\ conns' = conns
      BY <1>2, <2>1, <2>5, <3>2 DEF ClosesNext
    <3>4. ASSUME NEW k \in DOMAIN conns, conns[k] < life.at PROVE conns[k] <= n
      <4>1. k <= p - 1
        BY <2>1, <2>2, <2>3, <3>4
      <4>2. k = p - 1 \/ k < p - 1
        BY <2>2, <3>1, <4>1
      <4>3. QED  BY <2>2, <3>1, <3>2, <4>2 DEF OrderInv
    <3>5. "closeSession" \in LifePcs
      BY Places
    <3>6. life' \in LifeRec
      BY <3>3, <3>5 DEF Typed, LifeRec
    <3>7. /\ life'.pc = "closeSession" /\ life'.at = n
          /\ life'.err = life.err /\ life'.cut = life.cut
      BY <3>3 DEF Typed, LifeRec
    <3>8. n \in Owned /\ \A j \in Owned : j < life.at => j <= n
      BY <3>1, <3>2, <3>4 DEF Owned
    <3>9. QED  BY <1>2, <3>2, <3>3, <3>6, <3>7, <3>8
  <2>6. QED  BY <2>4, <2>5
<1>3. QED  BY <1>1, <1>2

-----------------------------------------------------------------------------
(* The invariant of the lifecycle, step by step.                             *)

LEMMA SameFile ==
  ASSUME UNCHANGED file
  PROVE  Servers' = Servers /\ Enabled' = Enabled
BY DEF Servers, Enabled, Behind

LEMMA SameConns ==
  ASSUME UNCHANGED <<file, conns>>, OrderInv
  PROVE  OrderInv' /\ Owned' = Owned
BY SameFile DEF OrderInv, Owned

\* One connection is touched.
LEMMA Touches ==
  ASSUME NEW c \in [Servers -> LayerRec], NEW n \in Servers, NEW d \in LayerRec
  PROVE  /\ [c EXCEPT ![n] = d] \in [Servers -> LayerRec]
         /\ [c EXCEPT ![n] = d][n] = d
         /\ \A i \in Servers : i # n => [c EXCEPT ![n] = d][i] = c[i]
OBVIOUS

\* A request to cancel changes nothing else.
LEMMA Rests ==
  ASSUME LifeInv, UNCHANGED <<file, ctx, conns>>, NEW b \in BOOLEAN,
         life' = life \/ life' = [life EXCEPT !.cancel = b]
  PROVE  LifeInv'
<1>1. Servers' = Servers /\ Enabled' = Enabled /\ OrderInv' /\ Owned' = Owned
  BY SameFile, SameConns DEF LifeInv
<1>2. life' \in LifeRec
  BY DEF LifeInv, Typed, LifeRec
<1>3. life'.pc = life.pc /\ life'.at = life.at /\ life'.cut = life.cut /\ life'.err = life.err
  BY DEF LifeInv, Typed, LifeRec
<1>4. Typed'
  BY <1>1, <1>2 DEF LifeInv, Typed
<1>5. AtInv'
  <2>1. UNCHANGED conns
    OBVIOUS
  <2>2. QED  BY <1>1, <1>3, <2>1 DEF LifeInv, AtInv
<1>6. NestInv'
  BY <1>1, <1>3 DEF LifeInv, NestInv, Here
<1>7. FreshInv'
  BY <1>1, <1>3 DEF LifeInv, FreshInv
<1>8. QED  BY <1>1, <1>4, <1>5, <1>6, <1>7 DEF LifeInv

\* From the body to the finally: every connection that is owned is whole, and no
\* other has a session.
LEMMA FailsKeeps ==
  ASSUME Typed, OrderInv, Fails, UNCHANGED <<file, conns>>, ctx' \in [Servers -> LayerRec],
         \A i \in Owned : Whole(file.servers[i], ctx'[i]),
         \A i \in Servers \ Owned : Left(file.servers[i], ctx'[i])
  PROVE  LifeInv'
<1>1. Servers' = Servers /\ Enabled' = Enabled /\ OrderInv' /\ Owned' = Owned
  BY SameFile, SameConns
<1>2. PICK l \in LifeRec :
        /\ l = life' /\ l.err
        /\ \/ Owned = {} /\ l.pc = "done"
           \/ l.pc = "closeSession" /\ l.at \in Owned /\ \A j \in Owned : j <= l.at
  BY FailsTo
<1>3. Typed'
  BY <1>1, <1>2 DEF Typed
<1>4. Enabled \subseteq Servers /\ Enabled \subseteq Nat /\ Owned \subseteq Enabled
  BY Numbers DEF OrderInv
<1>5. \A i \in Servers \ Enabled : Left(file.servers[i], ctx'[i])
  BY <1>4
<1>6. CASE Owned = {} /\ l.pc = "done"
  <2>1. AtInv'
    BY <1>2, <1>6 DEF AtInv, Single, Opening, Failing, Closing
  <2>2. Around(Enabled, file.servers, ctx', 0) /\ 0 \notin Enabled
    BY <1>4, <1>6, Numbers DEF Around
  <2>3. NestInv'
    BY <1>1, <1>2, <1>5, <1>6, <2>2 DEF NestInv, Single, Opening, Failing, Closing
  <2>4. FreshInv'
    BY <1>2, <1>6 DEF FreshInv, Single, Opening, Failing, Closing
  <2>5. QED  BY <1>1, <1>3, <2>1, <2>3, <2>4 DEF LifeInv
<1>7. CASE l.pc = "closeSession" /\ l.at \in Owned /\ \A j \in Owned : j <= l.at
  <2>1. l.at \in Enabled
    BY <1>4, <1>7
  <2>2. AtInv'
    BY <1>1, <1>2, <1>7, <2>1 DEF AtInv, Single, Opening, Failing, Closing
  <2>3. Around(Enabled, file.servers, ctx', l.at)
    <3>1. \A i \in Enabled : i < l.at => i \in Owned
      BY <1>4, <1>7 DEF OrderInv
    <3>2. ASSUME NEW i \in Enabled, i > l.at PROVE i \notin Owned
      <4>1. i \in Nat /\ l.at \in Nat
        BY <1>4, <2>1
      <4>2. ~(i <= l.at)
        BY <3>2, <4>1
      <4>3. QED  BY <1>7, <4>2
    <3>3. QED  BY <1>4, <3>1, <3>2 DEF Around
  <2>4. Whole(file.servers[l.at], ctx'[l.at])
    BY <1>7
  <2>5. NestInv'
    BY <1>1, <1>2, <1>5, <1>7, <2>3, <2>4 DEF NestInv, Here, Single, Opening, Failing, Closing
  <2>6. FreshInv'
    BY <1>2, <1>7 DEF FreshInv, Single, Opening, Failing, Closing
  <2>7. QED  BY <1>1, <1>3, <2>2, <2>5, <2>6 DEF LifeInv
<1>8. QED  BY <1>2, <1>6, <1>7

-----------------------------------------------------------------------------
(* Opening.                                                                  *)

\* The connection at which the lifecycle is.
LEMMA Stands ==
  ASSUME LifeInv, life.pc \in Single
  PROVE  /\ life.at \in Enabled /\ life.at \in Servers /\ life.at \in Nat
         /\ ctx[life.at] \in LayerRec
         /\ Around(Enabled, file.servers, ctx, life.at)
         /\ Servers \subseteq Nat /\ Enabled \subseteq Servers /\ Owned \subseteq Enabled
BY Numbers DEF LifeInv, Typed, OrderInv, AtInv, NestInv

\* What its contexts d must be for it to stand at r.
Fits(s, d, r) ==
  /\ r = "transport" => (s.http => d.client = "open") /\ d.session = "none" /\ d.transport = "none"
  /\ r = "session" => Based(s, d) /\ d.session = "none"
  /\ r = "initialize" => Whole(s, d)
  /\ r = "unwindSession" => Based(s, d)
  /\ r = "unwindTransport" => Based(s, d) /\ d.session # "open"

\* A step within the opening of one connection, or the unwinding of an attempt.
LEMMA GoesOn ==
  ASSUME LifeInv, life.pc \in Opening \union Failing, UNCHANGED <<file, conns>>,
         NEW r \in {"transport", "session", "initialize", "unwindSession", "unwindTransport"},
         life' = [life EXCEPT !.pc = r],
         NEW d \in LayerRec, ctx' = [ctx EXCEPT ![life.at] = d], Fits(Here, d, r)
  PROVE  LifeInv'
<1>1. Servers' = Servers /\ Enabled' = Enabled /\ OrderInv' /\ Owned' = Owned
  BY SameFile, SameConns DEF LifeInv
<1>2. life.pc \in Single
  BY DEF Single
<1>3. PICK n \in Enabled :
        /\ n = life.at /\ n \in Servers /\ n \in Nat /\ ctx[n] \in LayerRec
        /\ Around(Enabled, file.servers, ctx, n)
  BY <1>2, Stands
<1>4. /\ ctx' \in [Servers -> LayerRec] /\ ctx'[n] = d
      /\ \A i \in Servers : i # n => ctx'[i] = ctx[i]
  BY <1>3, Touches DEF LifeInv, Typed
<1>5. r \in LifePcs /\ r \in Single /\ r \in Opening \union Failing
  BY DEF LifePcs, Single, Opening, Failing
<1>6. /\ life' \in LifeRec /\ life'.pc = r /\ life'.at = n
      /\ life'.err = life.err /\ life'.cut = life.cut
  BY <1>3, <1>5 DEF LifeInv, Typed, LifeRec
<1>7. Typed'
  BY <1>1, <1>4, <1>6 DEF LifeInv, Typed
<1>8. Owned = {j \in Enabled : j < n}
  BY <1>3 DEF LifeInv, AtInv
<1>9. AtInv'
  <2>1. r \notin Closing \union {"none", "list", "hold"}
    BY DEF Closing
  <2>2. QED  BY <1>1, <1>3, <1>5, <1>6, <1>8, <2>1 DEF AtInv
<1>10. Around(Enabled, file.servers, ctx', n)
  BY <1>3, <1>4, Stands, <1>2 DEF Around
<1>11. NestInv'
  <2>1. \A i \in Servers \ Enabled : Left(file.servers[i], ctx'[i])
    BY <1>3, <1>4 DEF LifeInv, NestInv
  <2>2. r \notin {"none", "hold", "done", "list", "closeSession", "closeTransport"}
    OBVIOUS
  <2>3. Fits(file.servers[n], ctx'[n], r)
    BY <1>3, <1>4 DEF Here
  <2>4. QED  BY <1>1, <1>4, <1>6, <1>10, <2>1, <2>2, <2>3 DEF NestInv, Here, Fits
<1>12. FreshInv'
  <2>1. ~life.err /\ ~life.cut /\ Clear(Servers, Enabled, ctx, n)
    <3>1. life.pc \notin Closing \union {"done"}
      BY DEF Opening, Failing, Closing
    <3>2. QED  BY <1>2, <1>3, <3>1 DEF LifeInv, FreshInv
  <2>2. Clear(Servers, Enabled, ctx', n)
    BY <1>3, <1>4, <2>1, Stands, <1>2 DEF Clear
  <2>3. r \notin {"none", "hold", "done", "client", "closeTransport"}
    OBVIOUS
  <2>4. /\ r \in {"transport", "session"} => ctx'[n].session = "none"
        /\ r = "transport" => ctx'[n].transport = "none"
    BY <1>4 DEF Fits
  <2>5. QED  BY <1>1, <1>6, <2>1, <2>2, <2>3, <2>4 DEF FreshInv
<1>13. QED  BY <1>1, <1>7, <1>9, <1>11, <1>12 DEF LifeInv

LEMMA EntersKeeps ==
  ASSUME LifeInv, Enters
  PROVE  LifeInv'
<1>1. PICK p \in Layers : p = life.pc
  BY DEF Enters
<1>2. p \in Single /\ p \in Opening /\ p \notin Closing \union {"done"}
  BY DEF Layers, Single, Opening, Closing
<1>3. PICK n \in Enabled : n = life.at /\ n \in Servers /\ n \in Nat /\ ctx[n] \in LayerRec
  BY <1>1, <1>2, Stands
<1>4. PICK d \in LayerRec : d = [ctx[n] EXCEPT ![p] = "open"]
  BY <1>3 DEF LayerRec
<1>5. d[p] = "open" /\ \A q \in Layers : q # p => d[q] = ctx[n][q]
  BY <1>3, <1>4 DEF LayerRec
<1>6. ctx' = [ctx EXCEPT ![life.at] = d]
  BY <1>1, <1>3, <1>4 DEF Enters, LifeInv, Typed
<1>7. UNCHANGED <<file, conns>>
  BY DEF Enters, MainThread
<1>8. CASE p = "client"
  <2>1. life' = [life EXCEPT !.pc = "transport"]
    BY <1>1, <1>8 DEF Enters, At
  <2>2. d.client = "open" /\ d.session = "none" /\ d.transport = "none"
    BY <1>1, <1>3, <1>5, <1>8 DEF LifeInv, FreshInv, Untouched, Layers
  <2>3. QED  BY <1>1, <1>2, <1>6, <1>7, <2>1, <2>2, GoesOn DEF Fits
<1>9. CASE p = "transport"
  <2>1. life' = [life EXCEPT !.pc = "session"]
    BY <1>1, <1>9 DEF Enters, At
  <2>2. d.transport = "open" /\ d.session = "none" /\ (Here.http => d.client = "open")
    BY <1>1, <1>3, <1>5, <1>9 DEF LifeInv, FreshInv, NestInv, Layers
  <2>3. QED  BY <1>1, <1>2, <1>6, <1>7, <2>1, <2>2, GoesOn DEF Fits, Based
<1>10. CASE p = "session"
  <2>1. life' = [life EXCEPT !.pc = "initialize"]
    BY <1>1, <1>10 DEF Enters, At
  <2>2. d.transport = "open" /\ d.session = "open" /\ (Here.http => d.client = "open")
    BY <1>1, <1>3, <1>5, <1>10 DEF LifeInv, NestInv, Based, Layers
  <2>3. QED  BY <1>1, <1>2, <1>6, <1>7, <2>1, <2>2, GoesOn DEF Fits, Based, Whole
<1>11. QED  BY <1>8, <1>9, <1>10 DEF Layers

\* What an attempt that fails leaves: its contexts to an unwinding, or none that
\* is open over another.
LEMMA AttemptKeeps ==
  ASSUME LifeInv, life.pc \in Opening \union {"list"}, AttemptFails, UNCHANGED <<file, ctx, conns>>
  PROVE  LifeInv'
<1>1. life.pc \in Single
  BY DEF Single
<1>2. PICK n \in Enabled :
        /\ n = life.at /\ n \in Servers /\ n \in Nat /\ ctx[n] \in LayerRec
        /\ Around(Enabled, file.servers, ctx, n)
        /\ Servers \subseteq Nat /\ Enabled \subseteq Servers /\ Owned \subseteq Enabled
  BY <1>1, Stands
<1>3. CASE life.pc \in {"session", "initialize"}
  <2>1. life' = [life EXCEPT !.pc = "unwindSession"]
    BY <1>3 DEF AttemptFails
  <2>2. Based(Here, ctx[n])
    BY <1>2, <1>3 DEF LifeInv, NestInv, Whole
  <2>3. ctx' = [ctx EXCEPT ![life.at] = ctx[n]]
    BY <1>2 DEF LifeInv, Typed
  <2>4. Fits(Here, ctx[n], "unwindSession")
    BY <2>2 DEF Fits
  <2>5. life.pc \in Opening \union Failing
    BY <1>3 DEF Opening
  <2>6. QED  BY <1>2, <2>1, <2>3, <2>4, <2>5, GoesOn
<1>4. CASE life.pc \notin {"session", "initialize"}
  <2>1. Fails
    BY <1>4 DEF AttemptFails
  <2>2. life.pc \in {"client", "transport", "list"}
    BY <1>4 DEF Opening
  <2>3. CASE life.pc = "list"
    <3>1. Owned = {j \in Enabled : j <= n} /\ Whole(file.servers[n], ctx[n])
      BY <1>2, <2>3 DEF LifeInv, AtInv, NestInv, Here
    <3>2. ASSUME NEW i \in Owned PROVE Whole(file.servers[i], ctx[i])
      <4>1. i \in Enabled /\ i \in Nat /\ i <= n
        BY <1>2, <3>1
      <4>2. i = n \/ i < n
        BY <1>2, <4>1
      <4>3. QED  BY <1>2, <3>1, <4>1, <4>2 DEF Around
    <3>3. ASSUME NEW i \in Servers \ Owned PROVE Left(file.servers[i], ctx[i])
      <4>1. i \in Enabled => i > n
        BY <1>2, <3>1
      <4>2. QED  BY <1>2, <4>1 DEF Around, LifeInv, NestInv
    <3>4. QED  BY <2>1, <3>2, <3>3, FailsKeeps DEF LifeInv, Typed
  <2>4. CASE life.pc # "list"
    <3>1. Owned = {j \in Enabled : j < n}
      BY <1>2, <2>2, <2>4 DEF LifeInv, AtInv, Opening
    <3>2. Left(file.servers[n], ctx[n])
      BY <1>2, <2>2, <2>4 DEF LifeInv, FreshInv, Untouched, Left
    <3>3. \A i \in Owned : Whole(file.servers[i], ctx[i])
      BY <1>2, <3>1 DEF Around
    <3>4. \A i \in Servers \ Owned : Left(file.servers[i], ctx[i])
      BY <1>2, <3>1, <3>2 DEF Around, LifeInv, NestInv
    <3>5. QED  BY <2>1, <3>3, <3>4, FailsKeeps DEF LifeInv, Typed
  <2>5. QED  BY <2>3, <2>4
<1>5. QED  BY <1>3, <1>4

\* The connection belongs to the manager: it is the last of those owned.
LEMMA InitializedKeeps ==
  ASSUME LifeInv, Initialized
  PROVE  LifeInv'
<1>1. life.pc = "initialize" /\ life.pc \in Single /\ life.pc \in Opening
  BY DEF Initialized, At, Single, Opening
<1>2. PICK n \in Enabled :
        /\ n = life.at /\ n \in Servers /\ n \in Nat
        /\ Around(Enabled, file.servers, ctx, n)
        /\ Servers \subseteq Nat /\ Enabled \subseteq Servers /\ Owned \subseteq Enabled
  BY <1>1, Stands
<1>3. UNCHANGED <<file, ctx>> /\ conns' = Append(conns, n) /\ life' = [life EXCEPT !.pc = "list"]
  BY <1>2 DEF Initialized, MainThread
<1>4. Servers' = Servers /\ Enabled' = Enabled
  BY <1>3, SameFile
<1>5. "list" \in LifePcs
  BY Places
<1>6. /\ life' \in LifeRec /\ life'.pc = "list" /\ life'.at = n
      /\ life'.err = life.err /\ life'.cut = life.cut
  BY <1>2, <1>3, <1>5 DEF LifeInv, Typed, LifeRec
<1>7. PICK m \in Nat : m = Len(conns) /\ DOMAIN conns = 1..m
  BY Numbers DEF LifeInv
<1>8. /\ conns' \in Seq(Servers) /\ DOMAIN conns' = 1..(m + 1)
      /\ \A k \in 1..m : conns'[k] = conns[k]
      /\ conns'[m + 1] = n
  BY <1>2, <1>3, <1>7, AppendProperties DEF LifeInv, Typed
<1>9. Owned = {j \in Enabled : j < n}
  BY <1>1, <1>2 DEF LifeInv, AtInv
<1>10. Owned' = Owned \union {n}
  <2>1. \A k \in 1..(m + 1) : k \in 1..m \/ k = m + 1
    BY <1>7
  <2>2. 1..m \subseteq 1..(m + 1) /\ m + 1 \in 1..(m + 1)
    BY <1>7
  <2>3. QED  BY <1>7, <1>8, <2>1, <2>2 DEF Owned
<1>11. Owned' = {j \in Enabled : j <= n}
  <2>1. \A j \in Enabled : j <= n <=> (j < n \/ j = n)
    BY <1>2
  <2>2. QED  BY <1>2, <1>9, <1>10, <2>1
<1>12. Typed'
  BY <1>3, <1>4, <1>6, <1>8 DEF LifeInv, Typed
<1>13. OrderInv'
  <2>1. ASSUME NEW k \in DOMAIN conns', NEW l \in DOMAIN conns', k < l PROVE conns'[k] < conns'[l]
    <3>1. k \in 1..m
      BY <1>7, <1>8, <2>1
    <3>2. CASE l \in 1..m
      BY <1>7, <1>8, <2>1, <3>1, <3>2 DEF LifeInv, OrderInv
    <3>3. CASE l \notin 1..m
      <4>1. l = m + 1 /\ conns[k] \in Owned
        BY <1>7, <1>8, <3>1, <3>3 DEF Owned
      <4>2. QED  BY <1>8, <1>9, <3>1, <4>1
    <3>4. QED  BY <3>2, <3>3
  <2>2. \A i \in Owned', j \in Enabled : j < i => j \in Owned'
    BY <1>2, <1>11
  <2>3. QED  BY <1>2, <1>4, <1>10, <2>1, <2>2 DEF OrderInv
<1>14. AtInv'
  BY <1>2, <1>4, <1>6, <1>11 DEF AtInv, Opening, Failing, Closing, Single
<1>15. NestInv'
  <2>1. Whole(file.servers[n], ctx[n])
    BY <1>1, <1>2 DEF LifeInv, NestInv, Here
  <2>2. \A i \in Servers \ Enabled : Left(file.servers[i], ctx[i])
    BY DEF LifeInv, NestInv
  <2>3. QED  BY <1>2, <1>3, <1>4, <1>6, <2>1, <2>2 DEF NestInv, Here
<1>16. FreshInv'
  <2>1. ~life.err /\ ~life.cut /\ Clear(Servers, Enabled, ctx, n)
    BY <1>1, <1>2 DEF LifeInv, FreshInv, Closing
  <2>2. QED  BY <1>3, <1>4, <1>6, <2>1 DEF FreshInv
<1>17. QED  BY <1>12, <1>13, <1>14, <1>15, <1>16 DEF LifeInv

\* To the next server, with all that are owned behind it, or to the wait.
LEMMA NextKeeps ==
  ASSUME LifeInv, NEW i \in Nat, NextServer(i), UNCHANGED <<file, ctx, conns>>,
         ~life.err, ~life.cut,
         Owned = {j \in Enabled : j <= i}, Enabled # {},
         \A j \in Owned : Whole(file.servers[j], ctx[j]),
         \A j \in Servers \ Owned : Untouched(ctx[j])
  PROVE  LifeInv'
<1>1. Servers' = Servers /\ Enabled' = Enabled /\ OrderInv' /\ Owned' = Owned
  BY SameFile, SameConns DEF LifeInv
<1>2. PICK l \in LifeRec :
        /\ l = life' /\ ~l.err /\ ~l.cut
        /\ \/ Behind(i) = {} /\ l.pc = "hold"
           \/ /\ l.at \in Behind(i) /\ \A k \in Behind(i) : l.at <= k
              /\ l.pc = IF file.servers[l.at].http THEN "client" ELSE "transport"
  BY NextTo DEF LifeInv
<1>3. Typed'
  BY <1>1, <1>2 DEF LifeInv, Typed
<1>4. Behind(i) = {j \in Enabled : j > i} /\ Enabled \subseteq Servers /\ Servers \subseteq Nat
  BY Numbers DEF LifeInv
<1>5. \A j \in Servers : Untouched(ctx[j]) => Left(file.servers[j], ctx[j])
  BY DEF Untouched, Left
<1>6. CASE Behind(i) = {} /\ l.pc = "hold"
  <2>1. Owned = Enabled
    <3>1. \A j \in Enabled : ~(j > i)
      BY <1>4, <1>6
    <3>2. \A j \in Enabled : j <= i
      BY <1>4, <3>1
    <3>3. QED  BY <3>2
  <2>2. AtInv'
    BY <1>1, <1>2, <1>6, <2>1 DEF AtInv, Single, Opening, Failing, Closing
  <2>3. NestInv'
    BY <1>1, <1>2, <1>4, <1>5, <1>6, <2>1 DEF NestInv, Single, Opening, Failing, Closing
  <2>4. FreshInv'
    BY <1>1, <1>2, <1>6, <2>1 DEF FreshInv, Single, Opening, Failing, Closing
  <2>5. QED  BY <1>1, <1>3, <2>2, <2>3, <2>4 DEF LifeInv
<1>7. CASE /\ l.at \in Behind(i) /\ \A k \in Behind(i) : l.at <= k
           /\ l.pc = IF file.servers[l.at].http THEN "client" ELSE "transport"
  <2>1. l.pc \in {"client", "transport"} /\ (Here.http' => l.pc = "client")
    BY <1>2, <1>7 DEF Here
  <2>2. /\ l.pc \in Single /\ l.pc \in Opening
        /\ l.pc \notin Failing \union Closing \union {"none", "list", "hold", "done"}
    BY <2>1 DEF Single, Opening, Failing, Closing
  <2>3. l.at \in Enabled /\ l.at \in Servers /\ l.at \in Nat /\ l.at > i
    BY <1>4, <1>7
  <2>4. ASSUME NEW j \in Enabled PROVE (j < l.at => j \in Owned) /\ (j >= l.at => j \notin Owned)
    <3>1. j \in Nat
      BY <1>4
    <3>2. j < l.at => ~(j > i)
      BY <1>4, <1>7, <2>3, <3>1
    <3>3. QED  BY <2>3, <3>1, <3>2
  <2>5. Owned = {j \in Enabled : j < l.at}
    <3>1. \A j \in Enabled : j < l.at \/ j >= l.at
      BY <1>4, <2>3
    <3>2. QED  BY <2>4, <3>1
  <2>6. AtInv'
    BY <1>1, <1>2, <2>2, <2>3, <2>5 DEF AtInv
  <2>7. Untouched(ctx[l.at]) /\ l.at \notin Owned
    BY <2>3, <2>4
  <2>8. Around(Enabled, file.servers, ctx, l.at)
    <3>1. ASSUME NEW j \in Enabled
          PROVE  /\ j < l.at => Whole(file.servers[j], ctx[j])
                 /\ j > l.at => Left(file.servers[j], ctx[j])
      <4>0. j \in Nat /\ l.at \in Nat
        BY <1>4, <2>3
      <4>1. j > l.at => j >= l.at
        BY <4>0
      <4>2. CASE j < l.at
        <5>1. Whole(file.servers[j], ctx[j]) /\ ~(j > l.at)
          BY <2>4, <4>0, <4>2
        <5>2. QED  BY <5>1
      <4>3. CASE j >= l.at
        <5>1. Left(file.servers[j], ctx[j]) /\ ~(j < l.at)
          BY <1>4, <1>5, <2>4, <4>0, <4>3
        <5>2. QED  BY <5>1
      <4>4. QED  BY <4>0, <4>2, <4>3
    <3>2. QED  BY <3>1 DEF Around
  <2>9. NestInv'
    <3>1. \A j \in Servers \ Enabled : Left(file.servers[j], ctx[j])
      BY DEF LifeInv, NestInv
    <3>2. l.pc \notin {"none", "hold", "done", "initialize", "closeSession", "list", "session",
                       "unwindSession", "unwindTransport", "closeTransport"}
      BY <2>1
    <3>3. l.pc = "transport" => ~file.servers[l.at].http
      BY <1>7
    <3>4. QED  BY <1>1, <1>2, <2>8, <3>1, <3>2, <3>3 DEF NestInv, Here
  <2>10. Clear(Servers, Enabled, ctx, l.at)
    BY <1>4, <2>3, <2>4 DEF Clear
  <2>11. FreshInv'
    <3>1. /\ l.pc \notin {"none", "hold", "done", "session", "closeTransport"}
      BY <2>1
    <3>2. QED  BY <1>1, <1>2, <2>7, <2>10, <3>1 DEF FreshInv, Untouched
  <2>12. QED  BY <1>1, <1>3, <2>6, <2>9, <2>11 DEF LifeInv
<1>8. QED  BY <1>2, <1>6, <1>7

LEMMA ListedKeeps ==
  ASSUME LifeInv, Listed
  PROVE  LifeInv'
<1>1. life.pc = "list" /\ life.pc \in Single /\ life.pc \in Opening \union {"list"}
  BY DEF Listed, At, Single
<1>2. PICK n \in Enabled :
        /\ n = life.at /\ n \in Servers /\ n \in Nat
        /\ Around(Enabled, file.servers, ctx, n)
        /\ Servers \subseteq Nat /\ Enabled \subseteq Servers /\ Owned \subseteq Enabled
  BY <1>1, Stands
<1>3. UNCHANGED <<file, ctx, conns>>
  BY DEF Listed, MainThread
<1>4. ASSUME life' = [life EXCEPT !.page = @ + 1] PROVE LifeInv'
  <2>1. Servers' = Servers /\ Enabled' = Enabled /\ OrderInv' /\ Owned' = Owned
    BY <1>3, SameFile, SameConns DEF LifeInv
  <2>2. /\ life' \in LifeRec /\ life'.pc = life.pc /\ life'.at = life.at
        /\ life'.cut = life.cut /\ life'.err = life.err
    BY <1>4 DEF LifeInv, Typed, LifeRec
  <2>3. Typed'
    BY <1>3, <2>1, <2>2 DEF LifeInv, Typed
  <2>4. AtInv'
    BY <1>1, <2>1, <2>2 DEF LifeInv, AtInv, Opening, Failing, Closing
  <2>5. NestInv'
    BY <1>3, <2>1, <2>2 DEF LifeInv, NestInv, Here
  <2>6. FreshInv'
    BY <1>1, <1>3, <2>1, <2>2 DEF LifeInv, FreshInv
  <2>7. QED  BY <2>1, <2>3, <2>4, <2>5, <2>6 DEF LifeInv
<1>5. ASSUME Fails PROVE LifeInv'
  <2>1. AttemptFails
    BY <1>1, <1>5 DEF AttemptFails
  <2>2. QED  BY <1>1, <1>3, <2>1, AttemptKeeps
<1>6. ASSUME NextServer(life.at) PROVE LifeInv'
  <2>1. Owned = {j \in Enabled : j <= n} /\ Whole(file.servers[n], ctx[n])
    BY <1>1, <1>2 DEF LifeInv, AtInv, NestInv, Here
  <2>2. ~life.err /\ ~life.cut /\ Clear(Servers, Enabled, ctx, n)
    BY <1>1, <1>2 DEF LifeInv, FreshInv, Closing
  <2>3. ASSUME NEW i \in Owned PROVE Whole(file.servers[i], ctx[i])
    <3>1. i \in Enabled /\ i \in Nat /\ i <= n
      BY <1>2, <2>1
    <3>2. i = n \/ i < n
      BY <1>2, <3>1
    <3>3. QED  BY <1>2, <2>1, <3>1, <3>2 DEF Around
  <2>4. ASSUME NEW i \in Servers \ Owned PROVE Untouched(ctx[i])
    <3>1. i \in Enabled => i > n
      BY <1>2, <2>1
    <3>2. QED  BY <1>2, <2>2, <3>1 DEF Clear
  <2>5. QED  BY <1>2, <1>3, <1>6, <2>1, <2>2, <2>3, <2>4, NextKeeps
<1>7. QED  BY <1>4, <1>5, <1>6 DEF Listed

LEMMA AttemptFaults ==
  ASSUME LifeInv, TimesOut \/ OpeningRaises
  PROVE  LifeInv'
<1>1. AttemptFails /\ UNCHANGED <<file, ctx, conns>>
  BY DEF TimesOut, OpeningRaises, MainThread
<1>2. life.pc \in Opening \union {"list"}
  BY DEF TimesOut, OpeningRaises, At, Opening
<1>3. QED  BY <1>1, <1>2, AttemptKeeps

\* The end of an unwinding, with an exception of its own or without.
LEMMA UnwoundKeeps ==
  ASSUME LifeInv, life.pc \in Failing, Fails, UNCHANGED <<file, conns>>,
         NEW d \in LayerRec, ctx' = [ctx EXCEPT ![life.at] = d], Left(Here, d)
  PROVE  LifeInv'
<1>1. life.pc \in Single
  BY DEF Single
<1>2. PICK n \in Enabled :
        /\ n = life.at /\ n \in Servers /\ n \in Nat
        /\ Around(Enabled, file.servers, ctx, n)
        /\ Servers \subseteq Nat /\ Enabled \subseteq Servers /\ Owned \subseteq Enabled
  BY <1>1, Stands
<1>3. /\ ctx' \in [Servers -> LayerRec] /\ ctx'[n] = d
      /\ \A i \in Servers : i # n => ctx'[i] = ctx[i]
  BY <1>2, Touches DEF LifeInv, Typed
<1>4. Owned = {j \in Enabled : j < n}
  BY <1>2 DEF LifeInv, AtInv
<1>5. \A i \in Owned : Whole(file.servers[i], ctx'[i])
  BY <1>2, <1>3, <1>4 DEF Around
<1>6. ASSUME NEW i \in Servers \ Owned PROVE Left(file.servers[i], ctx'[i])
  <2>1. CASE i = n
    BY <1>2, <1>3, <2>1 DEF Here
  <2>2. CASE i # n
    <3>1. i \in Enabled => i > n
      BY <1>2, <1>4, <2>2
    <3>2. QED  BY <1>2, <1>3, <2>2, <3>1 DEF Around, LifeInv, NestInv
  <2>3. QED  BY <2>1, <2>2
<1>7. QED  BY <1>3, <1>5, <1>6, FailsKeeps DEF LifeInv

LEMMA UnwindsKeeps ==
  ASSUME LifeInv, Unwinds \/ UnwindRaises
  PROVE  LifeInv'
<1>1. life.pc \in Failing /\ life.pc \in Single /\ life.pc \in Opening \union Failing
  BY DEF Unwinds, UnwindRaises, Failing, Single
<1>2. PICK n \in Servers : n = life.at /\ ctx[n] \in LayerRec
  BY <1>1, Stands
<1>3. UNCHANGED <<file, conns>>
  BY DEF Unwinds, UnwindRaises, MainThread
<1>4. CASE life.pc = "unwindSession" /\ Unwinds
  <2>1. PICK d \in LayerRec : d = [ctx[n] EXCEPT !.session = "none"]
    BY <1>2 DEF LayerRec
  <2>2. d.session = "none" /\ d.transport = ctx[n].transport /\ d.client = ctx[n].client
    BY <1>2, <2>1 DEF LayerRec, Layers
  <2>3. ctx' = [ctx EXCEPT ![life.at] = d] /\ life' = [life EXCEPT !.pc = "unwindTransport"]
    BY <1>2, <1>4, <2>1 DEF Unwinds, At, LifeInv, Typed
  <2>4. Fits(Here, d, "unwindTransport")
    BY <1>2, <1>4, <2>2 DEF LifeInv, NestInv, Fits, Based
  <2>5. QED  BY <1>1, <1>3, <2>3, <2>4, GoesOn
<1>5. CASE life.pc = "unwindTransport" /\ Unwinds
  <2>1. PICK d \in LayerRec : d = [l \in Layers |-> "none"]
    BY DEF LayerRec
  <2>2. d.session = "none" /\ d.transport = "none"
    BY <2>1 DEF Layers
  <2>3. ctx' = [ctx EXCEPT ![life.at] = d] /\ Fails
    BY <1>2, <1>5, <2>1 DEF Unwinds, At, LifeInv, Typed
  <2>4. Left(Here, d)
    BY <2>2 DEF Left
  <2>5. QED  BY <1>1, <1>3, <2>3, <2>4, UnwoundKeeps
<1>6. CASE life.pc = "unwindSession" /\ UnwindRaises
  <2>1. PICK d \in LayerRec : d = [ctx[n] EXCEPT !.session = "torn"]
    BY <1>2 DEF LayerRec
  <2>2. d.session = "torn" /\ d.transport = ctx[n].transport /\ d.client = ctx[n].client
    BY <1>2, <2>1 DEF LayerRec, Layers
  <2>3. ctx' = [ctx EXCEPT ![life.at] = d] /\ Fails
    BY <1>2, <1>6, <2>1 DEF UnwindRaises, At, LifeInv, Typed
  <2>4. Left(Here, d)
    BY <1>2, <1>6, <2>2 DEF LifeInv, NestInv, Left, Based
  <2>5. QED  BY <1>1, <1>3, <2>3, <2>4, UnwoundKeeps
<1>7. CASE life.pc = "unwindTransport" /\ UnwindRaises
  <2>1. PICK d \in LayerRec : d = [ctx[n] EXCEPT !.transport = "torn", !.client = "none"]
    BY <1>2 DEF LayerRec
  <2>2. d.session = ctx[n].session /\ d.transport = "torn"
    BY <1>2, <2>1 DEF LayerRec, Layers
  <2>3. ctx' = [ctx EXCEPT ![life.at] = d] /\ Fails
    BY <1>2, <1>7, <2>1 DEF UnwindRaises, At, LifeInv, Typed
  <2>4. Left(Here, d)
    BY <1>2, <1>7, <2>2 DEF LifeInv, NestInv, Left
  <2>5. QED  BY <1>1, <1>3, <2>3, <2>4, UnwoundKeeps
<1>8. QED  BY <1>4, <1>5, <1>6, <1>7 DEF Unwinds, UnwindRaises

-----------------------------------------------------------------------------
(* Closing.                                                                  *)

\* From the wait: every enabled connection is owned and whole.
LEMMA HoldsAll ==
  ASSUME LifeInv, life.pc = "hold"
  PROVE  /\ Owned = Enabled /\ conns # <<>> /\ ~life.err /\ ~life.cut
         /\ \A i \in Enabled : Whole(file.servers[i], ctx[i])
         /\ \A i \in Servers \ Enabled : Untouched(ctx[i]) /\ Left(file.servers[i], ctx[i])
<1>1. Owned = Enabled /\ Enabled # {}
  BY DEF LifeInv, AtInv
<1>2. conns # <<>>
  <2>1. DOMAIN <<>> = {}
    OBVIOUS
  <2>2. QED  BY <1>1, <2>1 DEF Owned
<1>3. ~life.err /\ ~life.cut
  BY DEF LifeInv, FreshInv, Closing
<1>4. QED  BY <1>1, <1>2, <1>3 DEF LifeInv, NestInv, FreshInv

LEMMA HoldFails ==
  ASSUME LifeInv, life.pc = "hold", Fails, UNCHANGED <<file, ctx, conns>>
  PROVE  LifeInv'
<1>1. ctx' \in [Servers -> LayerRec] /\ Typed /\ OrderInv
  BY DEF LifeInv, Typed
<1>2. QED  BY <1>1, HoldsAll, FailsKeeps

LEMMA WakesKeeps ==
  ASSUME LifeInv, Wakes
  PROVE  LifeInv'
<1>1. life.pc = "hold" /\ UNCHANGED <<file, ctx, conns>>
  BY DEF Wakes, At, MainThread
<1>2. Servers' = Servers /\ Enabled' = Enabled /\ OrderInv' /\ Owned' = Owned
  BY <1>1, SameFile, SameConns DEF LifeInv
<1>3. PICK n \in Enabled : n = Last(conns) /\ \A j \in Enabled : j <= n
  BY <1>1, HoldsAll, LastIsGreatest DEF LifeInv
<1>4. Servers \subseteq Nat /\ Enabled \subseteq Servers
  BY Numbers DEF LifeInv
<1>5. life' = [life EXCEPT !.pc = "closeSession", !.at = n]
  BY <1>3 DEF Wakes
<1>6. n \in Nat /\ "closeSession" \in LifePcs
  BY <1>4, Places
<1>7. /\ life' \in LifeRec /\ life'.pc = "closeSession" /\ life'.at = n
      /\ life'.err = life.err /\ life'.cut = life.cut
  BY <1>5, <1>6 DEF LifeInv, Typed, LifeRec
<1>8. Typed'
  BY <1>1, <1>2, <1>7 DEF LifeInv, Typed
<1>9. AtInv'
  BY <1>1, <1>2, <1>3, <1>7, HoldsAll DEF AtInv, Single, Opening, Failing, Closing
<1>10. \A j \in Enabled : ~(j > n)
  BY <1>3, <1>4, <1>6
<1>11. Around(Enabled, file.servers, ctx, n) /\ Clear(Servers, Enabled, ctx, n)
  <2>1. \A i \in Servers \ Enabled : Untouched(ctx[i])
    BY <1>1, HoldsAll
  <2>2. \A i \in Enabled : Whole(file.servers[i], ctx[i])
    BY <1>1, HoldsAll
  <2>3. QED  BY <1>10, <2>1, <2>2 DEF Around, Clear
<1>12. NestInv'
  <2>1. Whole(file.servers[n], ctx[n]) /\ \A i \in Servers \ Enabled : Left(file.servers[i], ctx[i])
    BY <1>1, HoldsAll
  <2>2. QED  BY <1>1, <1>2, <1>7, <1>11, <2>1 DEF NestInv, Here
<1>13. FreshInv'
  BY <1>1, <1>2, <1>7, <1>11 DEF FreshInv, Closing
<1>14. QED  BY <1>2, <1>8, <1>9, <1>12, <1>13 DEF LifeInv

\* The session of the connection is left; an exception is remembered.
LEMMA SessionKeeps ==
  ASSUME LifeInv, life.pc = "closeSession", UNCHANGED <<file, conns>>,
         life' \in LifeRec, life'.pc = "closeTransport", life'.at = life.at, life'.err = life.err,
         NEW d \in LayerRec, ctx' = [ctx EXCEPT ![life.at] = d],
         d.transport = ctx[life.at].transport, d.client = ctx[life.at].client,
         d.session # "open", ~life'.cut => d.session = "none"
  PROVE  LifeInv'
<1>1. Servers' = Servers /\ Enabled' = Enabled /\ OrderInv' /\ Owned' = Owned
  BY SameFile, SameConns DEF LifeInv
<1>2. life.pc \in Single /\ life.pc \in Closing
  BY DEF Single, Closing
<1>3. PICK n \in Enabled :
        /\ n = life.at /\ n \in Servers /\ n \in Nat /\ n \in Owned
        /\ Around(Enabled, file.servers, ctx, n)
        /\ Servers \subseteq Nat /\ Enabled \subseteq Servers
  BY <1>2, Stands DEF LifeInv, AtInv
<1>4. /\ ctx' \in [Servers -> LayerRec] /\ ctx'[n] = d
      /\ \A i \in Servers : i # n => ctx'[i] = ctx[i]
  BY <1>3, Touches DEF LifeInv, Typed
<1>5. Typed'
  BY <1>1, <1>4 DEF LifeInv, Typed
<1>6. AtInv'
  BY <1>1, <1>3 DEF AtInv, Single, Opening, Failing, Closing
<1>7. NestInv'
  <2>1. Around(Enabled, file.servers, ctx', n)
    BY <1>3, <1>4 DEF Around
  <2>2. \A i \in Servers \ Enabled : Left(file.servers[i], ctx'[i])
    BY <1>3, <1>4 DEF LifeInv, NestInv
  <2>3. Based(file.servers[n], ctx'[n]) /\ ctx'[n].session # "open"
    BY <1>3, <1>4 DEF LifeInv, NestInv, Here, Whole, Based
  <2>4. QED  BY <1>1, <1>3, <2>1, <2>2, <2>3 DEF NestInv, Here
<1>8. FreshInv'
  <2>1. ~life.err => Clear(Servers, Enabled, ctx', n)
    BY <1>2, <1>3, <1>4 DEF LifeInv, FreshInv, Clear
  <2>2. QED  BY <1>1, <1>3, <1>4, <2>1 DEF FreshInv, Closing
<1>9. QED  BY <1>1, <1>5, <1>6, <1>7, <1>8 DEF LifeInv

\* The transport is left as the last thing: what is in front of it stays open.
LEMMA EndsKeeps ==
  ASSUME LifeInv, life.pc = "closeTransport", UNCHANGED <<file, conns>>,
         life' \in LifeRec, life'.pc = "done", life'.err,
         NEW d \in LayerRec, ctx' = [ctx EXCEPT ![life.at] = d], Left(Here, d)
  PROVE  LifeInv'
<1>1. Servers' = Servers /\ Enabled' = Enabled /\ OrderInv' /\ Owned' = Owned
  BY SameFile, SameConns DEF LifeInv
<1>2. life.pc \in Single
  BY DEF Single, Closing
<1>3. PICK n \in Enabled :
        /\ n = life.at /\ n \in Servers /\ n \in Nat
        /\ Around(Enabled, file.servers, ctx, n)
        /\ Servers \subseteq Nat /\ Enabled \subseteq Servers
  BY <1>2, Stands
<1>4. /\ ctx' \in [Servers -> LayerRec] /\ ctx'[n] = d
      /\ \A i \in Servers : i # n => ctx'[i] = ctx[i]
  BY <1>3, Touches DEF LifeInv, Typed
<1>5. Typed'
  BY <1>1, <1>4 DEF LifeInv, Typed
<1>6. AtInv'
  BY <1>1 DEF AtInv, Single, Opening, Failing, Closing
<1>7. NestInv'
  <2>1. Around(Enabled, file.servers, ctx', n) /\ Left(file.servers[n], ctx'[n])
    BY <1>3, <1>4 DEF Around, Here
  <2>2. \A i \in Servers \ Enabled : Left(file.servers[i], ctx'[i])
    BY <1>3, <1>4 DEF LifeInv, NestInv
  <2>3. life'.pc \notin Single
    BY DEF Single, Opening, Failing, Closing
  <2>4. QED  BY <1>1, <1>3, <2>1, <2>2, <2>3 DEF NestInv
<1>8. FreshInv'
  BY DEF FreshInv, Single, Opening, Failing, Closing
<1>9. QED  BY <1>1, <1>5, <1>6, <1>7, <1>8 DEF LifeInv

\* The transport is left without an exception: on to the connection in front of
\* it, or, with the first, to the end.
LEMMA TransportKeeps ==
  ASSUME LifeInv, life.pc = "closeTransport", UNCHANGED file, ClosesNext,
         NEW d \in LayerRec, ctx' = [ctx EXCEPT ![life.at] = d],
         d.session = ctx[life.at].session, d.transport = "none", d.client = "none"
  PROVE  LifeInv'
<1>1. Servers' = Servers /\ Enabled' = Enabled
  BY SameFile
<1>2. life.pc \in Single /\ life.pc \in Closing
  BY DEF Single, Closing
<1>3. PICK n \in Enabled :
        /\ n = life.at /\ n \in Servers /\ n \in Nat /\ n \in Owned
        /\ Around(Enabled, file.servers, ctx, n)
        /\ Servers \subseteq Nat /\ Enabled \subseteq Servers /\ Owned \subseteq Enabled
  BY <1>2, Stands DEF LifeInv, AtInv
<1>4. /\ ctx' \in [Servers -> LayerRec] /\ ctx'[n] = d
      /\ \A i \in Servers : i # n => ctx'[i] = ctx[i]
  BY <1>3, Touches DEF LifeInv, Typed
<1>5. Left(file.servers[n], d) /\ Left(Here, d)
  BY <1>3 DEF LifeInv, NestInv, Left
<1>6. \A i \in Servers \ Enabled : Left(file.servers[i], ctx'[i])
  BY <1>3, <1>4 DEF LifeInv, NestInv
<1>7. ~life.err /\ ~life.cut => Untouched(d) /\ Clear(Servers, Enabled, ctx, n)
  BY <1>2, <1>3 DEF LifeInv, FreshInv, Untouched
<1>8. PICK l \in LifeRec :
        /\ l = life' /\ l.cut = life.cut
        /\ \/ life.cut /\ l.pc = "done" /\ l.err /\ UNCHANGED conns
           \/ /\ ~life.cut /\ l.err = life.err /\ l.pc = "done" /\ conns' = <<>>
              /\ \A j \in Owned : j >= n
           \/ /\ ~life.cut /\ l.err = life.err /\ l.pc = "closeSession" /\ UNCHANGED conns
              /\ l.at \in Owned /\ l.at < n
              /\ \A j \in Owned : j < n => j <= l.at
  BY <1>3, ClosesTo DEF LifeInv
<1>9. CASE life.cut /\ l.pc = "done" /\ l.err /\ UNCHANGED conns
  BY <1>5, <1>8, <1>9, EndsKeeps
<1>10. CASE ~life.cut /\ l.err = life.err /\ l.pc = "done" /\ conns' = <<>> /\ \A j \in Owned : j >= n
  <2>1. Owned' = {}
    <3>1. DOMAIN <<>> = {}
      OBVIOUS
    <3>2. QED  BY <1>10, <3>1 DEF Owned
  <2>2. OrderInv'
    <3>1. DOMAIN conns' = {}
      BY <1>10
    <3>2. QED  BY <2>1, <3>1 DEF OrderInv
  <2>3. Typed'
    BY <1>1, <1>4, <1>8, <1>10 DEF LifeInv, Typed
  <2>4. AtInv'
    BY <1>8, <1>10 DEF AtInv, Single, Opening, Failing, Closing
  <2>5. NestInv'
    <3>1. Around(Enabled, file.servers, ctx', n)
      <4>1. \A i \in Enabled : i < n \/ i > n => ctx'[i] = ctx[i]
        BY <1>3, <1>4
      <4>2. QED  BY <1>3, <4>1 DEF Around
    <3>4. Left(file.servers[n], ctx'[n])
      BY <1>4, <1>5
    <3>2. l.pc \notin Single
      BY <1>10 DEF Single, Opening, Failing, Closing
    <3>3. QED  BY <1>1, <1>3, <1>6, <1>8, <1>10, <3>1, <3>2, <3>4 DEF NestInv
  <2>6. FreshInv'
    <3>1. ASSUME ~life.err, NEW i \in Servers PROVE Untouched(ctx'[i])
      <4>1. CASE i = n
        BY <1>4, <1>7, <1>10, <3>1, <4>1
      <4>2. CASE i # n
        <5>1. i \in Enabled => ~(i < n)
          <6>1. i \in Enabled /\ i < n => i \in Owned
            BY <1>3 DEF LifeInv, OrderInv
          <6>2. i \in Nat /\ (i \in Owned => i >= n)
            BY <1>3, <1>10
          <6>3. QED  BY <1>3, <6>1, <6>2
        <5>2. i \in Enabled => i > n
          BY <1>3, <4>2, <5>1
        <5>3. QED  BY <1>4, <1>7, <1>10, <3>1, <4>2, <5>2 DEF Clear
      <4>3. QED  BY <4>1, <4>2
    <3>2. l.pc \notin Single
      BY <1>10 DEF Single, Opening, Failing, Closing
    <3>3. QED  BY <1>1, <1>8, <1>10, <3>1, <3>2 DEF FreshInv
  <2>7. QED  BY <2>2, <2>3, <2>4, <2>5, <2>6 DEF LifeInv
<1>11. CASE /\ ~life.cut /\ l.err = life.err /\ l.pc = "closeSession" /\ UNCHANGED conns
            /\ l.at \in Owned /\ l.at < n
            /\ \A j \in Owned : j < n => j <= l.at
  <2>1. OrderInv' /\ Owned' = Owned
    BY <1>11, SameConns DEF LifeInv
  <2>2. Typed'
    BY <1>1, <1>4, <1>8, <1>11 DEF LifeInv, Typed
  <2>3. PICK a \in Enabled :
          /\ a = l.at /\ a \in Servers /\ a \in Nat /\ a \in Owned /\ a < n
          /\ \A j \in Owned : j < n => j <= a
    BY <1>3, <1>11
  <2>4. AtInv'
    BY <1>1, <1>8, <1>11, <2>1, <2>3 DEF AtInv, Single, Opening, Failing, Closing
  <2>5. ASSUME NEW i \in Enabled, i > a PROVE i = n \/ i > n
    <3>1. i < n => i \in Owned
      BY <1>3 DEF LifeInv, OrderInv
    <3>2. i \in Nat /\ ~(i <= a)
      BY <1>3, <2>3, <2>5
    <3>3. ~(i < n)
      BY <2>3, <3>1, <3>2
    <3>4. QED  BY <1>3, <3>2, <3>3
  <2>6. Around(Enabled, file.servers, ctx', a)
    <3>1. ASSUME NEW i \in Enabled, i < a PROVE Whole(file.servers[i], ctx'[i])
      <4>1. i \in Nat /\ i < n
        BY <1>3, <2>3, <3>1
      <4>2. i # n /\ i \in Servers
        BY <1>3, <4>1
      <4>3. QED  BY <1>3, <1>4, <4>1, <4>2 DEF Around
    <3>2. ASSUME NEW i \in Enabled, i > a PROVE Left(file.servers[i], ctx'[i])
      <4>1. CASE i = n
        BY <1>4, <1>5, <4>1
      <4>2. CASE i # n
        BY <1>3, <1>4, <2>5, <3>2, <4>2 DEF Around
      <4>3. QED  BY <4>1, <4>2
    <3>3. QED  BY <3>1, <3>2 DEF Around
  <2>7. Whole(file.servers[a], ctx'[a])
    BY <1>3, <1>4, <2>3 DEF Around
  <2>8. NestInv'
    BY <1>1, <1>6, <1>8, <1>11, <2>3, <2>6, <2>7 DEF NestInv, Here
  <2>9. FreshInv'
    <3>1. ASSUME ~life.err PROVE Clear(Servers, Enabled, ctx', a)
      <4>1. ASSUME NEW i \in Servers, i \notin Enabled \/ i > a PROVE Untouched(ctx'[i])
        <5>1. CASE i = n
          BY <1>4, <1>7, <1>11, <3>1, <5>1
        <5>2. CASE i # n
          <6>1. i \notin Enabled \/ i > n
            BY <2>5, <4>1, <5>2
          <6>2. QED  BY <1>4, <1>7, <1>11, <3>1, <5>2, <6>1 DEF Clear
        <5>3. QED  BY <5>1, <5>2
      <4>2. QED  BY <4>1 DEF Clear
    <3>2. QED  BY <1>1, <1>8, <1>11, <2>3, <3>1 DEF FreshInv, Closing
  <2>10. QED  BY <2>1, <2>2, <2>4, <2>8, <2>9 DEF LifeInv
<1>12. QED  BY <1>8, <1>9, <1>10, <1>11

LEMMA ExitsKeeps ==
  ASSUME LifeInv, Exits
  PROVE  LifeInv'
<1>1. life.pc \in Single /\ life.pc \in {"closeSession", "closeTransport"}
  BY DEF Exits, Single, Closing
<1>2. PICK n \in Servers : n = life.at /\ ctx[n] \in LayerRec
  BY <1>1, Stands
<1>3. CASE life.pc = "closeSession"
  <2>1. PICK d \in LayerRec : d = [ctx[n] EXCEPT !.session = "none"]
    BY <1>2 DEF LayerRec
  <2>2. d.session = "none" /\ d.transport = ctx[n].transport /\ d.client = ctx[n].client
    BY <1>2, <2>1 DEF LayerRec, Layers
  <2>3. /\ ctx' = [ctx EXCEPT ![life.at] = d] /\ life' = [life EXCEPT !.pc = "closeTransport"]
        /\ UNCHANGED <<file, conns>>
    BY <1>2, <1>3, <2>1 DEF Exits, At, MainThread, LifeInv, Typed
  <2>4. "closeTransport" \in LifePcs
    BY Places
  <2>5. /\ life' \in LifeRec /\ life'.pc = "closeTransport" /\ life'.at = life.at
        /\ life'.err = life.err
    BY <2>3, <2>4 DEF LifeInv, Typed, LifeRec
  <2>6. QED  BY <1>2, <1>3, <2>2, <2>3, <2>5, SessionKeeps
<1>4. CASE life.pc = "closeTransport"
  <2>1. PICK d \in LayerRec : d = [ctx[n] EXCEPT !.transport = "none", !.client = "none"]
    BY <1>2 DEF LayerRec
  <2>2. d.session = ctx[n].session /\ d.transport = "none" /\ d.client = "none"
    BY <1>2, <2>1 DEF LayerRec, Layers
  <2>3. ctx' = [ctx EXCEPT ![life.at] = d] /\ ClosesNext /\ UNCHANGED file
    BY <1>2, <1>4, <2>1 DEF Exits, At, MainThread, LifeInv, Typed
  <2>4. QED  BY <1>2, <1>4, <2>2, <2>3, TransportKeeps
<1>5. QED  BY <1>1, <1>3, <1>4

LEMMA TornKeeps ==
  ASSUME LifeInv, life.pc \in Closing, ExitTorn, UNCHANGED <<file, conns>>
  PROVE  LifeInv'
<1>1. life.pc \in Single /\ life.pc \in {"closeSession", "closeTransport"}
  BY DEF Single, Closing
<1>2. PICK n \in Servers : n = life.at /\ ctx[n] \in LayerRec
  BY <1>1, Stands
<1>3. CASE life.pc = "closeSession"
  <2>1. PICK d \in LayerRec : d = [ctx[n] EXCEPT !.session = "torn"]
    BY <1>2 DEF LayerRec
  <2>2. d.session = "torn" /\ d.transport = ctx[n].transport /\ d.client = ctx[n].client
    BY <1>2, <2>1 DEF LayerRec, Layers
  <2>3. /\ ctx' = [ctx EXCEPT ![life.at] = d]
        /\ life' = [life EXCEPT !.pc = "closeTransport", !.cut = TRUE, !.cancel = FALSE]
    BY <1>2, <1>3, <2>1 DEF ExitTorn, At, LifeInv, Typed
  <2>4. "closeTransport" \in LifePcs
    BY Places
  <2>5. /\ life' \in LifeRec /\ life'.pc = "closeTransport" /\ life'.at = life.at
        /\ life'.err = life.err /\ life'.cut
    BY <2>3, <2>4 DEF LifeInv, Typed, LifeRec
  <2>6. QED  BY <1>2, <1>3, <2>2, <2>3, <2>5, SessionKeeps
<1>4. CASE life.pc = "closeTransport"
  <2>1. PICK d \in LayerRec : d = [ctx[n] EXCEPT !.transport = "torn", !.client = "none"]
    BY <1>2 DEF LayerRec
  <2>2. d.session = ctx[n].session /\ d.transport = "torn"
    BY <1>2, <2>1 DEF LayerRec, Layers
  <2>3. /\ ctx' = [ctx EXCEPT ![life.at] = d]
        /\ life' = [life EXCEPT !.pc = "done", !.at = 0, !.err = TRUE, !.cancel = FALSE]
    BY <1>2, <1>4, <2>1 DEF ExitTorn, At, LifeInv, Typed
  <2>4. "done" \in LifePcs
    BY Places
  <2>5. life' \in LifeRec /\ life'.pc = "done" /\ life'.err
    BY <2>3, <2>4 DEF LifeInv, Typed, LifeRec
  <2>6. Left(Here, d)
    BY <1>2, <1>4, <2>2 DEF LifeInv, NestInv, Left
  <2>7. QED  BY <1>4, <2>3, <2>5, <2>6, EndsKeeps
<1>5. QED  BY <1>1, <1>3, <1>4

\* Every step of the lifecycle task.
LEMMA LifeKeeps ==
  ASSUME LifeInv, LifeStep \/ LifeFaults
  PROVE  LifeInv'
<1>1. ASSUME Breaks PROVE LifeInv'
  BY <1>1, HoldFails DEF Breaks, At, MainThread
<1>2. ASSUME ExitRaises PROVE LifeInv'
  BY <1>2, TornKeeps DEF ExitRaises, MainThread
<1>3. ASSUME CancelHits PROVE LifeInv'
  <2>1. UNCHANGED <<file, conns>>
    BY <1>3 DEF CancelHits, MainThread
  <2>2. CASE At("hold") /\ Fails /\ UNCHANGED ctx
    BY <2>1, <2>2, HoldFails DEF At
  <2>3. CASE life.pc \in Closing /\ ExitTorn
    BY <2>1, <2>3, TornKeeps
  <2>4. QED  BY <1>3, <2>2, <2>3 DEF CancelHits
<1>4. QED
  BY <1>1, <1>2, <1>3, EntersKeeps, InitializedKeeps, ListedKeeps, AttemptFaults, UnwindsKeeps,
     WakesKeeps, ExitsKeeps DEF LifeStep, LifeFaults

\* from_settings starts the lifecycle, which none had started before.
LEMMA FromSettingsKeeps ==
  ASSUME LifeInv, life.pc = "none", FromSettings
  PROVE  LifeInv'
<1>1. UNCHANGED <<file, ctx, conns>>
  BY DEF FromSettings
<1>2. CASE NextServer(0) /\ Behind(0) # {}
  <2>1. Enabled # {} /\ Enabled \subseteq Servers /\ Servers \subseteq Nat \ {0}
    BY <1>2, Numbers DEF LifeInv, Enabled
  <2>2. Owned = {}
    <3>1. DOMAIN <<>> = {}
      OBVIOUS
    <3>2. QED  BY <3>1 DEF LifeInv, AtInv, Owned
  <2>3. ~life.err /\ ~life.cut /\ \A i \in Servers : Untouched(ctx[i])
    BY DEF LifeInv, FreshInv, Closing
  <2>4. {j \in Enabled : j <= 0} = {}
    <3>1. ASSUME NEW j \in Enabled PROVE ~(j <= 0)
      <4>1. j \in Nat /\ j # 0
        BY <2>1
      <4>2. QED  BY <4>1
    <3>2. QED  BY <3>1
  <2>5. QED  BY <1>1, <1>2, <2>1, <2>2, <2>3, <2>4, NextKeeps
<1>3. CASE UNCHANGED life
  BY <1>1, <1>3, Rests
<1>4. QED  BY <1>2, <1>3 DEF FromSettings

LEMMA LifeInit == ASSUME Init PROVE LifeInv
<1>1. /\ file \in [valid : BOOLEAN, servers : Seq(Server)]
      /\ life = [pc |-> "none", at |-> 0, page |-> 0, cancel |-> FALSE, cut |-> FALSE, err |-> FALSE]
      /\ ctx = [i \in Servers |-> [l \in Layers |-> "none"]]
      /\ conns = <<>>
  BY FilesAssumption DEF Init, McpInit
<1>2. "none" \in LifePcs
  BY Places
<1>3. Typed
  <2>1. life \in LifeRec
    BY <1>1, <1>2 DEF LifeRec
  <2>2. ctx \in [Servers -> LayerRec]
    BY <1>1 DEF LayerRec
  <2>3. conns \in Seq(Servers)
    BY <1>1
  <2>4. QED  BY <1>1, <2>1, <2>2, <2>3 DEF Typed
<1>4. DOMAIN conns = {} /\ Owned = {}
  <2>1. DOMAIN <<>> = {}
    OBVIOUS
  <2>2. QED  BY <1>1, <2>1 DEF Owned
<1>5. OrderInv
  BY <1>4 DEF OrderInv
<1>6. life.pc = "none" /\ ~life.err /\ ~life.cut
  BY <1>1
<1>7. AtInv
  BY <1>1, <1>6 DEF AtInv, Single, Opening, Failing, Closing
<1>8. \A i \in Servers : Untouched(ctx[i])
  BY <1>1 DEF Untouched, Layers
<1>9. \A i \in Servers : Left(file.servers[i], ctx[i])
  BY <1>8 DEF Untouched, Left
<1>10. NestInv
  BY <1>6, <1>9 DEF NestInv, Single, Opening, Failing, Closing
<1>11. FreshInv
  BY <1>6, <1>8 DEF FreshInv, Single, Opening, Failing, Closing
<1>12. QED  BY <1>3, <1>5, <1>7, <1>10, <1>11 DEF LifeInv

-----------------------------------------------------------------------------
(* The thread and the manager.                                               *)

\* A step of the lifecycle is one of a task that has begun and has not ended.
LEMMA LifeMoves ==
  ASSUME LifeInv, LifeStep \/ LifeFaults
  PROVE  life.pc \notin {"none", "done"} /\ life'.pc # "none" /\ UNCHANGED MainThread
<1>1. life.pc \notin {"none", "done"}
  BY DEF LifeStep, LifeFaults, Enters, Initialized, Listed, TimesOut, Unwinds, Wakes, Exits,
         CancelHits, OpeningRaises, UnwindRaises, Breaks, ExitRaises, At, Layers, Opening, Closing
<1>2. UNCHANGED MainThread
  BY DEF LifeStep, LifeFaults, Enters, Initialized, Listed, TimesOut, Unwinds, Wakes, Exits,
         CancelHits, OpeningRaises, UnwindRaises, Breaks, ExitRaises
<1>3. life'.pc # "none"
  <2>1. Typed /\ OrderInv /\ \A p : [life EXCEPT !.pc = p].pc = p
    BY DEF LifeInv, Typed, LifeRec
  <2>2. Fails => life'.pc # "none"
    BY <2>1, FailsTo
  <2>3. AttemptFails => life'.pc # "none"
    BY <2>1, <2>2 DEF AttemptFails
  <2>4. CASE Enters
    BY <2>1, <2>4 DEF Enters, Layers, At
  <2>5. CASE Initialized
    BY <2>1, <2>5 DEF Initialized
  <2>6. CASE Listed
    <3>1. life.pc \in Single /\ life.pc = "list"
      BY <2>6 DEF Listed, At, Single
    <3>2. life.at \in Nat
      BY <3>1, Stands
    <3>3. NextServer(life.at) => life'.pc # "none"
      BY <2>1, <3>2, NextTo
    <3>4. life' = [life EXCEPT !.page = @ + 1] => life'.pc = "list"
      BY <3>1 DEF LifeInv, Typed, LifeRec
    <3>5. QED  BY <2>2, <2>6, <3>3, <3>4 DEF Listed
  <2>7. CASE TimesOut \/ OpeningRaises
    BY <2>3, <2>7 DEF TimesOut, OpeningRaises
  <2>8. CASE Unwinds
    BY <2>1, <2>2, <2>8 DEF Unwinds
  <2>9. CASE UnwindRaises \/ Breaks
    BY <2>2, <2>9 DEF UnwindRaises, Breaks
  <2>10. CASE Wakes
    BY <2>10 DEF Wakes, LifeInv, Typed, LifeRec
  <2>11. ExitTorn => life'.pc # "none"
    BY DEF ExitTorn, LifeInv, Typed, LifeRec
  <2>12. CASE ExitRaises
    BY <2>11, <2>12 DEF ExitRaises
  <2>13. CASE CancelHits
    BY <2>2, <2>11, <2>13 DEF CancelHits
  <2>14. CASE Exits
    <3>1. life.pc = "closeSession" \/ life.pc = "closeTransport"
      BY <2>14 DEF Exits, Closing
    <3>2. CASE life.pc = "closeSession"
      BY <2>1, <2>14, <3>2 DEF Exits, At
    <3>3. CASE life.pc = "closeTransport"
      <4>1. life.at \in Owned /\ ClosesNext
        BY <2>14, <3>3 DEF Exits, At, LifeInv, AtInv, Closing
      <4>2. QED  BY <2>1, <4>1, ClosesTo
    <3>4. QED  BY <3>1, <3>2, <3>3
  <2>15. QED
    BY <2>4, <2>5, <2>6, <2>7, <2>8, <2>9, <2>10, <2>12, <2>13, <2>14 DEF LifeStep, LifeFaults
<1>4. QED  BY <1>1, <1>2, <1>3

\* Whatever else happens leaves the connections and their contexts alone.
Aside ==
  /\ UNCHANGED <<file, ctx, conns>>
  /\ \E b \in BOOLEAN : life' = life \/ life' = [life EXCEPT !.cancel = b]

\* What the invariant of the thread asks of such a step.
LEMMA AsideThread ==
  ASSUME LifeInv, ThreadInv, Aside
  PROVE  LifeInv' /\ life'.pc = life.pc /\ life'.err = life.err
<1>1. PICK b \in BOOLEAN : life' = life \/ life' = [life EXCEPT !.cancel = b]
  BY DEF Aside
<1>2. LifeInv'
  BY <1>1, Rests DEF Aside
<1>3. QED  BY <1>1, <1>2 DEF LifeInv, Typed, LifeRec

\* The steps of the main thread in the manager, one by one.
LEMMA MainAside ==
  ASSUME StartReturns \/ StartRaises \/ StopsLoop \/ ThreadEnds \/ Joined \/ Signals
           \/ LifecycleEnds \/ Aclose \/ AcloseCut
  PROVE  Aside
BY DEF Aside, StartReturns, StartRaises, StopsLoop, ThreadEnds, Joined, Signals, LifecycleEnds,
       Aclose, AcloseCut, LoopThread, RequestCancel

LEMMA FromSettingsThread ==
  ASSUME LifeInv, ThreadInv, FromSettings
  PROVE  LifeInv' /\ ThreadInv'
<1>1. mgr = "new" /\ thread = "none" /\ life.pc = "none"
  BY DEF FromSettings, ThreadInv
<1>2. LifeInv'
  BY <1>1, FromSettingsKeeps
<1>3. UNCHANGED call
  BY DEF FromSettings
<1>4. CASE mgr' = "waiting" /\ thread' = "runs" /\ NextServer(0)
  <2>1. life'.pc # "none"
    BY <1>4, NextTo DEF LifeInv
  <2>2. QED  BY <1>2, <1>3, <1>4, <2>1 DEF ThreadInv
<1>5. CASE mgr' \in {"idle", "refused"} /\ UNCHANGED <<thread, life>>
  BY <1>1, <1>2, <1>3, <1>5 DEF ThreadInv
<1>6. QED  BY <1>4, <1>5 DEF FromSettings

\* A stop leaves no call under way.
LEMMA StopEndsCalls ==
  ASSUME ThreadInv, StopsLoop
  PROVE  call' \in [Calls -> CallRec] /\ \A c \in Calls : call'[c].state # "sent"
<1>1. call' = [c \in Calls |-> IF call[c].state = "sent"
                               THEN [call[c] EXCEPT !.state = "cancelled"] ELSE call[c]]
  BY DEF StopsLoop
<1>2. ASSUME NEW c \in Calls
      PROVE  call'[c] \in CallRec /\ call'[c].state # "sent"
  <2>1. call[c] \in CallRec
    BY DEF ThreadInv
  <2>2. [call[c] EXCEPT !.state = "cancelled"] \in CallRec
    BY <2>1 DEF CallRec
  <2>3. [call[c] EXCEPT !.state = "cancelled"].state = "cancelled"
    BY <2>1 DEF CallRec
  <2>4. QED  BY <1>1, <2>1, <2>2, <2>3
<1>3. QED  BY <1>1, <1>2

LEMMA MainThreads ==
  ASSUME LifeInv, ThreadInv, MainStep \/ Aclose \/ AcloseCut
  PROVE  LifeInv' /\ ThreadInv'
<1>1. CASE FromSettings
  BY <1>1, FromSettingsThread
<1>2. ASSUME ~FromSettings PROVE LifeInv' /\ life'.pc = life.pc /\ life'.err = life.err
  BY <1>2, MainAside, AsideThread DEF MainStep
<1>3. CASE ~FromSettings /\ (StartReturns \/ StartRaises \/ Signals \/ LifecycleEnds \/ AcloseCut)
  BY <1>2, <1>3 DEF StartReturns, StartRaises, Signals, LifecycleEnds, AcloseCut, ThreadInv, At
<1>4. CASE ~FromSettings /\ StopsLoop
  <2>1. mgr \in {"abandoning", "stopping", "stopRaised"} /\ thread' = "draining"
    BY <1>4 DEF StopsLoop
  <2>2. life.pc # "none"
    BY <2>1 DEF ThreadInv
  <2>3. mgr' \in {"joinFailed", "joining", "joinRaised"} /\ (mgr' = "joining" => mgr = "stopping")
    BY <1>4 DEF StopsLoop
  <2>4. QED  BY <1>2, <1>4, <2>1, <2>2, <2>3, StopEndsCalls DEF ThreadInv
<1>5. CASE ~FromSettings /\ ThreadEnds
  BY <1>2, <1>5 DEF ThreadEnds, ThreadInv, At
<1>6. CASE ~FromSettings /\ Joined
  <2>1. thread = "closed" /\ UNCHANGED <<thread, call>>
    BY <1>6 DEF Joined
  <2>2. mgr' \in {"failed", "closed", "closeRaised"} /\ (mgr' = "closed" => mgr = "joining")
    BY <1>6 DEF Joined
  <2>3. QED  BY <1>2, <1>6, <2>1, <2>2 DEF ThreadInv
<1>7. CASE ~FromSettings /\ Aclose
  BY <1>2, <1>7 DEF Aclose, ThreadInv, At
<1>8. QED  BY <1>1, <1>3, <1>4, <1>5, <1>6, <1>7 DEF MainStep

\* One call is sent, ends or is dropped: sent it is only while the loop runs.
LEMMA CallThread ==
  ASSUME LifeInv, ThreadInv, UNCHANGED <<file, ctx, conns, life, mgr, thread>>,
         NEW c \in Calls, NEW r \in CallRec, call' = [call EXCEPT ![c] = r],
         r.state = "sent" => thread = "runs"
  PROVE  LifeInv' /\ ThreadInv'
<1>1. LifeInv'
  BY Rests
<1>2. /\ call' \in [Calls -> CallRec] /\ call'[c] = r
      /\ \A k \in Calls : k # c => call'[k] = call[k]
  BY DEF ThreadInv
<1>3. thread # "runs" => \A k \in Calls : call'[k].state # "sent"
  BY <1>2 DEF ThreadInv
<1>4. QED  BY <1>1, <1>2, <1>3 DEF ThreadInv

LEMMA CallsThread ==
  ASSUME LifeInv, ThreadInv, NEW c \in Calls, CallTool(c) \/ CallEnds(c) \/ CallDropped(c)
  PROVE  LifeInv' /\ ThreadInv'
<1>1. UNCHANGED <<file, ctx, conns, life, mgr, thread>>
  BY DEF CallTool, CallEnds, CallDropped, LoopThread
<1>2. call[c] \in CallRec /\ call \in [Calls -> CallRec]
  BY DEF ThreadInv
<1>3. CASE CallTool(c)
  <2>1. PICK i \in Behind(0) :
          call' = [call EXCEPT ![c] =
            [server |-> i, state |-> IF thread = "runs" THEN "sent" ELSE "error"]]
    BY <1>3 DEF CallTool
  <2>2. i \in Nat
    BY Numbers DEF LifeInv, Enabled
  <2>3. PICK s \in {"sent", "error"} : s = IF thread = "runs" THEN "sent" ELSE "error"
    OBVIOUS
  <2>4. PICK r \in CallRec : r = [server |-> i, state |-> s]
    BY <2>2 DEF CallRec
  <2>5. call' = [call EXCEPT ![c] = r] /\ r.state = s
    BY <2>1, <2>3, <2>4
  <2>6. QED  BY <1>1, <2>3, <2>5, CallThread
<1>4. CASE CallEnds(c) \/ CallDropped(c)
  <2>1. PICK s \in {"result", "error", "cancelled"} : call' = [call EXCEPT ![c].state = s]
    BY <1>4 DEF CallEnds, CallDropped
  <2>2. PICK r \in CallRec : r = [call[c] EXCEPT !.state = s]
    BY <1>2 DEF CallRec
  <2>3. call' = [call EXCEPT ![c] = r] /\ r.state = s
    BY <1>2, <2>1, <2>2 DEF CallRec
  <2>4. QED  BY <1>1, <2>3, CallThread
<1>5. QED  BY <1>3, <1>4

\* The lifecycle itself moves only while its thread runs.
LEMMA LifeThread ==
  ASSUME LifeInv, ThreadInv, LifeStep \/ LifeFaults
  PROVE  LifeInv' /\ ThreadInv'
<1>1. life.pc \notin {"none", "done"} /\ life'.pc # "none" /\ UNCHANGED <<mgr, call, thread>>
  BY LifeMoves DEF MainThread
<1>2. thread # "none" /\ thread # "closed" /\ mgr \notin {"stopping", "joining", "closed"}
  BY <1>1 DEF ThreadInv
<1>3. QED  BY <1>1, <1>2, LifeKeeps DEF ThreadInv

\* The manager, its thread and its calls stand still.
McpStill == UNCHANGED <<file, ctx, conns, life, mgr, thread, call>>

LEMMA StillThread ==
  ASSUME LifeInv, ThreadInv, McpStill
  PROVE  LifeInv' /\ ThreadInv'
<1>1. LifeInv'
  BY Rests DEF McpStill
<1>2. QED  BY <1>1 DEF McpStill, ThreadInv

-----------------------------------------------------------------------------
(* The bus and the container.                                                *)

\* A manager that is closed stays closed.
LEMMA ClosedStays ==
  ASSUME MainStep \/ AcloseCut, mgr = "closed"
  PROVE  mgr' = "closed"
BY DEF MainStep, FromSettings, StartReturns, StartRaises, StopsLoop, ThreadEnds, Joined, Signals,
       LifecycleEnds, AcloseCut

\* Nothing of the container but the manager has changed.
LEMMA BusStill ==
  ASSUME AppInv, UNCHANGED <<busVars, app, pools>>, mgr = "closed" => mgr' = "closed"
  PROVE  AppInv'
BY DEF AppInv, busVars, Alive

LEMMA GotoTypes ==
  ASSUME listener \in ListenerRec,
         NEW p \in {"subscribing", "listening", "leaving", "done"}, Goto(p)
  PROVE  listener' \in ListenerRec
BY DEF Goto, ListenerRec

LEMMA PubsubTypes ==
  ASSUME NEW p \in BusRec, NEW b \in BOOLEAN
  PROVE  /\ [p EXCEPT !.conn = b] \in BusRec
         /\ [p EXCEPT !.subscribed = b] \in BusRec
         /\ [p EXCEPT !.conn = b, !.subscribed = b] \in BusRec
BY DEF BusRec

\* While the listener is alive the bus has not been closed.
LEMMA AliveSteps ==
  ASSUME AppInv, Alive, UNCHANGED <<mgr, app, pools, closer>>,
         listener' \in ListenerRec, pubsub' \in BusRec
  PROVE  AppInv'
<1>1. closer \notin {"closed", "raised"}
  BY DEF AppInv
<1>2. app \notin {"closeMcp", "closePubsub", "closeRedis", "closed"} /\ pools = Clients
  BY <1>1 DEF AppInv
<1>3. UNCHANGED Clients
  BY DEF Clients
<1>4. QED  BY <1>1, <1>2, <1>3 DEF AppInv, ListenerRec, BusRec

LEMMA ListenerKeeps ==
  ASSUME AppInv, UNCHANGED <<mgr, app, pools>>,
         \/ ListenerStep \/ PoolRunsDry \/ SubscribeRaises \/ Reconnects
         \/ ListenRaises \/ LeaveRaises
  PROVE  AppInv'
<1>1. listener \in ListenerRec /\ pubsub \in BusRec
  BY DEF AppInv, ListenerRec, BusRec
<1>2. Alive /\ UNCHANGED closer
  BY DEF ListenerStep, PoolRunsDry, Subscribes, Subscribed, SubscribeRaises, Delivers, Reconnects,
         ListenRaises, Leaves, LeaveRaises, ListenerCancelled, ListenerAt, Alive, others
<1>3. CASE Subscribes
  <2>1. pubsub' = [held |-> TRUE, conn |-> InUse < PoolSize, subscribed |-> FALSE] /\ Goto("subscribing")
    BY <1>3 DEF Subscribes
  <2>2. pubsub' \in BusRec
    BY <2>1 DEF BusRec
  <2>3. QED  BY <1>1, <1>2, <2>1, <2>2, GotoTypes, AliveSteps
<1>4. CASE Subscribed
  <2>1. Goto("listening") /\ pubsub' = [pubsub EXCEPT !.conn = TRUE, !.subscribed = TRUE]
    BY <1>4 DEF Subscribed
  <2>2. QED  BY <1>1, <1>2, <2>1, GotoTypes, PubsubTypes, AliveSteps
<1>5. CASE SubscribeRaises
  <2>1. PICK b \in BOOLEAN : pubsub' = [pubsub EXCEPT !.conn = b]
    BY <1>1, <1>5 DEF SubscribeRaises, BusRec
  <2>2. Goto("done")
    BY <1>5 DEF SubscribeRaises
  <2>3. QED  BY <1>1, <1>2, <2>1, <2>2, GotoTypes, PubsubTypes, AliveSteps
<1>6. CASE Delivers \/ Reconnects
  <2>1. UNCHANGED <<listener, pubsub>>
    BY <1>6 DEF Delivers, Reconnects
  <2>2. QED  BY <1>1, <1>2, <2>1, AliveSteps
<1>7. CASE ListenRaises
  <2>1. Goto("leaving") /\ pubsub' = [pubsub EXCEPT !.subscribed = FALSE]
    BY <1>7 DEF ListenRaises
  <2>2. QED  BY <1>1, <1>2, <2>1, GotoTypes, PubsubTypes, AliveSteps
<1>8. CASE Leaves \/ LeaveRaises
  <2>1. Goto("done") /\ \E h \in BOOLEAN : pubsub' = [held |-> h, conn |-> FALSE, subscribed |-> FALSE]
    BY <1>8 DEF Leaves, LeaveRaises, LeaveCut
  <2>2. pubsub' \in BusRec
    BY <2>1 DEF BusRec
  <2>3. QED  BY <1>1, <1>2, <2>1, <2>2, GotoTypes, AliveSteps
<1>9. CASE ListenerCancelled
  <2>1. CASE ListenerAt("leaving") /\ LeaveCut
    <3>1. Goto("done") /\ pubsub' = [held |-> TRUE, conn |-> FALSE, subscribed |-> FALSE]
      BY <2>1 DEF LeaveCut
    <3>2. pubsub' \in BusRec
      BY <3>1 DEF BusRec
    <3>3. QED  BY <1>1, <1>2, <3>1, <3>2, GotoTypes, AliveSteps
  <2>2. CASE listener' = [pc |-> "leaving", cancel |-> FALSE] /\ UNCHANGED pubsub
    <3>1. listener' \in ListenerRec
      BY <2>2 DEF ListenerRec
    <3>2. QED  BY <1>1, <1>2, <2>2, <3>1, AliveSteps
  <2>3. CASE Goto("done") /\ \E sub \in {FALSE, ListenerAt("subscribing") /\ pubsub.conn} :
               pubsub' = [pubsub EXCEPT !.subscribed = sub]
    <3>1. PICK b \in BOOLEAN : pubsub' = [pubsub EXCEPT !.subscribed = b]
      BY <1>1, <2>3 DEF BusRec
    <3>2. QED  BY <1>1, <1>2, <2>3, <3>1, GotoTypes, PubsubTypes, AliveSteps
  <2>4. QED  BY <1>9, <2>1, <2>2, <2>3 DEF ListenerCancelled
<1>10. QED
  BY <1>3, <1>4, <1>5, <1>6, <1>7, <1>8, <1>9 DEF ListenerStep, PoolRunsDry

\* A listener is made only while nobody closes the service.
LEMMA StartKeeps ==
  ASSUME AppInv, StartListener, UNCHANGED <<pubsub, leaked, channel, closer>>
  PROVE  /\ listener' \in ListenerRec
         /\ closer' \in {"closed", "raised"} => ~Alive'
<1>1. [pc |-> "created", cancel |-> FALSE] \in ListenerRec
  BY DEF ListenerRec
<1>2. QED  BY <1>1 DEF StartListener, AppInv, ListenerRec, Alive

LEMMA RunsKeep ==
  ASSUME AppInv, UNCHANGED <<mgr, app, pools>>,
         \/ \E r \in Runs : RunArrives(r) \/ RunEnters(r) \/ RunMoves(r)
         \/ \E q \in Requests : \/ ReadsRecord(q) \/ Cancels(q) \/ Connects(q) \/ Publishes(q)
                                \/ PublishRaises(q)
  PROVE  AppInv'
<1>1. UNCHANGED <<pubsub, leaked, closer, Clients>>
  BY DEF RunArrives, RunEnters, RunMoves, ReadsRecord, Cancels, Connects, Publishes,
         PublishRaises, Clients
<1>2. CASE \E r \in Runs : RunArrives(r)
  <2>1. StartListener /\ UNCHANGED channel
    BY <1>2 DEF RunArrives
  <2>2. QED  BY <1>1, <2>1, StartKeeps DEF AppInv, ListenerRec
<1>3. CASE \E q \in Requests : Publishes(q)
  <2>1. UNCHANGED listener /\ (~pubsub.subscribed => channel' = channel)
    BY <1>3 DEF Publishes
  <2>2. QED  BY <1>1, <2>1 DEF AppInv, Alive
<1>4. CASE UNCHANGED <<listener, channel>>
  BY <1>1, <1>4 DEF AppInv, Alive
<1>5. QED
  BY <1>2, <1>3, <1>4 DEF RunEnters, RunMoves, ReadsRecord, Cancels, Connects, PublishRaises

LEMMA ClosesBusKeeps ==
  ASSUME AppInv, UNCHANGED <<mgr, app, pools>>, ClosesBus \/ CloseBusRaises
  PROVE  AppInv'
<1>1. closer = "awaiting" /\ ~Alive /\ UNCHANGED <<listener, leaked, Clients>> /\ channel' = <<>>
  BY DEF ClosesBus, CloseBusRaises, Clients
<1>2. app \notin {"closeMcp", "closePubsub", "closeRedis", "closed"} /\ pools = Clients
  BY <1>1 DEF AppInv
<1>3. ~Alive'
  BY <1>1 DEF Alive
<1>4. CASE ClosesBus
  BY <1>1, <1>2, <1>3, <1>4 DEF AppInv, ClosesBus, BusRec
<1>5. CASE CloseBusRaises
  <2>1. pubsub' = [pubsub EXCEPT !.conn = FALSE, !.subscribed = FALSE] /\ closer' = "raised"
    BY <1>5 DEF CloseBusRaises
  <2>2. pubsub' \in BusRec
    BY <2>1, PubsubTypes DEF AppInv, BusRec
  <2>3. QED  BY <1>1, <1>2, <1>3, <2>1, <2>2 DEF AppInv, BusRec
<1>6. QED  BY <1>4, <1>5

\* The life of the process, from create to the last client.
LEMMA AppKeeps ==
  ASSUME LifeInv, ThreadInv, AppInv,
         \/ Creates \/ CreateRaises \/ StartsListener \/ WarmsUp \/ WarmUpRaises
         \/ ClosesChat \/ ClosesMcp \/ McpClosed \/ PubsubClosed \/ RedisClosed \/ PoolRaises
  PROVE  LifeInv' /\ ThreadInv' /\ AppInv'
<1>0. UNCHANGED Clients
  BY DEF Clients
<1>1. CASE Creates \/ CreateRaises \/ WarmsUp \/ WarmUpRaises
  <2>1. McpStill /\ UNCHANGED <<busVars, pools>>
    BY <1>1 DEF Creates, CreateRaises, WarmsUp, WarmUpRaises, McpStill, mcpVars, MainThread
  <2>2. app' \in {"dead", "startup", "serving"} /\ app \in {"create", "warmup"}
    BY <1>1 DEF Creates, CreateRaises, WarmsUp, WarmUpRaises
  <2>3. AppInv'
    BY <1>0, <2>1, <2>2 DEF AppInv, busVars, Alive, McpStill
  <2>4. QED  BY <2>1, <2>3, StillThread
<1>2. CASE StartsListener
  <2>1. McpStill /\ UNCHANGED <<pubsub, leaked, channel, closer, pools>> /\ StartListener
    BY <1>2 DEF StartsListener, McpStill, mcpVars, others
  <2>2. app' = "warmup" /\ app = "startup"
    BY <1>2 DEF StartsListener
  <2>3. AppInv'
    BY <1>0, <2>1, <2>2, StartKeeps DEF AppInv, ListenerRec, McpStill
  <2>4. QED  BY <2>1, <2>3, StillThread
<1>3. CASE ClosesChat
  <2>1. McpStill /\ UNCHANGED <<pubsub, leaked, channel, pools>> /\ closer' = "awaiting"
    BY <1>3 DEF ClosesChat, CloseListener, McpStill, mcpVars
  <2>2. app' = "closeChat" /\ app = "serving" /\ listener' = [listener EXCEPT !.cancel = Alive]
    BY <1>3 DEF ClosesChat, CloseListener
  <2>3. Alive \in BOOLEAN
    BY DEF Alive
  <2>4. listener' \in ListenerRec
    BY <2>2, <2>3 DEF AppInv, ListenerRec
  <2>5. AppInv'
    BY <1>0, <2>1, <2>2, <2>4 DEF AppInv, ListenerRec, McpStill
  <2>6. QED  BY <2>1, <2>5, StillThread
<1>4. CASE ClosesMcp
  <2>1. app = "closeChat" /\ UNCHANGED <<busVars, pools>> /\ pools = Clients
    BY <1>4 DEF ClosesMcp, AppInv
  <2>2. CASE closer = "raised" /\ app' = "closeRaised" /\ UNCHANGED mcpVars
    <3>1. McpStill
      BY <2>2 DEF mcpVars, McpStill
    <3>2. AppInv'
      BY <1>0, <2>1, <2>2 DEF AppInv, busVars, Alive
    <3>3. QED  BY <3>1, <3>2, StillThread
  <2>3. CASE closer = "closed" /\ app' = "closeMcp" /\ Aclose
    <3>1. LifeInv' /\ ThreadInv'
      BY <2>3, MainThreads
    <3>2. AppInv'
      BY <1>0, <2>1, <2>3 DEF AppInv, busVars, Alive
    <3>3. QED  BY <3>1, <3>2
  <2>4. QED  BY <1>4, <2>2, <2>3 DEF ClosesMcp
<1>5. CASE McpClosed
  <2>1. McpStill /\ UNCHANGED <<busVars, pools>> /\ app = "closeMcp" /\ pools = Clients
    BY <1>5 DEF McpClosed, McpStill, mcpVars, AppInv
  <2>2. app' = IF mgr = "closed" THEN "closePubsub" ELSE "closeRaised"
    BY <1>5 DEF McpClosed
  <2>3. AppInv'
    BY <1>0, <2>1, <2>2 DEF AppInv, busVars, Alive, McpStill
  <2>4. QED  BY <2>1, <2>3, StillThread
<1>6. CASE PubsubClosed
  <2>1. McpStill /\ UNCHANGED <<listener, pubsub, channel, closer>> /\ app = "closePubsub"
    BY <1>6 DEF PubsubClosed, McpStill, mcpVars, others
  <2>2. app' = "closeRedis" /\ leaked' = 0 /\ pools' = {"main"}
    BY <1>6, <2>1 DEF PubsubClosed, AppInv, Clients
  <2>3. AppInv'
    BY <1>0, <2>1, <2>2 DEF AppInv, Alive, McpStill
  <2>4. QED  BY <2>1, <2>3, StillThread
<1>7. CASE RedisClosed
  <2>1. McpStill /\ UNCHANGED busVars /\ app = "closeRedis"
    BY <1>7 DEF RedisClosed, McpStill, mcpVars
  <2>2. app' = "closed" /\ pools' = {}
    BY <1>7, <2>1 DEF RedisClosed, AppInv
  <2>3. AppInv'
    BY <1>0, <2>1, <2>2 DEF AppInv, busVars, Alive, McpStill
  <2>4. QED  BY <2>1, <2>3, StillThread
<1>8. CASE PoolRaises
  <2>1. McpStill /\ UNCHANGED <<busVars, pools>> /\ app' = "closeRaised"
    BY <1>8 DEF PoolRaises, McpStill, MainThread
  <2>2. AppInv'
    BY <1>0, <2>1 DEF AppInv, busVars, Alive, McpStill
  <2>3. QED  BY <2>1, <2>2, StillThread
<1>9. QED
  BY <1>1, <1>2, <1>3, <1>4, <1>5, <1>6, <1>7, <1>8

-----------------------------------------------------------------------------
(* Every step, and what the invariant says.                                  *)

LEMMA InitInv == ASSUME Init PROVE IInv
<1>1. LifeInv
  BY LifeInit
<1>2. /\ mgr = "new" /\ thread = "none" /\ life.pc = "none"
      /\ call = [c \in Calls |-> [state |-> "none", server |-> 0]]
  BY DEF Init, McpInit
<1>3. ThreadInv
  BY <1>2 DEF ThreadInv, CallRec
<1>4. AppInv
  BY DEF Init, BusInit, AppInv, Alive, ListenerRec, BusRec
<1>5. QED  BY <1>1, <1>3, <1>4 DEF IInv

\* Nothing of the process but the bus moves.
LEMMA BusSide ==
  ASSUME IInv, McpStill, AppInv'
  PROVE  IInv'
BY StillThread DEF IInv

\* Nothing of the process but the manager moves.
LEMMA McpSide ==
  ASSUME IInv, LifeInv', ThreadInv', UNCHANGED <<busVars, app, pools>>,
         mgr = "closed" => mgr' = "closed"
  PROVE  IInv'
BY BusStill DEF IInv

LEMMA NextInv == ASSUME IInv, [Next]_vars PROVE IInv'
<1>1. LifeInv /\ ThreadInv /\ AppInv
  BY DEF IInv
<1>2. CASE Lifetime \/ LifetimeFaults \/ ClosesChat
  BY <1>1, <1>2, AppKeeps DEF Lifetime, LifetimeFaults, IInv
<1>3. CASE Manager
  BY <1>1, <1>3, MainThreads, ClosedStays, McpSide DEF Manager
<1>4. CASE Lifecycle
  <2>1. UNCHANGED mgr
    BY <1>1, <1>4, LifeMoves DEF Lifecycle, MainThread
  <2>2. QED  BY <1>1, <1>4, <2>1, LifeThread, McpSide DEF Lifecycle
<1>5. CASE ShutdownCut
  BY <1>1, <1>5, MainThreads, ClosedStays, McpSide DEF ShutdownCut
<1>6. CASE \E c \in Calls : ToolCall(c) \/ ToolCallEnds(c)
  <2>1. PICK c \in Calls : ToolCall(c) \/ ToolCallEnds(c)
    BY <1>6
  <2>2. CallTool(c) \/ CallEnds(c) \/ CallDropped(c)
    BY <2>1 DEF ToolCall, ToolCallEnds
  <2>3. UNCHANGED mgr
    BY <2>2 DEF CallTool, CallEnds, CallDropped
  <2>4. UNCHANGED <<busVars, app, pools>>
    BY <2>1 DEF ToolCall, ToolCallEnds
  <2>5. QED  BY <1>1, <2>2, <2>3, <2>4, CallsThread, McpSide
<1>7. CASE Listener \/ BusCloses
  <2>1. McpStill /\ UNCHANGED <<mgr, app, pools>>
    BY <1>7 DEF Listener, BusCloses, McpStill, mcpVars
  <2>2. AppInv'
    BY <1>1, <1>7, <2>1, ListenerKeeps, ClosesBusKeeps DEF Listener, BusCloses
  <2>3. QED  BY <2>1, <2>2, BusSide
<1>8. CASE BusFaults
  <2>1. McpStill /\ UNCHANGED <<mgr, app, pools>>
    BY <1>8 DEF BusFaults, McpStill, MainThread
  <2>2. AppInv'
    BY <1>1, <1>8, <2>1, ListenerKeeps, ClosesBusKeeps, RunsKeep DEF BusFaults
  <2>3. QED  BY <2>1, <2>2, BusSide
<1>9. CASE \/ \E r \in Runs : RunStep(r)
           \/ \E q \in Requests : CancelStep(q) \/ PublishStep(q)
  <2>1. McpStill /\ UNCHANGED <<mgr, app, pools>>
    BY <1>9 DEF RunStep, CancelStep, PublishStep, McpStill, mcpVars
  <2>2. AppInv'
    BY <1>1, <1>9, <2>1, RunsKeep DEF RunStep, CancelStep, PublishStep
  <2>3. QED  BY <2>1, <2>2, BusSide
<1>10. CASE UNCHANGED vars
  <2>1. McpStill /\ UNCHANGED <<busVars, mgr, app, pools>>
    BY <1>10 DEF vars, McpStill, mcpVars
  <2>2. AppInv'
    BY <1>1, <2>1, BusStill
  <2>3. QED  BY <2>1, <2>2, BusSide
<1>11. QED
  BY <1>2, <1>3, <1>4, <1>5, <1>6, <1>7, <1>8, <1>9, <1>10 DEF Next

LEMMA Invariance == Spec => []IInv
<1>1. Init => IInv
  BY InitInv
<1>2. IInv /\ [Next]_vars => IInv'
  BY NextInv
<1>3. QED  BY <1>1, <1>2, PTL DEF Spec

\* Each connection has its contexts nested, and an open session only behind open
\* ones.
LEMMA InvNests == ASSUME IInv PROVE ContextsNest
<1>1. Servers \subseteq Nat /\ Enabled \subseteq Servers
  BY Numbers DEF IInv, LifeInv
<1>2. life.pc \in Single \union {"none", "hold", "done"}
  BY DEF IInv, LifeInv, Typed, LifeRec, LifePcs
<1>3. ASSUME NEW i \in Servers, ctx[i].session = "open", NEW j \in Servers,
             j < i, file.servers[j].enabled
      PROVE  ctx[j].session = "open"
  <2>1. i \in Enabled
    BY <1>3 DEF IInv, LifeInv, NestInv, Left
  <2>2. j \in Enabled /\ i \in Nat /\ j \in Nat
    <3>1. j \in Nat \ {0}
      BY Numbers DEF IInv, LifeInv
    <3>2. j > 0
      BY <3>1
    <3>3. QED  BY <1>1, <1>3, <3>2 DEF Enabled, Behind
  <2>3. ASSUME NEW n \in Nat, Around(Enabled, file.servers, ctx, n), i <= n
        PROVE  ctx[j].session = "open"
    <3>1. j < n
      BY <1>3, <2>2, <2>3
    <3>2. QED  BY <2>2, <2>3, <3>1 DEF Around, Whole
  <2>4. ASSUME NEW n \in Nat, Around(Enabled, file.servers, ctx, n)
        PROVE  i <= n
    <3>1. ~(i > n)
      BY <1>3, <2>1, <2>4 DEF Around, Left
    <3>2. QED  BY <2>2, <3>1
  <2>5. CASE life.pc \in Single
    <3>1. life.at \in Nat /\ Around(Enabled, file.servers, ctx, life.at)
      BY <2>5, Stands DEF IInv
    <3>2. QED  BY <2>3, <2>4, <3>1
  <2>6. CASE life.pc = "none"
    BY <1>3, <2>6 DEF IInv, LifeInv, NestInv, Left
  <2>7. CASE life.pc = "hold"
    BY <2>2, <2>7 DEF IInv, LifeInv, NestInv, Whole
  <2>8. CASE life.pc = "done"
    <3>1. PICK n \in Nat : Around(Enabled, file.servers, ctx, n)
      BY <2>8 DEF IInv, LifeInv, NestInv
    <3>2. QED  BY <2>3, <2>4, <3>1
  <2>9. QED  BY <1>2, <2>5, <2>6, <2>7, <2>8
<1>4. ASSUME NEW i \in Servers
      PROVE  \/ Whole(file.servers[i], ctx[i]) \/ Left(file.servers[i], ctx[i])
             \/ Based(file.servers[i], ctx[i])
  <2>1. CASE i \notin Enabled \/ life.pc = "none"
    BY <2>1 DEF IInv, LifeInv, NestInv
  <2>2. CASE i \in Enabled /\ life.pc = "hold"
    BY <2>2 DEF IInv, LifeInv, NestInv
  <2>3. ASSUME NEW n \in Nat, Around(Enabled, file.servers, ctx, n), i \in Enabled, i # n
        PROVE  Whole(file.servers[i], ctx[i]) \/ Left(file.servers[i], ctx[i])
    <3>1. i < n \/ i > n
      BY <1>1, <2>3
    <3>2. QED  BY <2>3, <3>1 DEF Around
  <2>4. CASE i \in Enabled /\ life.pc = "done"
    <3>1. PICK n \in Nat : /\ Around(Enabled, file.servers, ctx, n)
                           /\ n \in Enabled => Left(file.servers[n], ctx[n])
      BY <2>4 DEF IInv, LifeInv, NestInv
    <3>2. QED  BY <2>3, <2>4, <3>1
  <2>5. CASE i \in Enabled /\ life.pc \in Single
    <3>1. life.at \in Nat /\ Around(Enabled, file.servers, ctx, life.at)
      BY <2>5, Stands DEF IInv
    <3>2. CASE i # life.at
      BY <2>3, <2>5, <3>1, <3>2
    <3>3. CASE i = life.at
      <4>1. CASE life.pc = "client"
        BY <3>3, <4>1 DEF IInv, LifeInv, FreshInv, Untouched, Left
      <4>2. CASE life.pc = "transport"
        BY <3>3, <4>2 DEF IInv, LifeInv, FreshInv, Left
      <4>3. CASE life.pc \in {"session", "unwindSession", "unwindTransport", "closeTransport"}
        BY <3>3, <4>3 DEF IInv, LifeInv, NestInv, Here
      <4>4. CASE life.pc \in {"initialize", "list", "closeSession"}
        BY <3>3, <4>4 DEF IInv, LifeInv, NestInv, Here
      <4>5. QED  BY <2>5, <4>1, <4>2, <4>3, <4>4 DEF Single, Opening, Failing, Closing
    <3>4. QED  BY <3>2, <3>3
  <2>6. QED  BY <1>2, <2>1, <2>2, <2>4, <2>5
<1>5. \A i \in Servers :
        /\ ctx[i].session = "open" => ctx[i].transport = "open"
        /\ ctx[i].transport = "open" /\ file.servers[i].http => ctx[i].client = "open"
  BY <1>4 DEF Whole, Left, Based
<1>6. QED  BY <1>3, <1>5 DEF ContextsNest

\* Behind a close without an exception nothing of the manager is left.
LEMMA ClosedIsEmpty ==
  ASSUME IInv, mgr = "closed"
  PROVE  /\ \A i \in Servers, l \in Layers : ctx[i][l] = "none"
         /\ conns = <<>> /\ thread \in {"none", "closed"}
<1>1. \/ thread = "none" /\ life.pc = "none"
      \/ thread = "closed" /\ life.pc = "done" /\ ~life.err
  BY DEF IInv, ThreadInv
<1>2. conns = <<>> /\ \A i \in Servers : Untouched(ctx[i])
  BY <1>1 DEF IInv, LifeInv, AtInv, FreshInv
<1>3. QED  BY <1>1, <1>2 DEF Untouched, Layers

LEMMA InvReleases == ASSUME IInv PROVE CloseReleasesAll
<1>1. ListenerStaysClosed
  BY DEF IInv, AppInv, ListenerStaysClosed
<1>2. pools # Clients => closer = "closed" /\ mgr = "closed"
  BY DEF IInv, AppInv
<1>3. "pubsub" \notin pools => ~Alive /\ ~pubsub.held
  <2>1. "pubsub" \notin pools => pools # Clients
    BY DEF Clients
  <2>2. QED  BY <1>2, <2>1 DEF IInv, AppInv
<1>4. pools # Clients => /\ \A i \in Servers, l \in Layers : ctx[i][l] = "none"
                         /\ conns = <<>> /\ thread \in {"none", "closed"}
  BY <1>2, ClosedIsEmpty
<1>5. app = "closed" => pools = {} /\ leaked = 0
  BY DEF IInv, AppInv
<1>6. QED  BY <1>1, <1>3, <1>4, <1>5 DEF CloseReleasesAll

\* The lifecycle task is at one of its places, the connections of the manager are
\* servers of its file, and no context is in a state but none, open or torn.
THEOREM LifecycleTyped == Spec => []Typed
<1>1. IInv => Typed
  BY DEF IInv, LifeInv
<1>2. QED  BY <1>1, Invariance, PTL

\* However opening fails and closing is cut, contexts are left in the reverse of
\* the order they were entered in (_run_lifecycle, _open_stdio_connection,
\* _open_http_connection, _async_close).
THEOREM NestingHolds == Spec => []ContextsNest
<1>1. IInv => ContextsNest
  BY InvNests
<1>2. QED  BY <1>1, Invariance, PTL

\* The loop is closed only behind the end of its tasks (_stop_background_loop).
THEOREM LoopIsEmpty == Spec => []LoopLeavesNothing
<1>1. IInv => LoopLeavesNothing
  BY DEF IInv, ThreadInv, LoopLeavesNothing, At
<1>2. QED  BY <1>1, Invariance, PTL

\* A close without an exception has given back all of the process's connections,
\* and closes no client under a part that still uses it (Container.close).
THEOREM EverythingReleased == Spec => []CloseReleasesAll
<1>1. IInv => CloseReleasesAll
  BY InvReleases
<1>2. QED  BY <1>1, Invariance, PTL
=============================================================================
