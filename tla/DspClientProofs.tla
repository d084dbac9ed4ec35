--------------------------- MODULE DspClientProofs ---------------------------
(***************************************************************************)
(* Machine-checked proofs about DspClient for every finite set of threads  *)
(* and every number of buffers, jobs, calls and connections: who answers   *)
(* for a buffer, on which connection it is released, and when.             *)
(***************************************************************************)
EXTENDS DspClient, SequenceTheorems, FiniteSetTheorems, TLAPS

Calls == [op : {"none", "job", "encode", "blend", "alloc", "import", "shared"},
          mode : {"sync", "ref", "pending"}, given : BOOLEAN, borrowed : SUBSET Ids,
          dst : Ids \cup {0}, job : Jobs \cup {0}]
Outs  == [form : {"none", "pending", "ref"}, st : {"pending", "done", "alive", "released"},
          dst : Ids \cup {0}, own : Seq(Ids)]

\* TypeOK, and the types of calls and objects.
Types ==
    /\ conn \in 0 .. conns /\ conns \in 0 .. MaxConns
    /\ status \in {"ok", "desync", "dead"} /\ late \in Seq(0 .. made)
    /\ reg \in [Ids -> 0 .. conns] /\ home \in [Ids -> 0 .. conns] /\ made \in 0 .. MaxIds
    /\ running \subseteq 1 .. jobs /\ jobs \in 0 .. MaxJobs /\ uses \in [Jobs -> SUBSET Ids]
    /\ kind \in [Ids -> {"pool", "import"}]
    /\ released \subseteq 1 .. made /\ held \subseteq 1 .. made
    /\ live \subseteq 1 .. made \ released
    /\ pc \in [Threads -> {"idle", "obtain", "submit", "running", "free", "destroy"}]
    /\ own \in [Threads -> Seq(Ids)] /\ calls \in 0 .. MaxCalls
    /\ call \in [Threads -> Calls] /\ out \in [Jobs -> Outs]
    /\ forgotten \subseteq 1 .. made /\ unheard \subseteq 1 .. made /\ stray \subseteq 1 .. made

\* The places that answer for buffers, and the buffers at each of them.
Places ==
    ({"thread"} \X Threads) \cup ({"object"} \X Jobs)
        \cup {<<"stream", 0>>, <<"app", 0>>, <<"nobody", 0>>}
At(x) ==
    CASE x[1] = "thread" -> ToSet(own[x[2]])
      [] x[1] = "object" -> ToSet(out[x[2]].own)
      [] x[1] = "stream" -> ToSet(late) \ {0}
      [] x[1] = "app"    -> held
      [] OTHER           -> forgotten \cup unheard

\* No buffer is in two places, none is twice in one list, and one that the
\* daemon holds is somewhere.
Once(s) == \A m, n \in DOMAIN s : s[m] = s[n] /\ s[m] # 0 => m = n
Located ==
    /\ \A x \in Places : At(x) \subseteq 1 .. made
    /\ \A x, y \in Places : x # y => At(x) \cap At(y) = {}
    /\ \A i \in Ids : reg[i] # 0 => \E x \in Places : i \in At(x)
Placed ==
    /\ Located /\ Once(late)
    /\ \A t \in Threads : Once(own[t])
    /\ \A j \in Jobs : Once(out[j].own)

\* The connection: what is registered is so on the present one, which lives.
Wired ==
    /\ conn # 0 => conn = conns
    /\ conn = 0 => status = "ok"
    /\ \A i \in Ids : reg[i] # 0 =>
          reg[i] = conn /\ status # "dead" /\ i \notin released /\ i <= made

\* A buffer that will be released is registered on the connection it came
\* from as long as that lasts, and a pool that outlives it is poisoned; a
\* reply on the stream is an import of this connection.
InHands(i) ==
    \/ \E t \in Threads : i \in ToSet(own[t])
    \/ \E j \in Jobs : i \in ToSet(out[j].own)
    \/ i \in held
Releasable ==
    /\ \A i \in Ids : InHands(i) =>
          /\ IsPool(i) => i \in live \/ i \in released
          /\ IsPool(i) /\ home[i] # conn => i \in released
          /\ conn # 0 /\ home[i] = conn /\ status # "dead" => reg[i] = conn
          /\ home[i] # 0
    /\ \A i \in ToSet(late) \ {0} :
          IsImport(i) /\ conn # 0 /\ home[i] = conn /\ reg[i] = conn /\ status # "dead"

\* Calls and objects.
Busy == {"obtain", "submit", "running"}
ThreadSound(t) ==
    /\ pc[t] \notin Busy => call[t] = NoCall
    /\ pc[t] = "idle" => own[t] = <<>>
    /\ pc[t] \in {"free", "destroy"} => own[t] # <<>>
    /\ call[t].given => call[t].dst \in held /\ call[t].dst \in call[t].borrowed
    /\ ~call[t].given => call[t].dst = 0 \/ call[t].dst \in ToSet(own[t])
    /\ pc[t] = "running" => call[t].job \in 1 .. jobs /\ out[call[t].job] = NoOut
CallsSound ==
    /\ \A t \in Threads : ThreadSound(t)
    /\ \A t, u \in Threads :
        pc[t] = "running" /\ pc[u] = "running" /\ call[t].job = call[u].job => t = u
    /\ \A j \in Jobs : (j > jobs => out[j] = NoOut) /\ (out[j].st = "released" => out[j].own = <<>>)

\* A buffer that is lent stays with the application or the ref it is lent from.
Lent(i) ==
    i \in held \/ \E r \in LiveRefs : out[r].dst = i /\ i \in ToSet(out[r].own)
Borrowing ==
    /\ \A t \in Threads : /\ call[t].borrowed \subseteq 1 .. made
                          /\ \A i \in call[t].borrowed : reg[i] # 0 => Lent(i)
    /\ \A j \in Jobs : out[j].dst \in 0 .. made
    /\ \A r \in LiveRefs : out[r].dst # 0 /\ reg[out[r].dst] # 0 =>
          out[r].dst \in held \/ out[r].dst \in ToSet(out[r].own)

\* A running job that nobody has given up on belongs to the thread that waits
\* for it or to a pending job of the application, whose its buffers are.
Waited(t, j) ==
    pc[t] = "running" /\ call[t].job = j /\ uses[j] = ToSet(own[t]) \cup call[t].borrowed
Pended(j) ==
    /\ IsPending(j)
    /\ \A i \in uses[j] : reg[i] # 0 => i \in ToSet(out[j].own) \/ Lent(i)
Attended ==
    /\ \A j \in Jobs : uses[j] \subseteq 1 .. made
    /\ \A j \in running \ expired : Pended(j) \/ \E t \in Threads : Waited(t, j)

\* The inductive invariant.
DspInv ==
    /\ Types /\ Placed /\ Wired /\ Releasable /\ CallsSound /\ Borrowing /\ Attended
    /\ StrayOnlyImports

-----------------------------------------------------------------------------
(* Lists of buffers *)

\* The empty list holds nothing.
LEMMA EmptyList == ToSet(<<>>) = {} /\ Once(<<>>)
  BY DEF ToSet, Once

\* What Append adds to a list of buffers.
LEMMA AppendList ==
    ASSUME NEW S, NEW s \in Seq(S), NEW e \in S
    PROVE  /\ Append(s, e) \in Seq(S) /\ Append(s, e) # <<>>
           /\ ToSet(Append(s, e)) = ToSet(s) \cup {e}
           /\ Once(s) /\ (e = 0 \/ e \notin ToSet(s)) => Once(Append(s, e))
  <1>1. /\ Append(s, e) \in Seq(S) /\ Len(Append(s, e)) = Len(s) + 1 /\ Len(s) \in Nat
        /\ \A i \in 1 .. Len(s) : Append(s, e)[i] = s[i]
        /\ Append(s, e)[Len(s) + 1] = e
    BY AppendProperties, LenProperties
  <1>2. DOMAIN s = 1 .. Len(s) /\ DOMAIN Append(s, e) = 1 .. Len(s) + 1
    BY <1>1, LenProperties
  <1>3. \A i \in 1 .. Len(s) + 1 : i = Len(s) + 1 \/ i \in 1 .. Len(s)
    BY <1>1
  <1>4. Len(s) + 1 \in 1 .. Len(s) + 1 /\ \A i \in 1 .. Len(s) : i \in 1 .. Len(s) + 1
    BY <1>1
  <1>5. ToSet(Append(s, e)) = ToSet(s) \cup {e}
    BY <1>1, <1>2, <1>3, <1>4 DEF ToSet
  <1>6. ASSUME Once(s), e = 0 \/ e \notin ToSet(s)
        PROVE  Once(Append(s, e))
    <2>1. \A i \in 1 .. Len(s) : s[i] = e => e = 0
      BY <1>2, <1>6 DEF ToSet
    <2> QED BY <1>1, <1>2, <1>3, <1>6, <2>1 DEF Once
  <1>7. Append(s, e) # <<>>
    BY <1>1
  <1> QED BY <1>1, <1>5, <1>6, <1>7

\* What Tail takes from a list of buffers.
LEMMA TailList ==
    ASSUME NEW S, NEW s \in Seq(S), s # <<>>
    PROVE  /\ Head(s) \in S /\ Tail(s) \in Seq(S)
           /\ ToSet(s) = ToSet(Tail(s)) \cup {Head(s)}
           /\ Once(s) => Once(Tail(s)) /\ (Head(s) # 0 => Head(s) \notin ToSet(Tail(s)))
  <1>1. /\ Head(s) \in S /\ Tail(s) \in Seq(S) /\ Len(Tail(s)) = Len(s) - 1
        /\ Len(s) \in Nat \ {0} /\ Head(s) = s[1]
        /\ \A i \in 1 .. Len(Tail(s)) : Tail(s)[i] = s[i + 1]
    BY HeadTailProperties, EmptySeq, LenProperties
  <1>2. DOMAIN s = 1 .. Len(s) /\ DOMAIN Tail(s) = 1 .. Len(s) - 1
    BY <1>1, LenProperties
  <1>3. /\ \A i \in 1 .. Len(s) - 1 : i + 1 \in 1 .. Len(s) /\ i + 1 # 1 /\ Tail(s)[i] = s[i + 1]
        /\ \A i \in 1 .. Len(s) : i = 1 \/ (i - 1 \in 1 .. Len(s) - 1 /\ Tail(s)[i - 1] = s[i])
        /\ 1 \in 1 .. Len(s)
    BY <1>1
  <1>4. ToSet(s) = ToSet(Tail(s)) \cup {Head(s)}
    <2>1. ASSUME NEW x \in ToSet(s)
          PROVE  x \in ToSet(Tail(s)) \cup {Head(s)}
      <3>1. PICK i \in 1 .. Len(s) : s[i] = x
        BY <1>2, <2>1 DEF ToSet
      <3>2. CASE i = 1
        BY <1>1, <3>1, <3>2
      <3>3. CASE i - 1 \in 1 .. Len(s) - 1 /\ Tail(s)[i - 1] = s[i]
        BY <1>2, <3>1, <3>3 DEF ToSet
      <3> QED BY <1>3, <3>2, <3>3
    <2>2. ASSUME NEW x \in ToSet(Tail(s))
          PROVE  x \in ToSet(s)
      <3>1. PICK i \in 1 .. Len(s) - 1 : Tail(s)[i] = x
        BY <1>2, <2>2 DEF ToSet
      <3>2. i + 1 \in 1 .. Len(s) /\ s[i + 1] = x
        BY <1>3, <3>1
      <3> QED BY <1>2, <3>2 DEF ToSet
    <2>3. Head(s) \in ToSet(s)
      BY <1>1, <1>2, <1>3 DEF ToSet
    <2> QED BY <2>1, <2>2, <2>3
  <1>5. ASSUME Once(s)
        PROVE  Once(Tail(s))
    <2>1. ASSUME NEW m \in 1 .. Len(s) - 1, NEW n \in 1 .. Len(s) - 1,
                 Tail(s)[m] = Tail(s)[n], Tail(s)[m] # 0
          PROVE  m = n
      <3>1. m + 1 = n + 1
        BY <1>2, <1>3, <1>5, <2>1 DEF Once
      <3> QED BY <1>1, <3>1
    <2> QED BY <1>2, <2>1 DEF Once
  <1>6. ASSUME Once(s), Head(s) # 0, NEW m \in 1 .. Len(s) - 1
        PROVE  Tail(s)[m] # Head(s)
    BY <1>1, <1>2, <1>3, <1>6 DEF Once
  <1>7. Once(s) /\ Head(s) # 0 => Head(s) \notin ToSet(Tail(s))
    BY <1>2, <1>6 DEF ToSet
  <1> QED BY <1>1, <1>4, <1>5, <1>7

\* The elements of a list are of its element type.
LEMMA ListTypes ==
    ASSUME NEW S, NEW s \in Seq(S)
    PROVE  ToSet(s) \subseteq S /\ (s # <<>> => Head(s) \in ToSet(s))
  BY TailList, LenProperties DEF ToSet

\* A list stays a list over a larger set.
LEMMA ListGrows ==
    ASSUME NEW S, NEW T, S \subseteq T, NEW s \in Seq(S)
    PROVE  s \in Seq(T)
  BY SeqMonotonic

-----------------------------------------------------------------------------
(* Places *)

\* The places a buffer may be at.
LEMMA PlaceFacts ==
    /\ \A t \in Threads : <<"thread", t>> \in Places
    /\ \A j \in Jobs : <<"object", j>> \in Places
    /\ <<"stream", 0>> \in Places /\ <<"app", 0>> \in Places /\ <<"nobody", 0>> \in Places
    /\ \A x \in Places :
         \/ \E t \in Threads : x = <<"thread", t>>
         \/ \E j \in Jobs : x = <<"object", j>>
         \/ x \in {<<"stream", 0>>, <<"app", 0>>, <<"nobody", 0>>}
  BY DEF Places

\* What is at each of those places, before and after a step.
LEMMA AtFacts ==
    /\ \A t : At(<<"thread", t>>) = ToSet(own[t])
    /\ \A j : At(<<"object", j>>) = ToSet(out[j].own)
    /\ At(<<"stream", 0>>) = ToSet(late) \ {0}
    /\ At(<<"app", 0>>) = held /\ At(<<"nobody", 0>>) = forgotten \cup unheard
    /\ \A t : At(<<"thread", t>>)' = ToSet(own'[t])
    /\ \A j : At(<<"object", j>>)' = ToSet(out'[j].own)
    /\ At(<<"stream", 0>>)' = ToSet(late') \ {0}
    /\ At(<<"app", 0>>)' = held' /\ At(<<"nobody", 0>>)' = forgotten' \cup unheard'
  BY DEF At

\* What Placed says of each place.
LEMMA PlacedFacts ==
    ASSUME Placed
    PROVE  /\ \A t \in Threads : ToSet(own[t]) \subseteq 1 .. made
           /\ \A j \in Jobs : ToSet(out[j].own) \subseteq 1 .. made
           /\ held \subseteq 1 .. made /\ ToSet(late) \ {0} \subseteq 1 .. made
           /\ forgotten \subseteq 1 .. made /\ unheard \subseteq 1 .. made
           /\ \A t, u \in Threads : t # u => ToSet(own[t]) \cap ToSet(own[u]) = {}
           /\ \A j, k \in Jobs : j # k => ToSet(out[j].own) \cap ToSet(out[k].own) = {}
           /\ \A t \in Threads, j \in Jobs : ToSet(own[t]) \cap ToSet(out[j].own) = {}
           /\ \A t \in Threads : ToSet(own[t]) \cap held = {}
           /\ \A j \in Jobs : ToSet(out[j].own) \cap held = {}
  <1>1. /\ \A x \in Places : At(x) \subseteq 1 .. made
        /\ \A x, y \in Places : x # y => At(x) \cap At(y) = {}
    BY DEF Placed, Located
  <1>2. ASSUME NEW t \in Threads
        PROVE  ToSet(own[t]) \subseteq 1 .. made /\ ToSet(own[t]) \cap held = {}
    <2>1. <<"thread", t>> \in Places /\ <<"app", 0>> \in Places /\ <<"thread", t>> # <<"app", 0>>
      BY PlaceFacts
    <2>2. At(<<"thread", t>>) \subseteq 1 .. made /\ At(<<"thread", t>>) \cap At(<<"app", 0>>) = {}
      BY <1>1, <2>1
    <2> QED BY <2>2, AtFacts
  <1>3. ASSUME NEW j \in Jobs
        PROVE  ToSet(out[j].own) \subseteq 1 .. made /\ ToSet(out[j].own) \cap held = {}
    <2>1. <<"object", j>> \in Places /\ <<"app", 0>> \in Places /\ <<"object", j>> # <<"app", 0>>
      BY PlaceFacts
    <2>2. At(<<"object", j>>) \subseteq 1 .. made /\ At(<<"object", j>>) \cap At(<<"app", 0>>) = {}
      BY <1>1, <2>1
    <2> QED BY <2>2, AtFacts
  <1>4. held \subseteq 1 .. made /\ ToSet(late) \ {0} \subseteq 1 .. made
        /\ forgotten \cup unheard \subseteq 1 .. made
    <2>1. /\ At(<<"stream", 0>>) \subseteq 1 .. made /\ At(<<"app", 0>>) \subseteq 1 .. made
          /\ At(<<"nobody", 0>>) \subseteq 1 .. made
      BY <1>1, PlaceFacts
    <2> QED BY <2>1, AtFacts
  <1>5. ASSUME NEW t \in Threads, NEW u \in Threads, t # u
        PROVE  ToSet(own[t]) \cap ToSet(own[u]) = {}
    <2>1. At(<<"thread", t>>) \cap At(<<"thread", u>>) = {}
      BY <1>1, <1>5, PlaceFacts
    <2> QED BY <2>1, AtFacts
  <1>6. ASSUME NEW j \in Jobs, NEW k \in Jobs, j # k
        PROVE  ToSet(out[j].own) \cap ToSet(out[k].own) = {}
    <2>1. At(<<"object", j>>) \cap At(<<"object", k>>) = {}
      BY <1>1, <1>6, PlaceFacts
    <2> QED BY <2>1, AtFacts
  <1>7. ASSUME NEW t \in Threads, NEW j \in Jobs
        PROVE  ToSet(own[t]) \cap ToSet(out[j].own) = {}
    <2>1. <<"thread", t>> \in Places /\ <<"object", j>> \in Places /\ <<"thread", t>> # <<"object", j>>
      BY PlaceFacts
    <2>2. At(<<"thread", t>>) \cap At(<<"object", j>>) = {}
      BY <1>1, <2>1
    <2> QED BY <2>2, AtFacts
  <1> QED BY <1>2, <1>3, <1>4, <1>5, <1>6, <1>7

-----------------------------------------------------------------------------
(* Exchanges *)

Exchange(t) ==
    \/ AllocReturns(t) \/ AllocThrows(t) \/ ConnectThrows(t)
    \/ ImportReturns(t) \/ ImportTimesOut(t) \/ ImportThrows(t)

\* n is the buffer the daemon registers, or 0.
Minted(n) ==
    \/ n = 0 /\ made' = made /\ reg' = reg /\ home' = home /\ kind' = kind
    \/ /\ n = made + 1 /\ n \in Ids /\ made' = n /\ status' # "dead"
       /\ reg' = [reg EXCEPT ![n] = conn'] /\ home' = [home EXCEPT ![n] = conn']
       /\ \E k \in {"pool", "import"} : kind' = [kind EXCEPT ![n] = k]

\* id is what the call is given, or 0: it, the replies left on the stream and
\* the buffers nobody hears of are the replies that were there and n.
Streams(n, id) ==
    /\ late' \in Seq(0 .. made') /\ (Once(late) => Once(late'))
    /\ ToSet(late') \subseteq ToSet(late) \cup {0, n}
    /\ ToSet(late) \subseteq ToSet(late') \cup {0, id}
    /\ unheard \subseteq unheard' /\ unheard' \subseteq unheard \cup ({n} \ {0})
    /\ id \in 0 .. made'
    /\ id # 0 => /\ status = "ok" /\ id \in ToSet(late) \cup {n}
                 /\ Once(late) => id \notin ToSet(late')
                 /\ id \in ToSet(late) => kind'[id] = kind[id]
    /\ n # 0 => /\ n \in ToSet(late') \/ n = id \/ n \in unheard'
                /\ n = id => n \notin ToSet(late') /\ n \notin unheard' /\ conn' # 0
                /\ n \in ToSet(late') => /\ n \notin unheard' /\ kind'[n] = "import"
                                         /\ conn' # 0 /\ status = "ok"

\* What an exchange leaves alone, and the connection it makes.
Exchanged(t) ==
    /\ pc[t] = "obtain"
    /\ \/ conn' = conn /\ conns' = conns
       \/ conn = 0 /\ conn' = conns + 1 /\ conns' = conns + 1 /\ conns < MaxConns
    /\ status' = status \/ (status # "dead" /\ status' = "desync" /\ conn' # 0)
    /\ UNCHANGED <<running, uses, jobs, released, out, calls, forgotten, expired, stray>>

\* An exchange with the daemon, reduced to what its cases have in common.
LEMMA ExchangeEffect ==
    ASSUME Types, NEW t \in Threads, Exchange(t)
    PROVE  /\ Exchanged(t)
           /\ \E n \in {0, made + 1}, id \in 0 .. made' :
                /\ Minted(n) /\ Streams(n, id)
                /\ ((id = 0 /\ ExchangeThrows(t)) \/ (id # 0 /\ Obtained(t, id)))
  <1>1. /\ made \in 0 .. MaxIds /\ MaxIds \in Nat /\ late \in Seq(0 .. made) /\ made \in Nat
        /\ made + 1 \notin ToSet(late) /\ unheard \subseteq 1 .. made /\ made + 1 \notin unheard
        /\ conns \in Nat /\ ToSet(late) \subseteq 0 .. made
        /\ kind \in [Ids -> {"pool", "import"}]
    BY DspAssumption, ListTypes DEF Types
  <1>2. ensure_sock => /\ conn' # 0
                       /\ \/ conn' = conn /\ conns' = conns
                          \/ conn = 0 /\ conn' = conns + 1 /\ conns' = conns + 1 /\ conns < MaxConns
    <2>1. ASSUME ensure_sock, conn = 0
          PROVE  conn' = conns + 1 /\ conns' = conns + 1 /\ conns < MaxConns
      BY <2>1 DEF ensure_sock
    <2>2. ASSUME ensure_sock, conn # 0
          PROVE  conn' = conn /\ conns' = conns
      BY <2>2 DEF ensure_sock
    <2>3. conns + 1 # 0
      BY <1>1
    <2> QED BY <2>1, <2>2, <2>3
  <1>3. ASSUME NEW k \in {"pool", "import"}, Registers(k), status' # "dead"
        PROVE  /\ Minted(made + 1) /\ made + 1 \in Ids /\ made' = made + 1
               /\ kind'[made + 1] = k /\ \A i \in ToSet(late) \ {0} : kind'[i] = kind[i]
               /\ made + 1 # 0 /\ made + 1 \in 0 .. made' /\ late \in Seq(0 .. made')
    <2>1. made + 1 \in Ids /\ made + 1 # 0 /\ made + 1 \in 0 .. made + 1 /\ 0 .. made \subseteq 0 .. made + 1
      BY <1>1, <1>3 DEF Registers, Ids
    <2>2. late \in Seq(0 .. made + 1)
      BY <1>1, <2>1, SeqMonotonic
    <2>3. Minted(made + 1) /\ made' = made + 1
      BY <1>3, <2>1 DEF Registers, Minted
    <2>4. kind'[made + 1] = k /\ \A i \in ToSet(late) \ {0} : kind'[i] = kind[i]
      BY <1>1, <1>3, <2>1 DEF Registers, Ids
    <2> QED BY <2>1, <2>2, <2>3, <2>4
  <1>4. Refuses => Minted(0) /\ made' = made
    BY DEF Refuses, Minted
  <1>5. ASSUME UNCHANGED late, UNCHANGED unheard, Minted(0), made' = made
        PROVE  Streams(0, 0)
    BY <1>1, <1>5 DEF Streams
  <1>6. CASE AllocReturns(t)
    <2>1. Streams(made + 1, made + 1)
      BY <1>1, <1>2, <1>3, <1>6, EmptyList DEF AllocReturns, hist, Streams
    <2> QED BY <1>1, <1>2, <1>3, <1>6, <2>1 DEF AllocReturns, Obtaining, hist, Exchanged
  <1>7. CASE AllocThrows(t)
    <2>1. Exchanged(t) /\ late' = late /\ ExchangeThrows(t)
      BY <1>2, <1>7 DEF AllocThrows, Obtaining, Exchanged
    <2>2. CASE Refuses /\ UNCHANGED unheard
      BY <1>1, <1>4, <1>5, <2>1, <2>2
    <2>3. CASE status' = "desync" /\ Registers("pool") /\ unheard' = unheard \cup {made + 1}
      <3>1. Streams(made + 1, 0)
        BY <1>1, <1>3, <2>1, <2>3 DEF Streams
      <3> QED BY <1>1, <1>3, <2>1, <2>3, <3>1
    <2> QED BY <1>7, <2>2, <2>3 DEF AllocThrows
  <1>8. CASE ConnectThrows(t)
    <2>1. Exchanged(t) /\ late' = late /\ ExchangeThrows(t) /\ Refuses /\ unheard' = unheard
      BY <1>8 DEF ConnectThrows, Exchanged, wire, daemon, hist, Refuses
    <2> QED BY <1>1, <1>4, <1>5, <2>1
  <1>9. CASE ImportThrows(t)
    <2>1. Exchanged(t) /\ late' = late /\ ExchangeThrows(t) /\ status' = status
      BY <1>9 DEF ImportThrows, Exchanged, Obtaining, wire
    <2>2. CASE Refuses /\ UNCHANGED unheard
      BY <1>1, <1>4, <1>5, <2>1, <2>2
    <2>3. CASE status = "desync" /\ Registers("import") /\ unheard' = unheard \cup {made + 1}
      <3>1. Streams(made + 1, 0)
        BY <1>1, <1>3, <2>1, <2>3 DEF Streams
      <3> QED BY <1>1, <1>3, <2>1, <2>3, <3>1
    <2> QED BY <1>9, <2>2, <2>3 DEF ImportThrows
  <1>10. CASE ImportTimesOut(t)
    <2>1. /\ Exchanged(t) /\ unheard' = unheard /\ ExchangeThrows(t) /\ status' = status
          /\ status = "ok" /\ conn' # 0
      BY <1>2, <1>10 DEF ImportTimesOut, Exchanged, Obtaining, hist
    <2>2. CASE Registers("import") /\ late' = Append(late, made + 1)
      <3>1. late' \in Seq(0 .. made') /\ ToSet(late') = ToSet(late) \cup {made + 1}
            /\ (Once(late) => Once(late'))
        BY <1>1, <1>3, <2>1, <2>2, AppendList
      <3>2. Streams(made + 1, 0)
        BY <1>1, <1>3, <2>1, <2>2, <3>1 DEF Streams
      <3> QED BY <1>1, <1>3, <2>1, <2>2, <3>2
    <2>3. CASE Refuses /\ late' = Append(late, 0)
      <3>1. late' \in Seq(0 .. made') /\ ToSet(late') = ToSet(late) \cup {0}
            /\ (Once(late) => Once(late'))
        BY <1>1, <1>4, <2>3, AppendList
      <3>2. Streams(0, 0)
        BY <1>1, <1>4, <2>1, <2>3, <3>1 DEF Streams
      <3> QED BY <1>1, <1>4, <2>1, <2>3, <3>2
    <2>4. CASE Refuses /\ late' = late
      BY <1>1, <1>4, <1>5, <2>1, <2>4
    <2> QED BY <1>10, <2>2, <2>3, <2>4 DEF ImportTimesOut
  <1>11. CASE ImportReturns(t)
    <2>1. /\ Exchanged(t) /\ unheard' = unheard /\ status' = status
          /\ status = "ok" /\ conn' # 0
      BY <1>2, <1>11 DEF ImportReturns, Exchanged, Obtaining, hist
    <2>2. ASSUME NEW n \in {0, made + 1}, Minted(n), made' \in Nat, n \in 0 .. made',
                 late \in Seq(0 .. made'), late' = Tail(Append(late, n)),
                 n # 0 => kind'[n] = "import",
                 \A i \in ToSet(late) \ {0} : kind'[i] = kind[i],
                 LET id == Head(Append(late, n))
                 IN IF id = 0 THEN ExchangeThrows(t) ELSE Obtained(t, id)
          PROVE  \E id \in 0 .. made' :
                    /\ Streams(n, id)
                    /\ ((id = 0 /\ ExchangeThrows(t)) \/ (id # 0 /\ Obtained(t, id)))
      <3> DEFINE q == Append(late, n)
      <3> DEFINE id == Head(q)
      <3>1. q \in Seq(0 .. made') /\ q # <<>> /\ ToSet(q) = ToSet(late) \cup {n}
            /\ (Once(late) => Once(q))
        BY SMTT(30), <1>1, <2>2, AppendList
      <3>2. late' = Tail(q) /\ ((id = 0 /\ ExchangeThrows(t)) \/ (id # 0 /\ Obtained(t, id)))
        BY <2>2
      <3> HIDE DEF q
      <3>3. id \in 0 .. made' /\ late' \in Seq(0 .. made') /\ ToSet(q) = ToSet(late') \cup {id}
            /\ (Once(q) => Once(late') /\ (id # 0 => id \notin ToSet(late')))
        BY <3>1, <3>2, TailList
      <3>4. n # 0 /\ n = id => n \notin ToSet(late')
        <4>1. SUFFICES ASSUME n # 0, n = id, n \in ToSet(late') PROVE FALSE
          OBVIOUS
        <4>2. CASE late = <<>>
          <5>1. q = <<n>> /\ Tail(q) = <<>>
            BY <2>2, <4>2 DEF q
          <5> QED BY <3>2, <4>1, <5>1, EmptyList
        <4>3. CASE late # <<>>
          <5>1. Head(late) \in ToSet(late) /\ Head(q) = Head(late)
            BY <1>1, <2>2, <4>3, ListTypes, AppendProperties, HeadTailProperties, LenProperties, EmptySeq DEF q
          <5> QED BY <1>1, <2>2, <4>1, <5>1
        <4> QED BY <4>2, <4>3
      <3> HIDE DEF id
      <3>5. Streams(n, id)
        BY <1>1, <2>1, <2>2, <3>1, <3>3, <3>4 DEF Streams
      <3> QED BY <3>2, <3>3, <3>5
    <2>3. CASE /\ Registers("import") /\ late' = Tail(Append(late, made + 1))
               /\ LET id == Head(Append(late, made + 1))
                  IN IF id = 0 THEN ExchangeThrows(t) ELSE Obtained(t, id)
      BY <1>1, <1>3, <2>1, <2>2, <2>3
    <2>4. CASE /\ Refuses /\ late' = Tail(Append(late, 0))
               /\ LET id == Head(Append(late, 0))
                  IN IF id = 0 THEN ExchangeThrows(t) ELSE Obtained(t, id)
      <3>1. Minted(0) /\ made' = made /\ kind' = kind
        BY <1>4, <2>4 DEF Refuses
      <3> QED BY <1>1, <2>1, <2>2, <2>4, <3>1
    <2> QED BY <1>11, <2>1, <2>3, <2>4 DEF ImportReturns
  <1> QED BY <1>6, <1>7, <1>8, <1>9, <1>10, <1>11 DEF Exchange

-----------------------------------------------------------------------------
(* The other steps, by what they do with buffers *)

Begins(t) ==
    \/ \E op \in {"job", "blend", "encode"}, mode \in {"sync", "ref", "pending"},
          src \in {"array", "handle", "pool", "ref"}, dst \in 0 .. MaxIds :
          BeginJob(t, op, mode, src, dst)
    \/ \E op \in {"alloc", "import", "shared"} : BeginObtain(t, op)

\* A call begins with buffers the application may lend.
LEMMA BeginEffect ==
    ASSUME Types, Borrowing, NEW t \in Threads, Begins(t)
    PROVE  \E op \in {"job", "blend", "encode", "alloc", "import", "shared"},
              mode \in {"sync", "ref", "pending"},
              borrowed \in SUBSET Ids, dst \in Ids \cup {0} :
              /\ \E todos : Begin(t, op, mode, todos, borrowed, dst)
              /\ dst # 0 => dst \in held /\ dst \in borrowed
              /\ \A i \in borrowed : i \in 1 .. made /\ (reg[i] # 0 => Lent(i))
  <1>1. /\ held \subseteq 1 .. made /\ \A j \in Jobs : out[j].dst \in 1 .. made \cup {0}
        /\ 1 .. made \subseteq Ids
    <2>1. /\ made \in Nat /\ held \subseteq 1 .. made
          /\ \A j \in Jobs : out[j].dst \in 0 .. made
          /\ 1 .. made \subseteq Ids
      BY DspAssumption DEF Types, Ids, Borrowing
    <2> QED BY <2>1
  <1>2. \A i \in held : Lent(i)
    BY DEF Lent
  <1>3. \A r \in LiveRefs : out[r].dst # 0 /\ reg[out[r].dst] # 0 => Lent(out[r].dst)
    BY DEF Borrowing, Lent
  <1>4. 0 \notin Ids
    BY DEF Ids
  <1>5. ASSUME NEW op \in {"alloc", "import", "shared"}, BeginObtain(t, op)
        PROVE  Begin(t, op, "sync", Plan(op, "none", FALSE), {}, 0)
    BY <1>5 DEF BeginObtain
  <1>6. ASSUME NEW op \in {"job", "blend", "encode"}, NEW mode \in {"sync", "ref", "pending"},
               NEW src \in {"array", "handle", "pool", "ref"}, NEW dst \in 0 .. MaxIds,
               BeginJob(t, op, mode, src, dst)
        PROVE  \E borrowed \in SUBSET Ids :
                  /\ Begin(t, op, mode, Plan(op, src, dst # 0), borrowed, dst)
                  /\ dst \in held \cup {0}
                  /\ dst # 0 => dst \in borrowed
                  /\ \A i \in borrowed : i \in 1 .. made /\ (reg[i] # 0 => Lent(i))
    <2>1. dst \in held \cup {0}
      BY <1>6 DEF BeginJob, GivenPools
    <2>2. ASSUME NEW i \in held \cup {0} \cup {out[r].dst : r \in LiveRefs},
                 Begin(t, op, mode, Plan(op, src, dst # 0), {i, dst} \ {0}, dst)
          PROVE  \E borrowed \in SUBSET Ids :
                  /\ Begin(t, op, mode, Plan(op, src, dst # 0), borrowed, dst)
                  /\ dst \in held \cup {0}
                  /\ dst # 0 => dst \in borrowed
                  /\ \A b \in borrowed : b \in 1 .. made /\ (reg[b] # 0 => Lent(b))
      <3>1. i \in 1 .. made \cup {0} /\ (i # 0 /\ reg[i] # 0 => Lent(i))
        BY <1>1, <1>2, <1>3 DEF LiveRefs
      <3>2. {i, dst} \ {0} \in SUBSET Ids
        BY <1>1, <2>1, <3>1
      <3>3. \A b \in {i, dst} \ {0} : b \in 1 .. made /\ (reg[b] # 0 => Lent(b))
        BY <1>1, <1>2, <2>1, <3>1
      <3> QED BY <2>1, <2>2, <3>2, <3>3
    <2>3. CASE Begin(t, op, mode, Plan(op, src, dst # 0), {dst} \ {0}, dst)
      <3>1. {dst} \ {0} = {0, dst} \ {0}
        OBVIOUS
      <3> QED BY <2>2, <2>3, <3>1
    <2>4. CASE \E i \in GivenPools \cup (IF op = "encode" THEN GivenIds ELSE {}) :
                  Begin(t, op, mode, Plan(op, src, dst # 0), {i, dst} \ {0}, dst)
      <3>1. PICK i \in GivenPools \cup (IF op = "encode" THEN GivenIds ELSE {}) :
                  Begin(t, op, mode, Plan(op, src, dst # 0), {i, dst} \ {0}, dst)
        BY <2>4
      <3>2. i \in held
        BY DEF GivenPools, GivenIds
      <3> QED BY <2>2, <3>1, <3>2
    <2>5. CASE \E j \in LiveRefs :
                  Begin(t, op, mode, Plan(op, src, dst # 0), {out[j].dst, dst} \ {0}, dst)
      BY <2>2, <2>5
    <2> QED BY <1>6, <2>3, <2>4, <2>5 DEF BeginJob
  <1>7. CASE \E op \in {"job", "blend", "encode"}, mode \in {"sync", "ref", "pending"},
                src \in {"array", "handle", "pool", "ref"}, dst \in 0 .. MaxIds :
                BeginJob(t, op, mode, src, dst)
    <2>1. PICK op \in {"job", "blend", "encode"}, mode \in {"sync", "ref", "pending"},
               src \in {"array", "handle", "pool", "ref"}, dst \in 0 .. MaxIds :
               BeginJob(t, op, mode, src, dst)
      BY <1>7
    <2>2. PICK borrowed \in SUBSET Ids :
                  /\ Begin(t, op, mode, Plan(op, src, dst # 0), borrowed, dst)
                  /\ dst \in held \cup {0}
                  /\ dst # 0 => dst \in borrowed
                  /\ \A i \in borrowed : i \in 1 .. made /\ (reg[i] # 0 => Lent(i))
      BY <1>6, <2>1
    <2>3. dst \in Ids \cup {0} /\ (dst # 0 => dst \in held)
      BY <1>1, <2>2
    <2>4. op \in {"job", "blend", "encode", "alloc", "import", "shared"}
      OBVIOUS
    <2> QED BY <2>2, <2>3, <2>4
  <1>8. CASE \E op \in {"alloc", "import", "shared"} : BeginObtain(t, op)
    <2>1. PICK op \in {"alloc", "import", "shared"} : BeginObtain(t, op)
      BY <1>8
    <2>2. Begin(t, op, "sync", Plan(op, "none", FALSE), {}, 0)
      BY <1>5, <2>1
    <2>3. /\ op \in {"job", "blend", "encode", "alloc", "import", "shared"}
          /\ "sync" \in {"sync", "ref", "pending"} /\ {} \in SUBSET Ids /\ 0 \in Ids \cup {0}
      OBVIOUS
    <2> QED BY <2>2, <2>3
  <1> QED BY <1>7, <1>8 DEF Begins

\* A call ends, and its owns are to be released or destroyed: no job that
\* somebody waits for is left behind.
Lets(t) ==
    /\ pc[t] \in Busy /\ \E label \in {"free", "destroy"} : Leaves(t, own[t], label)
    /\ expired \subseteq expired' /\ (pc[t] = "running" => call[t].job \notin running \ expired')
    /\ UNCHANGED <<wire, daemon, objs, calls, forgotten, unheard, stray>>

\* The copy in front of a blend has succeeded.
Copies(t) ==
    /\ pc[t] = "running" /\ call[t].job \notin running
    /\ pc' = [pc EXCEPT ![t] = "obtain"]
    /\ UNCHANGED <<wire, daemon, objs, own, call, calls, hist>>

\* The job has succeeded, and an object takes the owns.
Delivers(t) ==
    /\ pc[t] = "running" /\ call[t].job \notin running
    /\ HandsOver(t, call[t].job, "pending", "done") \/ HandsOver(t, call[t].job, "ref", "alive")
    /\ UNCHANGED <<wire, daemon, kind, released, live, held, calls, hist>>

\* The actions of Next, in the groups the proofs below treat alike.
LEMMA NextCases ==
    ASSUME Next
    PROVE  \/ close \/ DaemonGone
           \/ \E j \in Jobs : JobEnds(j) \/ Settles(j)
           \/ \E i \in Ids : ReleaseHeld(i)
           \/ \E t \in Threads : \E j \in Jobs : ReleaseOut(t, j)
           \/ \E t \in Threads : Begins(t) \/ Exchange(t) \/ Free(t)
           \/ \E t \in Threads : SubmitSync(t) \/ SubmitAsync(t)
           \/ \E t \in Threads : Lets(t) \/ Copies(t) \/ Delivers(t)
  <1>1. ASSUME NEW t \in Threads, SubmitThrows(t)
        PROVE  Lets(t)
    BY <1>1 DEF SubmitThrows, Submitting, Obtaining, ReleasesAll, Lets, Busy, hist
  <1>2. ASSUME NEW t \in Threads, JobThrows(t)
        PROVE  Lets(t)
    <2>1. expired \subseteq expired' /\ call[t].job \notin running \ expired'
      BY <1>2 DEF JobThrows
    <2> QED BY <1>2, <2>1 DEF JobThrows, ReleasesAll, Lets, Busy
  <1>3. ASSUME NEW t \in Threads, JobReturns(t)
        PROVE  Lets(t) \/ Copies(t) \/ Delivers(t)
    <2>1. CASE todo[t] # <<>>
      BY <1>3, <2>1 DEF JobReturns, Copies, objs
    <2>2. CASE todo[t] = <<>> /\ call[t].mode = "pending"
      <3>1. HandsOver(t, call[t].job, "pending", "done")
        BY <1>3, <2>2 DEF JobReturns, IntoCallersPool
      <3> QED BY <1>3, <3>1 DEF JobReturns, Delivers
    <2>3. CASE todo[t] = <<>> /\ call[t].mode # "pending" /\ IntoCallersPool(t)
      <3>1. DestroysOwns(t) /\ out' = out
        BY <1>3, <2>3 DEF JobReturns
      <3> QED BY <1>3, <3>1 DEF JobReturns, DestroysOwns, Lets, Busy, objs, hist
    <2>4. CASE todo[t] = <<>> /\ call[t].mode = "ref" /\ ~IntoCallersPool(t)
      <3>1. HandsOver(t, call[t].job, "ref", "alive")
        BY <1>3, <2>4 DEF JobReturns
      <3> QED BY <1>3, <3>1 DEF JobReturns, Delivers
    <2>5. CASE todo[t] = <<>> /\ call[t].mode \notin {"ref", "pending"} /\ ~IntoCallersPool(t)
      <3>1. ReadsBack(t) /\ out' = out
        BY <1>3, <2>5 DEF JobReturns
      <3> QED BY <1>3, <3>1 DEF JobReturns, ReadsBack, ReleasesAll, Lets, Busy, objs, hist
    <2> QED BY <2>1, <2>2, <2>3, <2>4, <2>5
  <1> QED BY <1>1, <1>2, <1>3 DEF Next, Begins, Exchange

\* The call keeps what it is given, or returns all it has to the application.
Keeps(t, id) ==
    /\ own' = [own EXCEPT ![t] = Append(own[t], id)] /\ held' = held
    /\ \E label \in {"obtain", "submit"} : pc' = [pc EXCEPT ![t] = label]
    /\ \E d \in {call[t].dst, id} : /\ call' = [call EXCEPT ![t].dst = d]
                                    /\ call[t].given => d = call[t].dst
Gives(t, id) ==
    /\ own' = [own EXCEPT ![t] = <<>>] /\ held' = held \cup ToSet(own[t]) \cup {id}
    /\ pc' = [pc EXCEPT ![t] = "idle"] /\ call' = [call EXCEPT ![t] = NoCall]

\* A buffer obtained is kept for the call or given to the application.
LEMMA ObtainedEffect ==
    ASSUME Types, NEW t \in Threads, NEW id \in Ids, Obtained(t, id)
    PROVE  /\ live' = IF kind'[id] = "pool" THEN live \cup {id} ELSE live
           /\ Keeps(t, id) \/ Gives(t, id)
  <1>1. live' = IF kind'[id] = "pool" THEN live \cup {id} ELSE live
    BY DEF Obtained
  <1>2. own[t] \in Seq(Ids) /\ ToSet(Append(own[t], id)) = ToSet(own[t]) \cup {id}
    BY AppendList DEF Types
  <1>3. CASE Leaves(t, <<>>, "free") /\ held' = held \cup ToSet(Append(own[t], id))
    BY <1>1, <1>2, <1>3 DEF Leaves, AfterOwns, Gives
  <1>4. CASE /\ own' = [own EXCEPT ![t] = Append(own[t], id)] /\ held' = held
             /\ pc' = [pc EXCEPT ![t] = IF Tail(todo[t]) = <<>> THEN "submit" ELSE "obtain"]
             /\ call' = [call EXCEPT ![t].dst =
                           IF kind'[id] = "pool" /\ ~call[t].given THEN id ELSE @]
    <2>1. \E label \in {"obtain", "submit"} : pc' = [pc EXCEPT ![t] = label]
      BY <1>4
    <2>2. \E d \in {call[t].dst, id} : /\ call' = [call EXCEPT ![t].dst = d]
                                       /\ call[t].given => d = call[t].dst
      <3>1. CASE kind'[id] = "pool" /\ ~call[t].given
        BY <1>4, <3>1
      <3>2. CASE ~(kind'[id] = "pool" /\ ~call[t].given)
        BY <1>4, <3>2
      <3> QED BY <3>1, <3>2
    <2> QED BY <1>1, <1>4, <2>1, <2>2 DEF Keeps
  <1> QED BY <1>1, <1>3, <1>4 DEF Obtained

\* An exchange that throws leaves the owns to the thread.
LEMMA ThrowsEffect ==
    ASSUME NEW t \in Threads, ExchangeThrows(t)
    PROVE  /\ \E label \in {"free", "destroy"} : Leaves(t, own[t], label)
           /\ held' = held /\ live' = live
  BY DEF ExchangeThrows, ReleasesAll, DestroysOwns

-----------------------------------------------------------------------------
(* Types *)

\* A thread that leaves a call stays within the types.
LEMMA LeavesTypes ==
    ASSUME Types, NEW t \in Threads, NEW owns \in Seq(Ids), NEW label \in {"free", "destroy"},
           Leaves(t, owns, label)
    PROVE  /\ pc' \in [Threads -> {"idle", "obtain", "submit", "running", "free", "destroy"}]
           /\ own' \in [Threads -> Seq(Ids)] /\ call' \in [Threads -> Calls]
  <1>1. NoCall \in Calls
    BY DEF NoCall, Calls
  <1>2. AfterOwns(owns, label) \in {"idle", "free", "destroy"}
    BY DEF AfterOwns
  <1> QED BY <1>1, <1>2 DEF Types, Leaves

\* A thread that hands its buffers to an object stays within the types.
LEMMA HandsOverTypes ==
    ASSUME Types, NEW t \in Threads, NEW j \in Jobs,
           NEW form \in {"pending", "ref"}, NEW st \in {"pending", "done", "alive"},
           HandsOver(t, j, form, st)
    PROVE  /\ pc' \in [Threads -> {"idle", "obtain", "submit", "running", "free", "destroy"}]
           /\ own' \in [Threads -> Seq(Ids)] /\ call' \in [Threads -> Calls]
           /\ out' \in [Jobs -> Outs]
  <1>1. <<>> \in Seq(Ids)
    OBVIOUS
  <1>2. /\ Leaves(t, <<>>, "free")
        /\ out' = [out EXCEPT ![j] = [form |-> form, st |-> st, dst |-> call[t].dst, own |-> own[t]]]
    BY DEF HandsOver
  <1>3. [form |-> form, st |-> st, dst |-> call[t].dst, own |-> own[t]] \in Outs
    <2>1. call[t] \in Calls /\ own[t] \in Seq(Ids)
      BY DEF Types
    <2> QED BY <2>1 DEF Outs, Calls
  <1>4. out' \in [Jobs -> Outs]
    BY <1>2, <1>3 DEF Types
  <1> QED BY <1>1, <1>2, <1>4, LeavesTypes

\* A release message keeps the types.
LEMMA ReleaseTypes ==
    ASSUME Types, Wired, NEW i \in 1 .. made, send_release(i)
    PROVE  /\ reg' \in [Ids -> 0 .. conns] /\ released' \subseteq 1 .. made
           /\ live' \subseteq 1 .. made \ released' /\ stray' \subseteq 1 .. made
  <1>1. reg' \in [Ids -> 0 .. conns]
    <2>1. /\ reg \in [Ids -> 0 .. conns] /\ 0 \in 0 .. conns /\ i \in Ids
      BY DspAssumption DEF Types, Ids
    <2> QED BY <2>1 DEF send_release
  <1> QED BY <1>1 DEF send_release, Types

\* An exchange keeps the types.
LEMMA ExchangeTypes ==
    ASSUME Types, Placed, Releasable, NEW t \in Threads, Exchange(t)
    PROVE  Types'
  <1>1. PICK n \in {0, made + 1}, id \in 0 .. made' :
            /\ Exchanged(t) /\ Minted(n) /\ Streams(n, id)
            /\ ((id = 0 /\ ExchangeThrows(t)) \/ (id # 0 /\ Obtained(t, id)))
    BY ExchangeEffect
  <1>2. /\ conn \in 0 .. conns /\ conns \in 0 .. MaxConns /\ made \in 0 .. MaxIds
        /\ MaxIds \in Nat /\ MaxConns \in Nat /\ jobs \in 0 .. MaxJobs
    BY DspAssumption DEF Types
  <1>3. /\ made' \in 0 .. MaxIds /\ 1 .. made \subseteq 1 .. made' /\ made <= made'
        /\ {n} \ {0} \subseteq 1 .. made' /\ (id # 0 => id \in Ids)
    BY <1>1, <1>2 DEF Minted, Ids
  <1>4. conn' \in 0 .. conns' /\ conns' \in 0 .. MaxConns /\ 0 .. conns \subseteq 0 .. conns'
    BY <1>1, <1>2 DEF Exchanged
  <1>5. reg' \in [Ids -> 0 .. conns'] /\ home' \in [Ids -> 0 .. conns']
    <2>1. reg \in [Ids -> 0 .. conns'] /\ home \in [Ids -> 0 .. conns']
      BY <1>4 DEF Types
    <2> QED BY <1>1, <1>4, <2>1 DEF Minted
  <1>6. kind' \in [Ids -> {"pool", "import"}]
    BY <1>1 DEF Minted, Types
  <1>7. status' \in {"ok", "desync", "dead"} /\ late' \in Seq(0 .. made')
    BY <1>1 DEF Exchanged, Streams, Types
  <1>8. /\ running' \subseteq 1 .. jobs' /\ jobs' \in 0 .. MaxJobs /\ uses' \in [Jobs -> SUBSET Ids]
        /\ calls' \in 0 .. MaxCalls /\ out' \in [Jobs -> Outs]
    BY <1>1 DEF Exchanged, Types
  <1>9. /\ released' \subseteq 1 .. made' /\ forgotten' \subseteq 1 .. made'
        /\ unheard' \subseteq 1 .. made' /\ stray' \subseteq 1 .. made'
    BY <1>1, <1>3 DEF Exchanged, Streams, Types
  <1>10. CASE id = 0
    <2>1. /\ \E label \in {"free", "destroy"} : Leaves(t, own[t], label)
          /\ held' = held /\ live' = live
      BY <1>1, <1>10, ThrowsEffect
    <2>2. own[t] \in Seq(Ids)
      BY DEF Types
    <2>3. /\ pc' \in [Threads -> {"idle", "obtain", "submit", "running", "free", "destroy"}]
          /\ own' \in [Threads -> Seq(Ids)] /\ call' \in [Threads -> Calls]
      BY <2>1, <2>2, LeavesTypes
    <2>4. held' \subseteq 1 .. made' /\ live' \subseteq 1 .. made' \ released'
      BY <1>1, <1>3, <2>1 DEF Exchanged, Types
    <2> QED BY <1>3, <1>4, <1>5, <1>6, <1>7, <1>8, <1>9, <2>3, <2>4 DEF Types
  <1>11. CASE id # 0
    <2>1. /\ live' = IF kind'[id] = "pool" THEN live \cup {id} ELSE live
          /\ Keeps(t, id) \/ Gives(t, id)
      BY <1>1, <1>3, <1>11, ObtainedEffect
    <2>2. /\ own[t] \in Seq(Ids) /\ Append(own[t], id) \in Seq(Ids) /\ <<>> \in Seq(Ids)
          /\ NoCall \in Calls
      BY <1>3, <1>11, AppendList DEF Types, NoCall, Calls
    <2>3. \A d \in {call[t].dst, id} : [call[t] EXCEPT !.dst = d] \in Calls
      <3>1. call[t] \in Calls /\ id \in Ids \cup {0}
        BY <1>3, <1>11 DEF Types
      <3> QED BY <3>1 DEF Calls
    <2>4. call' \in [Threads -> Calls]
      <3>1. CASE \E d \in {call[t].dst, id} : call' = [call EXCEPT ![t].dst = d]
        BY <2>3, <3>1 DEF Types
      <3>2. CASE call' = [call EXCEPT ![t] = NoCall]
        BY <2>2, <3>2 DEF Types
      <3> QED BY <2>1, <3>1, <3>2 DEF Keeps, Gives
    <2>5. own' \in [Threads -> Seq(Ids)]
      BY <2>1, <2>2 DEF Keeps, Gives, Types
    <2>6. pc' \in [Threads -> {"idle", "obtain", "submit", "running", "free", "destroy"}]
      BY <2>1 DEF Keeps, Gives, Types
    <2>7. held' \subseteq 1 .. made'
      <3>1. held \subseteq 1 .. made /\ id \in 1 .. made'
        BY <1>2, <1>3, <1>11 DEF Types
      <3>2. ToSet(own[t]) \subseteq 1 .. made
        BY PlacedFacts
      <3> QED BY <1>3, <2>1, <3>1, <3>2 DEF Keeps, Gives
    <2>8. live' \subseteq 1 .. made' \ released'
      <3>1. kind'[id] = "pool" => id = n
        BY <1>1, <1>11 DEF Streams, Releasable, IsImport
      <3>2. id = n => id \notin released
        BY <1>1, <1>2, <1>11 DEF Types
      <3>3. live \subseteq 1 .. made \ released /\ released' = released /\ id \in 1 .. made'
        BY <1>1, <1>2, <1>3, <1>11 DEF Types, Exchanged
      <3> QED BY <1>3, <2>1, <3>1, <3>2, <3>3
    <2> QED BY <1>3, <1>4, <1>5, <1>6, <1>7, <1>8, <1>9, <2>4, <2>5, <2>6, <2>7, <2>8 DEF Types
  <1> QED BY <1>10, <1>11

\* Every action keeps the types.
LEMMA TypesStep ==
    ASSUME DspInv, [Next]_vars
    PROVE  Types'
  <1> DEFINE Labels == {"idle", "obtain", "submit", "running", "free", "destroy"}
  <1>1. Types /\ Placed /\ Wired /\ Releasable /\ Borrowing
    BY DEF DspInv
  <1>2. /\ MaxIds \in Nat /\ MaxJobs \in Nat /\ MaxConns \in Nat /\ MaxCalls \in Nat
        /\ 1 .. made \subseteq Ids /\ held \subseteq 1 .. made
    BY <1>1, DspAssumption DEF Types, Ids
  <1>3. CASE UNCHANGED vars
    BY <1>1, <1>3 DEF vars, wire, daemon, objs, thr, hist, Types
  <1>4. ASSUME NEW t \in Threads, Begins(t)
        PROVE  Types'
    <2>1. PICK op \in {"job", "blend", "encode", "alloc", "import", "shared"},
               mode \in {"sync", "ref", "pending"}, borrowed \in SUBSET Ids, dst \in Ids \cup {0} :
               \E todos : Begin(t, op, mode, todos, borrowed, dst)
      BY <1>1, <1>4, BeginEffect
    <2>2. PICK todos : Begin(t, op, mode, todos, borrowed, dst)
      BY <2>1
    <2> DEFINE c == [op |-> op, mode |-> mode, given |-> dst # 0, borrowed |-> borrowed,
                     dst |-> dst, job |-> 0]
    <2>3. (dst # 0) \in BOOLEAN
      OBVIOUS
    <2>4. c \in Calls
      BY <2>3 DEF Calls
    <2>5. call' = [call EXCEPT ![t] = c]
      BY <2>2 DEF Begin
    <2> HIDE DEF c
    <2>6. call' \in [Threads -> Calls]
      BY <1>1, <2>4, <2>5 DEF Types
    <2>7. pc' \in [Threads -> Labels]
      BY <1>1, <2>2 DEF Begin, Types
    <2>8. calls' \in 0 .. MaxCalls
      BY <1>1, <1>2, <2>2 DEF Begin, Types
    <2> QED BY <1>1, <2>2, <2>6, <2>7, <2>8 DEF Begin, Types, wire, daemon, objs, hist
  <1>5. ASSUME NEW t \in Threads, Lets(t) \/ Copies(t)
        PROVE  Types'
    <2>1. own[t] \in Seq(Ids)
      BY <1>1 DEF Types
    <2>2. /\ pc' \in [Threads -> Labels] /\ own' \in [Threads -> Seq(Ids)]
          /\ call' \in [Threads -> Calls]
      <3>1. CASE Lets(t)
        BY <1>1, <2>1, <3>1, LeavesTypes DEF Lets
      <3>2. CASE Copies(t)
        BY <1>1, <3>2 DEF Copies, Types
      <3> QED BY <1>5, <3>1, <3>2
    <2> QED BY <1>1, <1>5, <2>2 DEF Lets, Copies, Types, wire, daemon, objs, hist
  <1>6. ASSUME NEW t \in Threads, Delivers(t)
        PROVE  Types'
    <2>1. call[t].job \in Jobs
      BY <1>1, <1>2, <1>6 DEF DspInv, CallsSound, ThreadSound, Delivers, Types, Jobs
    <2>2. /\ pc' \in [Threads -> Labels] /\ own' \in [Threads -> Seq(Ids)]
          /\ call' \in [Threads -> Calls] /\ out' \in [Jobs -> Outs]
      BY <1>1, <1>6, <2>1, HandsOverTypes DEF Delivers
    <2> QED BY <1>1, <1>6, <2>2 DEF Delivers, Types, wire, daemon, hist
  <1>7. ASSUME NEW t \in Threads, Accepted(t)
        PROVE  /\ jobs' \in 0 .. MaxJobs /\ jobs + 1 \in Jobs /\ running' \subseteq 1 .. jobs'
               /\ uses' \in [Jobs -> SUBSET Ids]
    <2>1. jobs + 1 \in Jobs /\ jobs' = jobs + 1 /\ jobs \in Nat
      BY <1>1, <1>2, <1>7 DEF Accepted, Types, Jobs
    <2>2. running' \subseteq 1 .. jobs'
      BY <1>1, <1>7, <2>1 DEF Accepted, Types
    <2>3. ToSet(own[t]) \subseteq Ids /\ call[t].borrowed \subseteq Ids
      BY <1>1, ListTypes DEF Types, Calls
    <2>4. uses' \in [Jobs -> SUBSET Ids]
      BY <1>1, <1>7, <2>3 DEF Accepted, Types
    <2> QED BY <1>2, <2>1, <2>2, <2>4 DEF Jobs
  <1>8. ASSUME NEW t \in Threads, SubmitSync(t)
        PROVE  Types'
    <2>1. /\ jobs' \in 0 .. MaxJobs /\ jobs + 1 \in Jobs /\ running' \subseteq 1 .. jobs'
          /\ uses' \in [Jobs -> SUBSET Ids] /\ UNCHANGED <<reg, home, made>>
      BY <1>7, <1>8 DEF SubmitSync, Accepted
    <2>2. [call[t] EXCEPT !.job = jobs + 1] \in Calls
      BY ZenonT(30), <1>1, <2>1 DEF Types, Calls
    <2>3. call' \in [Threads -> Calls]
      BY <1>1, <1>8, <2>2 DEF SubmitSync, Types
    <2>4. pc' \in [Threads -> Labels]
      BY <1>1, <1>8 DEF SubmitSync, Types
    <2> QED BY <1>1, <1>8, <2>1, <2>3, <2>4 DEF SubmitSync, Types, wire, objs, hist
  <1>9. ASSUME NEW t \in Threads, SubmitAsync(t)
        PROVE  Types'
    <2>1. /\ jobs' \in 0 .. MaxJobs /\ jobs + 1 \in Jobs /\ running' \subseteq 1 .. jobs'
          /\ uses' \in [Jobs -> SUBSET Ids] /\ UNCHANGED <<reg, home, made>>
      BY <1>7, <1>9 DEF SubmitAsync, Accepted
    <2>2. /\ pc' \in [Threads -> Labels] /\ own' \in [Threads -> Seq(Ids)]
          /\ call' \in [Threads -> Calls] /\ out' \in [Jobs -> Outs]
      BY <1>1, <1>9, <2>1, HandsOverTypes DEF SubmitAsync
    <2> QED BY <1>1, <1>9, <2>1, <2>2 DEF SubmitAsync, Types, wire, hist
  <1>10. ASSUME NEW t \in Threads, Free(t)
         PROVE  Types'
    <2>1. own[t] \in Seq(Ids) /\ own[t] # <<>>
      BY <1>1, <1>10 DEF DspInv, CallsSound, ThreadSound, Free, Types
    <2>2. Head(own[t]) \in ToSet(own[t]) /\ Tail(own[t]) \in Seq(Ids)
      BY <2>1, TailList, ListTypes
    <2>3. Head(own[t]) \in 1 .. made
      BY <1>1, <2>2, PlacedFacts
    <2> DEFINE i == Head(own[t])
    <2> DEFINE rest == Tail(own[t])
    <2>4. /\ own' = [own EXCEPT ![t] = rest]
          /\ pc' = [pc EXCEPT ![t] = AfterOwns(rest, @)]
          /\ UNCHANGED <<wire, home, made, running, uses, jobs, kind, held, out, call, todo,
                         calls, unheard, expired>>
          /\ \/ send_release(i) /\ forgotten' = forgotten
             \/ forgotten' = forgotten \cup {i} /\ UNCHANGED <<released, live, reg, stray>>
      BY <1>10 DEF Free
    <2> HIDE DEF i, rest
    <2>5. own' \in [Threads -> Seq(Ids)]
      BY <1>1, <2>2, <2>4 DEF Types, rest
    <2>6. pc' \in [Threads -> Labels]
      <3>1. pc[t] \in Labels /\ AfterOwns(rest, pc[t]) \in Labels
        BY <1>1 DEF AfterOwns, Types
      <3> QED BY <1>1, <2>4, <3>1 DEF Types
    <2>7. /\ reg' \in [Ids -> 0 .. conns] /\ released' \subseteq 1 .. made
          /\ live' \subseteq 1 .. made \ released' /\ forgotten' \subseteq 1 .. made
          /\ stray' \subseteq 1 .. made
      <3>1. i \in 1 .. made
        BY <2>3 DEF i
      <3> QED BY <1>1, <2>4, <3>1, ReleaseTypes DEF Types
    <2> QED BY <1>1, <2>4, <2>5, <2>6, <2>7 DEF Types, wire
  <1>11. ASSUME NEW t \in Threads, NEW j \in Jobs, ReleaseOut(t, j)
         PROVE  Types'
    <2>1. out[j] \in Outs
      BY <1>1 DEF Types
    <2>2. out[j].own \in Seq(Ids) /\ Emptied(out[j]) \in Outs
      <3>1. <<>> \in Seq(Ids)
        OBVIOUS
      <3> QED BY <2>1, <3>1 DEF Outs, Emptied
    <2>3. own' \in [Threads -> Seq(Ids)] /\ out' \in [Jobs -> Outs]
      BY <1>1, <1>11, <2>2 DEF ReleaseOut, Types
    <2>4. pc' \in [Threads -> Labels]
      <3>1. AfterOwns(out[j].own, "free") \in Labels
        BY DEF AfterOwns
      <3> QED BY <1>1, <1>11, <3>1 DEF ReleaseOut, Types
    <2> QED BY <1>1, <1>11, <2>3, <2>4 DEF ReleaseOut, Types, wire, daemon
  <1>12. ASSUME NEW i \in Ids, ReleaseHeld(i)
         PROVE  Types'
    <2>1. i \in 1 .. made /\ send_release(i)
      BY <1>2, <1>12 DEF ReleaseHeld
    <2>2. /\ reg' \in [Ids -> 0 .. conns] /\ released' \subseteq 1 .. made
          /\ live' \subseteq 1 .. made \ released' /\ stray' \subseteq 1 .. made
      BY <1>1, <2>1, ReleaseTypes
    <2>3. held' \subseteq 1 .. made
      BY <1>2, <1>12 DEF ReleaseHeld
    <2> QED BY <1>1, <1>12, <2>2, <2>3 DEF ReleaseHeld, Types, wire, thr
  <1>13. ASSUME NEW j \in Jobs, JobEnds(j)
         PROVE  Types'
    BY <1>1, <1>13 DEF JobEnds, Types, wire, objs, thr
  <1>14. ASSUME NEW j \in Jobs, Settles(j)
         PROVE  Types'
    <2>1. out \in [Jobs -> Outs] /\ out' = [out EXCEPT ![j].st = "done"]
      BY <1>1, <1>14 DEF Settles, Types
    <2>2. [out[j] EXCEPT !.st = "done"] \in Outs
      <3>1. out[j] \in Outs BY <2>1
      <3> QED BY <3>1 DEF Outs
    <2>3. out' \in [Jobs -> Outs] BY <2>1, <2>2
    <2> QED BY <1>1, <1>14, <2>3 DEF Settles, Types, wire, daemon, thr
  <1>15. CASE close
    <2>1. /\ released' \subseteq 1 .. made /\ live' \subseteq 1 .. made \ released'
          /\ conn' \in 0 .. conns /\ reg' \in [Ids -> 0 .. conns] /\ status' = "ok"
      BY <1>1, <1>2, <1>15 DEF close, Types, DeadPools
    <2>2. late' \in Seq(0 .. made)
      <3>1. <<>> \in Seq(0 .. made)
        OBVIOUS
      <3> QED BY <1>15, <3>1 DEF close
    <2> QED BY <1>1, <1>15, <2>1, <2>2 DEF close, Types, thr, hist
  <1>16. CASE DaemonGone
    <2>1. reg' \in [Ids -> 0 .. conns]
      BY <1>1, <1>2, <1>16 DEF DaemonGone, Types
    <2>2. late' \in Seq(0 .. made)
      <3>1. <<>> \in Seq(0 .. made)
        OBVIOUS
      <3> QED BY <1>16, <3>1 DEF DaemonGone
    <2> QED BY <1>1, <1>16, <2>1, <2>2 DEF DaemonGone, Types, objs, thr, hist
  <1> QED BY <1>1, <1>3, <1>4, <1>5, <1>6, <1>8, <1>9, <1>10, <1>11, <1>12, <1>13, <1>14,
             <1>15, <1>16, NextCases, ExchangeTypes

-----------------------------------------------------------------------------
(* Placed *)

\* A place whose list is left alone holds what it held.
LEMMA AtUnchanged ==
    ASSUME NEW x \in Places,
           \A u \in Threads : x = <<"thread", u>> => own'[u] = own[u],
           \A j \in Jobs : x = <<"object", j>> => out'[j].own = out[j].own,
           x = <<"stream", 0>> => late' = late,
           x = <<"app", 0>> => held' = held,
           x = <<"nobody", 0>> => forgotten' = forgotten /\ unheard' = unheard
    PROVE  At(x)' = At(x)
  <1>1. CASE \E u \in Threads : x = <<"thread", u>>
    <2>1. PICK u \in Threads : x = <<"thread", u>>
      BY <1>1
    <2>2. own'[u] = own[u] /\ At(<<"thread", u>>) = ToSet(own[u])
          /\ At(<<"thread", u>>)' = ToSet(own'[u])
      BY <2>1, AtFacts
    <2> QED BY <2>1, <2>2
  <1>2. CASE \E j \in Jobs : x = <<"object", j>>
    <2>1. PICK j \in Jobs : x = <<"object", j>>
      BY <1>2
    <2>2. out'[j].own = out[j].own /\ At(<<"object", j>>) = ToSet(out[j].own)
          /\ At(<<"object", j>>)' = ToSet(out'[j].own)
      BY <2>1, AtFacts
    <2> QED BY <2>1, <2>2
  <1>3. CASE x = <<"stream", 0>>
    BY <1>3, AtFacts
  <1>4. CASE x = <<"app", 0>>
    BY <1>4, AtFacts
  <1>5. CASE x = <<"nobody", 0>>
    BY <1>5, AtFacts
  <1> QED BY <1>1, <1>2, <1>3, <1>4, <1>5, PlaceFacts

\* A buffer stays where it is, or nowhere once the daemon has given it up; or
\* it is at y afterwards and only there.
Stays(i) ==
    /\ \A x \in Places : i \in At(x)' => i \in At(x)
    /\ i \in Ids /\ reg'[i] # 0 => reg[i] # 0 /\ \A x \in Places : i \in At(x) => i \in At(x)'
Moves(i, y) ==
    y \in Places /\ i \in 1 .. made' /\ \A x \in Places : i \in At(x)' <=> x = y

\* If every buffer stays or moves to one place, no buffer is in two.
LEMMA LocatedStep ==
    ASSUME Located, 1 .. made \subseteq 1 .. made',
           \A i : Stays(i) \/ \E y : Moves(i, y)
    PROVE  Located'
  <1>1. ASSUME NEW x \in Places, NEW i \in At(x)'
        PROVE  i \in 1 .. made'
    BY <1>1 DEF Located, Stays, Moves
  <1>2. ASSUME NEW x \in Places, NEW y \in Places, x # y, NEW i \in At(x)', i \in At(y)'
        PROVE  FALSE
    BY <1>2 DEF Located, Stays, Moves
  <1>3. ASSUME NEW i \in Ids, reg'[i] # 0
        PROVE  \E x \in Places : i \in At(x)'
    BY <1>3 DEF Located, Stays, Moves
  <1>4. Places' = Places /\ Ids' = Ids
    BY DEF Places, Ids, Jobs
  <1> QED BY <1>1, <1>2, <1>3, <1>4 DEF Located

\* The buffers B leave a place, for another one or for good.
LEMMA Shift ==
    ASSUME Located, made' = made,
           NEW from \in Places, NEW to \in Places, from # to, NEW B, B \subseteq At(from),
           At(from)' = At(from) \ B,
           \/ At(to)' = At(to) \cup B
           \/ At(to)' = At(to) /\ \A i \in B \cap Ids : reg'[i] = 0,
           \A x \in Places : x # from /\ x # to => At(x)' = At(x),
           \A i \in Ids : reg'[i] # 0 => reg[i] # 0
    PROVE  Located'
  <1>1. ASSUME NEW i, i \notin B
        PROVE  Stays(i)
    BY <1>1 DEF Stays
  <1>2. ASSUME NEW i \in B, At(to)' = At(to) \cup B
        PROVE  Moves(i, to)
    <2>1. i \in 1 .. made' /\ \A x \in Places : x # from => i \notin At(x)
      BY <1>2 DEF Located
    <2> QED BY <1>2, <2>1 DEF Moves
  <1>3. ASSUME NEW i \in B, At(to)' = At(to), \A b \in B \cap Ids : reg'[b] = 0
        PROVE  Stays(i)
    BY <1>3 DEF Stays
  <1> QED BY <1>1, <1>2, <1>3, LocatedStep

\* Nothing moves, and the daemon at most gives buffers up.
LEMMA NoShift ==
    ASSUME Located, made' = made, \A x \in Places : At(x)' = At(x),
           \A i \in Ids : reg'[i] # 0 => reg[i] # 0
    PROVE  Located'
  <1>1. \A i : Stays(i)
    BY DEF Stays
  <1> QED BY <1>1, LocatedStep

\* A released buffer is one the daemon has given up.
LEMMA ReleaseEffect ==
    ASSUME Types, Wired, NEW i \in 1 .. made, send_release(i)
    PROVE  /\ reg' = [reg EXCEPT ![i] = 0] /\ i \in Ids
           /\ stray' \subseteq stray \cup {i}
           /\ i \in stray' => i \in stray \/ (reg[i] = 0 /\ conn # 0 /\ ~Spent(i) /\ status # "dead")
           /\ released' = released \cup {i} /\ live' = live \ {i}
  <1>1. i \in Ids /\ reg \in [Ids -> 0 .. conns]
    BY DspAssumption DEF Types, Ids
  <1>2. CASE conn = 0 \/ status = "dead" \/ Spent(i)
    <2>1. reg[i] = 0
      BY <1>1, <1>2 DEF Wired, Spent
    <2> QED BY <1>1, <1>2, <2>1 DEF send_release
  <1>3. CASE ~(conn = 0 \/ status = "dead" \/ Spent(i))
    <2>1. reg[i] = conn \/ reg[i] = 0
      BY <1>1 DEF Wired
    <2> QED BY <1>1, <1>3, <2>1 DEF send_release
  <1> QED BY <1>2, <1>3

\* An exchange leaves no buffer in two places.
LEMMA ExchangePlaces ==
    ASSUME Types, Placed, NEW t \in Threads, Exchange(t)
    PROVE  Placed'
  <1>1. PICK n \in {0, made + 1}, id \in 0 .. made' :
            /\ Exchanged(t) /\ Minted(n) /\ Streams(n, id)
            /\ ((id = 0 /\ ExchangeThrows(t)) \/ (id # 0 /\ Obtained(t, id)))
    BY ExchangeEffect
  <1> DEFINE th == <<"thread", t>>
  <1> DEFINE st == <<"stream", 0>>
  <1> DEFINE ap == <<"app", 0>>
  <1> DEFINE no == <<"nobody", 0>>
  <1> DEFINE got == IF id = 0 THEN {} ELSE {id}
  <1>2. /\ made \in Nat /\ made' \in Nat /\ made <= made' /\ 1 .. made \subseteq 1 .. made'
        /\ (n # 0 => n = made + 1 /\ n \in 1 .. made' /\ n \notin 1 .. made)
        /\ (id # 0 => id \in 1 .. made' /\ id \in Ids)
    <2>1. MaxIds \in Nat /\ made \in 0 .. MaxIds
      BY DspAssumption DEF Types
    <2> QED BY <1>1, <2>1 DEF Minted, Ids
  <1>3. th \in Places /\ st \in Places /\ ap \in Places /\ no \in Places
    BY PlaceFacts
  <1>4. \A i \in Ids : i # n => reg'[i] = reg[i]
    BY <1>1 DEF Minted, Types
  <1>5. /\ At(st) = ToSet(late) \ {0} /\ At(st)' = ToSet(late') \ {0}
        /\ At(no) = forgotten \cup unheard /\ At(no)' = forgotten \cup unheard'
        /\ At(th) = ToSet(own[t]) /\ At(th)' = ToSet(own'[t])
        /\ At(ap) = held /\ At(ap)' = held'
    <2>1. forgotten' = forgotten
      BY <1>1 DEF Exchanged
    <2> QED BY <2>1, AtFacts
  <1>6. own[t] \in Seq(Ids) /\ Once(own[t]) /\ Once(late) /\ Located
        /\ ToSet(own[t]) \subseteq 1 .. made
    BY PlacedFacts DEF Types, Placed
  <1>7. \/ /\ id = 0 /\ own' = own /\ held' = held
        \/ /\ id # 0 /\ held' = held
           /\ own' = [own EXCEPT ![t] = Append(own[t], id)]
        \/ /\ id # 0 /\ held' = held \cup At(th) \cup {id}
           /\ own' = [own EXCEPT ![t] = <<>>]
    <2>1. CASE id = 0 /\ ExchangeThrows(t)
      BY <2>1, ThrowsEffect DEF Leaves, Types
    <2>2. CASE id # 0 /\ Obtained(t, id)
      <3>1. Keeps(t, id) \/ Gives(t, id)
        BY <1>2, <2>2, ObtainedEffect
      <3> QED BY <1>5, <2>2, <3>1 DEF Keeps, Gives
    <2> QED BY <1>1, <2>1, <2>2
  <1>8. \/ /\ At(th)' = At(th) \cup got /\ At(ap)' = At(ap)
        \/ /\ id # 0 /\ At(th)' = {} /\ At(ap)' = At(ap) \cup At(th) \cup got
    <2>1. CASE id = 0 /\ own' = own /\ held' = held
      BY <1>5, <2>1
    <2>2. CASE id # 0 /\ held' = held /\ own' = [own EXCEPT ![t] = Append(own[t], id)]
      <3>1. own'[t] = Append(own[t], id)
        BY <2>2 DEF Types
      <3>2. ToSet(Append(own[t], id)) = ToSet(own[t]) \cup {id}
        BY <1>2, <1>6, <2>2, AppendList
      <3> QED BY <1>5, <2>2, <3>1, <3>2
    <2>3. CASE /\ id # 0 /\ held' = held \cup At(th) \cup {id}
               /\ own' = [own EXCEPT ![t] = <<>>]
      <3>1. own'[t] = <<>>
        BY <2>3 DEF Types
      <3> QED BY <1>5, <2>3, <3>1, EmptyList
    <2> QED BY <1>7, <2>1, <2>2, <2>3
  <1>9. \A x \in Places : x \notin {th, st, ap, no} => At(x)' = At(x)
    <2>1. \A u \in Threads : u # t => own'[u] = own[u]
      BY <1>7 DEF Types
    <2>2. out' = out
      BY <1>1 DEF Exchanged
    <2> SUFFICES ASSUME NEW x \in Places, x \notin {th, st, ap, no} PROVE At(x)' = At(x)
      OBVIOUS
    <2> QED BY <2>1, <2>2, AtUnchanged
  <1>10. /\ At(st)' \subseteq At(st) \cup ({n} \ {0}) /\ At(st) \subseteq At(st)' \cup got
         /\ got \cap At(st)' = {} /\ got \subseteq At(st) \cup {n}
         /\ At(no) \subseteq At(no)' /\ At(no)' \subseteq At(no) \cup ({n} \ {0})
         /\ n # 0 => /\ n \in At(st)' \/ n \in got \/ n \in At(no)'
                     /\ n \in got => n \notin At(st)' /\ n \notin unheard'
                     /\ n \in At(st)' => n \notin unheard'
    BY <1>1, <1>5, <1>6 DEF Streams
  <1>11. n # 0 => \A x \in Places : n \notin At(x)
    BY <1>2, <1>6 DEF Located
  <1>12. forgotten \subseteq At(no) /\ \A i : i \in At(no)' /\ i \notin At(no) => i \in unheard'
    BY <1>5
  <1>13. \A x, y \in Places : x # y => At(x) \cap At(y) = {}
    BY <1>6 DEF Located
  <1>14. th # st /\ th # ap /\ th # no /\ st # ap /\ st # no /\ ap # no
    OBVIOUS
  <1>15. 0 \notin At(st) /\ 0 \notin Ids /\ (id # 0 => got = {id}) /\ (id = 0 => got = {})
    BY <1>5 DEF Ids
  <1> HIDE DEF th, st, ap, no, got
  <1>16. ASSUME NEW i \in got
         PROVE  \E y : Moves(i, y)
    <2>1. i = id /\ id # 0
      BY <1>15, <1>16
    <2>2. i \notin At(st)' /\ i \notin At(no)'
      <3>1. CASE i = n
        BY <1>3, <1>10, <1>11, <1>12, <1>16, <2>1, <3>1
      <3>2. CASE i # n
        <4>1. i \in At(st)
          BY <1>10, <1>16, <3>2
        <4>2. i \notin At(no)
          BY <1>3, <1>13, <1>14, <4>1
        <4> QED BY <1>10, <1>16, <3>2, <4>2
      <3> QED BY <3>1, <3>2
    <2>3. \A x \in Places : x # st => i \notin At(x)
      BY <1>3, <1>10, <1>11, <1>13, <1>16, <2>1
    <2>4. CASE At(th)' = At(th) \cup got /\ At(ap)' = At(ap)
      <3>1. Moves(i, th)
        BY <1>2, <1>3, <1>9, <1>14, <1>16, <2>1, <2>2, <2>3, <2>4 DEF Moves
      <3> QED BY <3>1
    <2>5. CASE At(th)' = {} /\ At(ap)' = At(ap) \cup At(th) \cup got
      <3>1. Moves(i, ap)
        BY <1>2, <1>3, <1>9, <1>14, <1>16, <2>1, <2>2, <2>3, <2>5 DEF Moves
      <3> QED BY <3>1
    <2> QED BY <1>8, <2>4, <2>5
  <1>17. ASSUME NEW i, i = n, n # 0, n \notin got
         PROVE  \E y : Moves(i, y)
    <2>1. i \notin At(th)' /\ i \notin At(ap)'
      BY <1>3, <1>8, <1>11, <1>17
    <2>2. CASE n \in At(st)'
      <3>1. n \notin At(no)'
        BY <1>3, <1>10, <1>11, <1>12, <1>17, <2>2
      <3>2. Moves(i, st)
        BY <1>2, <1>3, <1>9, <1>11, <1>14, <1>17, <2>1, <2>2, <3>1 DEF Moves
      <3> QED BY <3>2
    <2>3. CASE n \notin At(st)' /\ n \in At(no)'
      <3>1. Moves(i, no)
        BY <1>2, <1>3, <1>9, <1>11, <1>14, <1>17, <2>1, <2>3 DEF Moves
      <3> QED BY <3>1
    <2> QED BY <1>10, <1>17, <2>2, <2>3
  <1>18. ASSUME NEW i, i # n \/ n = 0, i \notin got, i \in At(th), At(th)' = {},
                At(ap)' = At(ap) \cup At(th) \cup got
         PROVE  \E y : Moves(i, y)
    <2>1. \A x \in Places : x # th => i \notin At(x)
      BY <1>3, <1>13, <1>18
    <2>2. i \in 1 .. made'
      BY <1>2, <1>3, <1>6, <1>18 DEF Located
    <2>3. i \notin At(st)' /\ i \notin At(no)'
      BY <1>3, <1>10, <1>14, <1>18, <2>1
    <2>4. Moves(i, ap)
      BY <1>3, <1>9, <1>14, <1>18, <2>1, <2>2, <2>3 DEF Moves
    <2> QED BY <2>4
  <1>19. ASSUME NEW i, i # n \/ n = 0, i \notin got,
                (At(th)' = At(th) \cup got /\ At(ap)' = At(ap)) \/ i \notin At(th)
         PROVE  Stays(i)
    <2>1. i \in Ids => reg'[i] = reg[i]
      BY <1>4, <1>15, <1>19
    <2>2. i \in At(th)' <=> i \in At(th)
      BY <1>8, <1>19
    <2>3. i \in At(ap)' <=> i \in At(ap)
      BY <1>8, <1>19
    <2>4. i \in At(st)' <=> i \in At(st)
      BY <1>10, <1>19
    <2>5. i \in At(no)' <=> i \in At(no)
      BY <1>10, <1>19
    <2> QED BY <1>9, <2>1, <2>2, <2>3, <2>4, <2>5 DEF Stays
  <1>20. Located'
    BY <1>2, <1>6, <1>8, <1>16, <1>17, <1>18, <1>19, LocatedStep
  <1>21. \A u \in Threads : Once(own'[u])
    <2>1. \A u \in Threads : u # t => own'[u] = own[u]
      BY <1>7 DEF Types
    <2>2. Once(own'[t])
      <3>1. CASE id = 0 /\ own' = own
        BY <1>6, <3>1
      <3>2. CASE id # 0 /\ own' = [own EXCEPT ![t] = Append(own[t], id)]
        <4>1. id \notin ToSet(own[t])
          <5>1. id \notin At(th)
            BY <1>3, <1>10, <1>11, <1>13, <1>14, <1>15, <3>2
          <5> QED BY <5>1, <1>5 DEF th
        <4>2. own'[t] = Append(own[t], id)
          BY <3>2 DEF Types
        <4> QED BY <1>2, <1>6, <3>2, <4>1, <4>2, AppendList
      <3>3. CASE own' = [own EXCEPT ![t] = <<>>]
        <4>1. own'[t] = <<>>
          BY <3>3 DEF Types
        <4> QED BY <4>1, EmptyList
      <3> QED BY <1>7, <3>1, <3>2, <3>3
    <2> QED BY <2>1, <2>2 DEF Placed
  <1>22. Once(late') /\ \A j \in Jobs : Once(out'[j].own)
    BY <1>1, <1>6 DEF Streams, Exchanged, Placed
  <1> QED BY <1>20, <1>21, <1>22 DEF Placed, Jobs

\* The thread's owns become an object's, or the object's become the thread's.
LEMMA HandsOverPlaces ==
    ASSUME Types, Placed, NEW t \in Threads, NEW j \in Jobs, NEW form, NEW st,
           HandsOver(t, j, form, st), out[j] = NoOut,
           UNCHANGED <<reg, made, late, held, forgotten, unheard>>
    PROVE  Placed'
  <1> DEFINE th == <<"thread", t>>
  <1> DEFINE ob == <<"object", j>>
  <1>1. th \in Places /\ ob \in Places /\ th # ob /\ Located
    BY PlaceFacts DEF Placed
  <1>2. /\ own' = [own EXCEPT ![t] = <<>>]
        /\ out' = [out EXCEPT ![j] = [form |-> form, st |-> st, dst |-> call[t].dst, own |-> own[t]]]
    BY DEF HandsOver, Leaves
  <1>3. /\ own'[t] = <<>> /\ out'[j].own = own[t] /\ out[j].own = <<>>
        /\ \A u \in Threads : u # t => own'[u] = own[u]
        /\ \A k \in Jobs : k # j => out'[k].own = out[k].own
    BY <1>2 DEF Types, NoOut
  <1>4. At(th) = ToSet(own[t]) /\ At(th)' = {} /\ At(ob) = {} /\ At(ob)' = ToSet(own[t])
    BY <1>3, AtFacts, EmptyList
  <1>5. ASSUME NEW x \in Places, x # th, x # ob
        PROVE  At(x)' = At(x)
    BY <1>3, <1>5, AtUnchanged
  <1> HIDE DEF th, ob
  <1>6. Located'
    <2>1. At(th)' = At(th) \ At(th) /\ At(ob)' = At(ob) \cup At(th)
      BY <1>4
    <2> QED BY <1>1, <1>5, <2>1, Shift
  <1>7. Once(late') /\ (\A u \in Threads : Once(own'[u])) /\ \A k \in Jobs : Once(out'[k].own)
    BY <1>3, EmptyList DEF Placed
  <1> QED BY <1>6, <1>7 DEF Placed, Jobs

\* The release of an object leaves no buffer in two places.
LEMMA ReleaseOutPlaces ==
    ASSUME Types, Placed, CallsSound, NEW t \in Threads, NEW j \in Jobs, ReleaseOut(t, j)
    PROVE  Placed'
  <1> DEFINE th == <<"thread", t>>
  <1> DEFINE ob == <<"object", j>>
  <1>1. th \in Places /\ ob \in Places /\ th # ob /\ Located
    BY PlaceFacts DEF Placed
  <1>2. /\ own' = [own EXCEPT ![t] = out[j].own] /\ out' = [out EXCEPT ![j] = Emptied(@)]
        /\ UNCHANGED <<reg, made, late, held, forgotten, unheard>> /\ own[t] = <<>>
    BY DEF ReleaseOut, wire, daemon, CallsSound, ThreadSound
  <1>3. /\ own'[t] = out[j].own /\ out'[j].own = <<>>
        /\ \A u \in Threads : u # t => own'[u] = own[u]
        /\ \A k \in Jobs : k # j => out'[k].own = out[k].own
    <2>1. out[j] \in Outs /\ Emptied(out[j]).own = <<>>
      BY DEF Emptied, Types, Outs
    <2> QED BY <1>2, <2>1 DEF Types
  <1>4. At(th) = {} /\ At(th)' = ToSet(out[j].own) /\ At(ob) = ToSet(out[j].own) /\ At(ob)' = {}
    BY <1>2, <1>3, AtFacts, EmptyList
  <1>5. ASSUME NEW x \in Places, x # th, x # ob
        PROVE  At(x)' = At(x)
    BY <1>2, <1>3, <1>5, AtUnchanged
  <1> HIDE DEF th, ob
  <1>6. Located'
    <2>1. At(ob)' = At(ob) \ At(ob) /\ At(th)' = At(th) \cup At(ob)
      BY <1>4
    <2> QED BY <1>1, <1>2, <1>5, <2>1, Shift
  <1>7. Once(late') /\ (\A u \in Threads : Once(own'[u])) /\ \A k \in Jobs : Once(out'[k].own)
    BY <1>2, <1>3, EmptyList DEF Placed
  <1> QED BY <1>6, <1>7 DEF Placed, Jobs

\* Freeing a call's buffers leaves none in two places.
LEMMA FreePlaces ==
    ASSUME Types, Placed, Wired, CallsSound, NEW t \in Threads, Free(t)
    PROVE  Placed'
  <1> DEFINE i == Head(own[t])
  <1> DEFINE th == <<"thread", t>>
  <1> DEFINE no == <<"nobody", 0>>
  <1>1. own[t] \in Seq(Ids) /\ own[t] # <<>> /\ Once(own[t]) /\ 0 \notin Ids
    BY DEF CallsSound, ThreadSound, Free, Types, Placed, Ids
  <1>2. /\ i \in Ids /\ ToSet(own[t]) = ToSet(Tail(own[t])) \cup {i}
        /\ Once(Tail(own[t])) /\ i \notin ToSet(Tail(own[t]))
    BY <1>1, TailList
  <1>3. i \in 1 .. made
    BY <1>2, PlacedFacts
  <1>4. /\ own' = [own EXCEPT ![t] = Tail(own[t])]
        /\ UNCHANGED <<made, out, held, unheard, late>>
        /\ \/ reg' = [reg EXCEPT ![i] = 0] /\ forgotten' = forgotten
           \/ reg' = reg /\ forgotten' = forgotten \cup {i}
    BY <1>3, ReleaseEffect DEF Free, wire
  <1>5. own'[t] = Tail(own[t]) /\ \A u \in Threads : u # t => own'[u] = own[u]
    BY <1>4 DEF Types
  <1>6. /\ At(th) = ToSet(own[t]) /\ At(th)' = ToSet(Tail(own[t]))
        /\ At(no) = forgotten \cup unheard /\ At(no)' = forgotten' \cup unheard
    BY <1>4, <1>5, AtFacts
  <1>7. th \in Places /\ no \in Places /\ th # no /\ Located
    BY PlaceFacts DEF Placed
  <1>8. ASSUME NEW x \in Places, x # th, x # no
        PROVE  At(x)' = At(x)
    BY <1>4, <1>5, <1>8, AtUnchanged
  <1>9. \A b \in Ids : reg'[b] # 0 => reg[b] # 0
    BY <1>4 DEF Types
  <1>10. {i} \subseteq At(th) /\ At(th)' = At(th) \ {i}
    BY <1>2, <1>6
  <1>11. At(no)' = At(no) \cup {i} \/ (At(no)' = At(no) /\ \A b \in {i} \cap Ids : reg'[b] = 0)
    <2>1. CASE reg' = [reg EXCEPT ![i] = 0] /\ forgotten' = forgotten
      BY <1>2, <1>6, <2>1 DEF Types
    <2>2. CASE forgotten' = forgotten \cup {i}
      BY <1>6, <2>2
    <2> QED BY <1>4, <2>1, <2>2
  <1> HIDE DEF i, th, no
  <1>12. Located'
    BY <1>4, <1>7, <1>8, <1>9, <1>10, <1>11, Shift
  <1>13. Once(late') /\ (\A u \in Threads : Once(own'[u])) /\ \A k \in Jobs : Once(out'[k].own)
    BY <1>2, <1>4, <1>5 DEF Placed
  <1> QED BY <1>12, <1>13 DEF Placed, Jobs

\* Every action leaves no buffer in two places, and none nowhere.
LEMMA PlacedStep ==
    ASSUME DspInv, [Next]_vars
    PROVE  Placed'
  <1>1. Types /\ Placed /\ Wired /\ CallsSound /\ Borrowing /\ Located
    BY DEF DspInv, Placed
  <1>2. ASSUME UNCHANGED <<made, held, forgotten, unheard, late, own>>,
               \A j \in Jobs : out'[j].own = out[j].own,
               \A i \in Ids : reg'[i] # 0 => reg[i] # 0
        PROVE  Placed'
    <2>1. \A x \in Places : At(x)' = At(x)
      BY <1>2, AtUnchanged
    <2>2. Located'
      BY <1>1, <1>2, <2>1, NoShift
    <2> QED BY <1>1, <1>2, <2>2 DEF Placed, Jobs
  <1>3. CASE UNCHANGED vars
    BY <1>2, <1>3 DEF vars, wire, daemon, objs, thr, hist
  <1>4. ASSUME NEW t \in Threads, Begins(t)
        PROVE  Placed'
    <2>1. PICK op \in {"job", "blend", "encode", "alloc", "import", "shared"},
               mode \in {"sync", "ref", "pending"}, borrowed \in SUBSET Ids, dst \in Ids \cup {0} :
               \E todos : Begin(t, op, mode, todos, borrowed, dst)
      BY <1>1, <1>4, BeginEffect
    <2> QED BY <1>2, <2>1 DEF Begin, wire, daemon, objs, hist
  <1>5. ASSUME NEW t \in Threads, Lets(t) \/ Copies(t) \/ SubmitSync(t)
        PROVE  Placed'
    <2>1. own' = own
      BY <1>1, <1>5 DEF Lets, Leaves, Copies, SubmitSync, Types
    <2> QED BY <1>2, <1>5, <2>1 DEF Lets, Copies, SubmitSync, Accepted, wire, daemon, objs, hist
  <1>6. ASSUME NEW t \in Threads, Delivers(t)
        PROVE  Placed'
    <2>1. call[t].job \in Jobs /\ out[call[t].job] = NoOut
      <3>1. 1 .. jobs \subseteq Jobs
        BY <1>1, DspAssumption DEF Types, Jobs
      <3> QED BY <1>1, <1>6, <3>1 DEF CallsSound, ThreadSound, Delivers
    <2> QED BY <1>1, <1>6, <2>1, HandsOverPlaces DEF Delivers, wire, daemon, hist
  <1>7. ASSUME NEW t \in Threads, SubmitAsync(t)
        PROVE  Placed'
    <2>1. jobs + 1 \in Jobs /\ out[jobs + 1] = NoOut
      <3>1. jobs + 1 \in Jobs /\ jobs + 1 > jobs
        BY <1>1, <1>7, DspAssumption DEF SubmitAsync, Accepted, Types, Jobs
      <3> QED BY <1>1, <3>1 DEF CallsSound, ThreadSound
    <2> QED BY <1>1, <1>7, <2>1, HandsOverPlaces DEF SubmitAsync, Accepted, wire, hist
  <1>8. ASSUME NEW i \in Ids, ReleaseHeld(i)
        PROVE  Placed'
    <2> DEFINE ap == <<"app", 0>>
    <2> DEFINE no == <<"nobody", 0>>
    <2>1. i \in held /\ send_release(i) /\ held' = held \ {i} /\ i \in 1 .. made
          /\ UNCHANGED <<made, forgotten, unheard, late, own, out>>
      BY <1>1, <1>8 DEF ReleaseHeld, wire, thr, Types
    <2>2. reg' = [reg EXCEPT ![i] = 0]
      BY <1>1, <2>1, ReleaseEffect
    <2>3. /\ ap \in Places /\ no \in Places /\ ap # no /\ At(ap) = held /\ At(ap)' = held \ {i}
          /\ At(no)' = At(no)
      BY <2>1, PlaceFacts, AtFacts
    <2>4. ASSUME NEW x \in Places, x # ap, x # no
          PROVE  At(x)' = At(x)
      BY <2>1, <2>4, AtUnchanged
    <2>5. /\ \A b \in Ids : reg'[b] # 0 => reg[b] # 0
          /\ \A b \in {i} \cap Ids : reg'[b] = 0
      BY <1>1, <2>2 DEF Types
    <2>7. {i} \subseteq At(ap) /\ At(ap)' = At(ap) \ {i} /\ made' = made
      BY <2>1, <2>3
    <2> HIDE DEF ap, no
    <2>6. Located'
      BY <1>1, <2>3, <2>4, <2>5, <2>7, Shift
    <2> QED BY <1>1, <2>1, <2>6 DEF Placed, Jobs
  <1>9. ASSUME NEW j \in Jobs, JobEnds(j)
        PROVE  Placed'
    BY <1>2, <1>9 DEF JobEnds, wire, objs, thr
  <1>10. ASSUME NEW j \in Jobs, Settles(j)
         PROVE  Placed'
    <2>1. \A k \in Jobs : out'[k].own = out[k].own
      BY <1>1, <1>10 DEF Settles, Types, Outs
    <2> QED BY <1>2, <1>10, <2>1 DEF Settles, wire, daemon, thr
  <1>11. CASE close \/ DaemonGone
    <2> DEFINE sm == <<"stream", 0>>
    <2> DEFINE no == <<"nobody", 0>>
    <2>1. /\ late' = <<>> /\ UNCHANGED <<made, held, forgotten, unheard, own, out>>
          /\ reg' = [i \in Ids |-> IF reg[i] = conn THEN 0 ELSE reg[i]]
      BY <1>11 DEF close, DaemonGone, objs, thr, hist
    <2>2. /\ sm \in Places /\ no \in Places /\ sm # no /\ At(sm)' = {} /\ At(no)' = At(no)
      BY <2>1, PlaceFacts, AtFacts, EmptyList
    <2>3. ASSUME NEW x \in Places, x # sm, x # no
          PROVE  At(x)' = At(x)
      BY <2>1, <2>3, AtUnchanged
    <2>4. \A i \in Ids : reg'[i] = 0
      BY <1>1, <2>1 DEF Wired
    <2> HIDE DEF sm, no
    <2>5. At(sm)' = At(sm) \ At(sm)
      BY <2>2
    <2>6. Located'
      BY <1>1, <2>1, <2>2, <2>3, <2>4, <2>5, Shift
    <2> QED BY <1>1, <2>1, <2>6, EmptyList DEF Placed, Jobs
  <1> QED BY <1>1, <1>3, <1>4, <1>5, <1>6, <1>7, <1>8, <1>9, <1>10, <1>11, NextCases,
             ExchangePlaces, ReleaseOutPlaces, FreePlaces

-----------------------------------------------------------------------------
(* Wired and StrayOnlyImports *)

\* A release leaves the wire sound, and what it releases on the wrong
\* connection is an import of an earlier one.
LEMMA ReleaseSound ==
    ASSUME Types, Wired, Releasable, StrayOnlyImports, NEW i \in 1 .. made, InHands(i),
           send_release(i), UNCHANGED <<wire, home, made, kind>>
    PROVE  Wired' /\ StrayOnlyImports'
  <1>1. /\ reg' = [reg EXCEPT ![i] = 0] /\ i \in Ids
        /\ stray' \subseteq stray \cup {i}
        /\ i \in stray' => i \in stray \/ (reg[i] = 0 /\ conn # 0 /\ ~Spent(i) /\ status # "dead")
        /\ released' = released \cup {i}
    BY ReleaseEffect
  <1>2. Wired'
    BY <1>1 DEF wire, Wired, Types, Ids
  <1>3. ASSUME i \in stray', i \notin stray
        PROVE  IsImport(i) /\ home[i] < conns
    <2>1. reg[i] = 0 /\ conn # 0 /\ ~Spent(i) /\ status # "dead"
      BY <1>1, <1>3
    <2>2. home[i] # conn
      BY <1>1, <2>1 DEF Releasable
    <2>3. ~IsPool(i)
      BY <1>1, <2>1, <2>2 DEF Releasable, Spent
    <2>4. conn = conns /\ home[i] \in 0 .. conns /\ conns \in Nat /\ kind[i] \in {"pool", "import"}
      BY <1>1, <2>1, DspAssumption DEF Wired, Types
    <2> QED BY <2>2, <2>3, <2>4 DEF IsPool, IsImport
  <1>4. StrayOnlyImports'
    BY <1>1, <1>3 DEF wire, StrayOnlyImports, IsImport
  <1> QED BY <1>2, <1>4

\* An exchange registers buffers on the present connection only.
LEMMA ExchangeWired ==
    ASSUME Types, Wired, StrayOnlyImports, NEW t \in Threads, Exchange(t)
    PROVE  Wired' /\ StrayOnlyImports'
  <1>1. PICK n \in {0, made + 1}, id \in 0 .. made' :
            Exchanged(t) /\ Minted(n) /\ Streams(n, id)
    BY ExchangeEffect
  <1>2. /\ made \in Nat /\ conns \in Nat /\ conn \in 0 .. conns /\ MaxIds \in Nat
        /\ released \subseteq 1 .. made /\ stray \subseteq 1 .. made
        /\ made + 1 \notin released /\ made + 1 \notin stray
    BY DspAssumption DEF Types
  <1>3. /\ released' = released /\ stray' = stray /\ conns <= conns'
        /\ \/ conn' = conn /\ conns' = conns
           \/ conn = 0 /\ conn' = conns + 1 /\ conns' = conns + 1
        /\ status' = status \/ (status # "dead" /\ status' = "desync" /\ conn' # 0)
    BY <1>1, <1>2 DEF Exchanged
  <1>4. (conn' # 0 => conn' = conns') /\ (conn' = 0 => status' = "ok")
    BY <1>2, <1>3 DEF Wired
  <1>5. CASE n = 0
    <2>1. reg' = reg /\ made' = made /\ home' = home /\ kind' = kind
      BY <1>1, <1>2, <1>5 DEF Minted
    <2>2. Wired'
      BY <1>2, <1>3, <1>4, <2>1 DEF Wired, Ids
    <2>3. StrayOnlyImports'
      <3>1. \A i \in stray : home[i] < conns => home[i] < conns'
        <4>1. stray \subseteq Ids
          BY <1>2, DspAssumption DEF Types, Ids
        <4> QED BY <1>2, <1>3, <4>1 DEF Types
      <3> QED BY <1>3, <2>1, <3>1 DEF StrayOnlyImports, IsImport
    <2> QED BY <2>2, <2>3
  <1>6. CASE n = made + 1
    <2>1. /\ n \in Ids /\ made' = n /\ status' # "dead"
          /\ reg' = [reg EXCEPT ![n] = conn'] /\ home' = [home EXCEPT ![n] = conn']
          /\ \E k \in {"pool", "import"} : kind' = [kind EXCEPT ![n] = k]
      BY <1>1, <1>2, <1>6 DEF Minted
    <2>2. ASSUME NEW i \in Ids, reg'[i] # 0
          PROVE  reg'[i] = conn' /\ status' # "dead" /\ i \notin released' /\ i <= made'
      <3>1. CASE i = n
        BY <1>2, <1>3, <1>6, <2>1, <2>2, <3>1 DEF Types
      <3>2. CASE i # n
        <4>1. reg[i] # 0 /\ reg'[i] = reg[i]
          BY <2>1, <2>2, <3>2 DEF Types
        <4>2. reg[i] = conn /\ i \notin released /\ i <= made
          BY <4>1 DEF Wired
        <4> QED BY <1>2, <1>3, <1>6, <2>1, <4>1, <4>2 DEF Ids
      <3> QED BY <3>1, <3>2
    <2>3. Wired'
      BY <1>4, <2>2 DEF Wired, Ids
    <2>4. ASSUME NEW i \in stray
          PROVE  IsImport(i)' /\ home'[i] < conns'
      <3>1. i # n /\ i \in Ids /\ home[i] \in 0 .. conns
        BY <1>2, <1>6, DspAssumption DEF Types, Ids
      <3>2. home'[i] = home[i] /\ kind'[i] = kind[i]
        BY <2>1, <3>1 DEF Types
      <3>3. kind[i] = "import" /\ home[i] < conns
        BY DEF StrayOnlyImports, IsImport
      <3> QED BY <1>2, <1>3, <3>1, <3>2, <3>3 DEF IsImport
    <2>5. StrayOnlyImports'
      BY <1>3, <2>4 DEF StrayOnlyImports
    <2> QED BY <2>3, <2>5
  <1> QED BY <1>5, <1>6

\* Every action leaves what is registered on the present connection.
LEMMA WiredStep ==
    ASSUME DspInv, [Next]_vars
    PROVE  Wired' /\ StrayOnlyImports'
  <1>1. /\ Types /\ Placed /\ Wired /\ Releasable /\ CallsSound /\ Borrowing /\ StrayOnlyImports
        /\ held \subseteq 1 .. made
    BY DEF DspInv, Types
  <1>2. ASSUME UNCHANGED <<wire, reg, made, released, stray, home, kind>>
        PROVE  Wired' /\ StrayOnlyImports'
    BY <1>1, <1>2 DEF wire, Wired, StrayOnlyImports, IsImport, Ids
  <1>3. CASE UNCHANGED vars
    BY <1>2, <1>3 DEF vars, wire, daemon, objs, thr, hist
  <1>4. ASSUME NEW t \in Threads, Begins(t)
        PROVE  Wired' /\ StrayOnlyImports'
    <2>1. PICK op \in {"job", "blend", "encode", "alloc", "import", "shared"},
               mode \in {"sync", "ref", "pending"}, borrowed \in SUBSET Ids, dst \in Ids \cup {0} :
               \E todos : Begin(t, op, mode, todos, borrowed, dst)
      BY <1>1, <1>4, BeginEffect
    <2> QED BY <1>2, <2>1 DEF Begin, daemon, objs, hist
  <1>5. ASSUME NEW t \in Threads,
               Lets(t) \/ Copies(t) \/ Delivers(t) \/ SubmitSync(t) \/ SubmitAsync(t)
        PROVE  Wired' /\ StrayOnlyImports'
    BY <1>2, <1>5 DEF Lets, Copies, Delivers, SubmitSync, SubmitAsync, Accepted, daemon, objs, hist
  <1>6. ASSUME NEW j \in Jobs, JobEnds(j) \/ Settles(j) \/ \E t \in Threads : ReleaseOut(t, j)
        PROVE  Wired' /\ StrayOnlyImports'
    BY <1>2, <1>6 DEF JobEnds, Settles, ReleaseOut, daemon, objs
  <1>7. ASSUME NEW i \in Ids, ReleaseHeld(i)
        PROVE  Wired' /\ StrayOnlyImports'
    <2>1. i \in 1 .. made /\ InHands(i) /\ send_release(i) /\ UNCHANGED <<wire, home, made, kind>>
      BY <1>1, <1>7 DEF ReleaseHeld, InHands
    <2> QED BY <1>1, <2>1, ReleaseSound
  <1>8. ASSUME NEW t \in Threads, Free(t)
        PROVE  Wired' /\ StrayOnlyImports'
    <2>1. own[t] \in Seq(Ids) /\ own[t] # <<>>
      BY <1>1, <1>8 DEF CallsSound, ThreadSound, Free, Types
    <2>2. Head(own[t]) \in ToSet(own[t])
      BY <2>1, ListTypes
    <2>3. Head(own[t]) \in 1 .. made /\ InHands(Head(own[t]))
      BY <1>1, <2>2, PlacedFacts DEF InHands
    <2>4. CASE send_release(Head(own[t]))
      BY <1>1, <1>8, <2>3, <2>4, ReleaseSound DEF Free
    <2>5. CASE UNCHANGED <<released, live, reg, stray>>
      BY <1>2, <1>8, <2>5 DEF Free
    <2> QED BY <1>8, <2>4, <2>5 DEF Free
  <1>9. CASE close \/ DaemonGone
    <2>1. \A i \in Ids : reg'[i] = 0
      BY <1>1, <1>9 DEF close, DaemonGone, Wired
    <2>2. (conn' # 0 => conn' = conns') /\ (conn' = 0 => status' = "ok")
      BY <1>1, <1>9 DEF close, DaemonGone, Wired
    <2>3. stray' = stray /\ kind' = kind /\ home' = home /\ conns' = conns
      BY <1>9 DEF close, DaemonGone, hist, objs
    <2> QED BY <1>1, <2>1, <2>2, <2>3 DEF Wired, StrayOnlyImports, IsImport, Ids
  <1> QED BY <1>1, <1>3, <1>4, <1>5, <1>6, <1>7, <1>8, <1>9, NextCases, ExchangeWired

-----------------------------------------------------------------------------
(* Releasable *)

\* What Releasable says of a buffer.
Usable(i) ==
    /\ IsPool(i) => i \in live \/ i \in released
    /\ IsPool(i) /\ home[i] # conn => i \in released
    /\ conn # 0 /\ home[i] = conn /\ status # "dead" => reg[i] = conn
    /\ home[i] # 0
Arriving(i) ==
    IsImport(i) /\ conn # 0 /\ home[i] = conn /\ reg[i] = conn /\ status # "dead"

\* Releasable, said of one buffer at a time.
LEMMA ReleasableMeans ==
    /\ Releasable <=> (\A i \in Ids : InHands(i) => Usable(i))
                      /\ (\A i \in ToSet(late) \ {0} : Arriving(i))
    /\ Releasable' <=> (\A i \in Ids : InHands(i)' => Usable(i)')
                      /\ (\A i \in ToSet(late') \ {0} : Arriving(i)')
  BY DEF Releasable, Usable, Arriving, IsPool, IsImport, Ids

\* Nothing comes into the client's hands, and what stays there is as it was.
LEMMA HandsShrink ==
    ASSUME Types, Releasable, UNCHANGED <<wire, home, kind>>,
           NEW B, reg' \in [Ids -> Nat], \A i \in Ids \ B : reg'[i] = reg[i],
           live \subseteq live' \cup B, released \subseteq released',
           \A i \in Ids : InHands(i)' => InHands(i) /\ i \notin B,
           ToSet(late) \cap B = {}
    PROVE  Releasable'
  <1>1. ASSUME NEW i \in Ids, InHands(i)'
        PROVE  Usable(i)'
    <2>1. InHands(i) /\ i \notin B
      BY <1>1
    <2>2. Usable(i)
      BY <2>1, ReleasableMeans
    <2> QED BY <2>1, <2>2 DEF Usable, IsPool, wire
  <1>2. ASSUME NEW i \in ToSet(late') \ {0}
        PROVE  Arriving(i)'
    <2>1. i \in ToSet(late) \ {0}
      BY <1>2 DEF wire
    <2>2. ToSet(late) \subseteq 0 .. made /\ 1 .. made \subseteq Ids /\ made \in Nat
      BY ListTypes, DspAssumption DEF Types, Ids
    <2>3. i \in Ids \ B
      BY <2>1, <2>2
    <2>4. Arriving(i)
      BY <2>1, ReleasableMeans
    <2> QED BY <2>3, <2>4 DEF Arriving, IsImport, wire
  <1> QED BY <1>1, <1>2, ReleasableMeans

\* An exchange leaves every buffer in hand releasable.
LEMMA ExchangeReleasable ==
    ASSUME Types, Placed, Wired, Releasable, NEW t \in Threads, Exchange(t)
    PROVE  Releasable'
  <1>1. PICK n \in {0, made + 1}, id \in 0 .. made' :
            /\ Exchanged(t) /\ Minted(n) /\ Streams(n, id)
            /\ ((id = 0 /\ ExchangeThrows(t)) \/ (id # 0 /\ Obtained(t, id)))
    BY ExchangeEffect
  <1>2. /\ made \in Nat /\ conns \in Nat /\ conn \in 0 .. conns /\ MaxIds \in Nat
        /\ 1 .. made \subseteq Ids /\ ToSet(late) \subseteq 0 .. made
        /\ (n # 0 => n = made + 1 /\ n \notin 1 .. made)
        /\ (id # 0 => id \in Ids)
        /\ released' = released /\ out' = out
        /\ ToSet(own[t]) \subseteq 1 .. made /\ held \subseteq 1 .. made
        /\ \A u \in Threads : ToSet(own[u]) \subseteq 1 .. made
        /\ \A j \in Jobs : ToSet(out[j].own) \subseteq 1 .. made
    <2>1. MaxIds \in Nat /\ made \in 0 .. MaxIds /\ conns \in Nat /\ conn \in 0 .. conns
      BY DspAssumption DEF Types
    <2>2. 1 .. made \subseteq Ids /\ ToSet(late) \subseteq 0 .. made
      BY <2>1, ListTypes DEF Types, Ids
    <2>3. n # 0 => n = made + 1 /\ n \notin 1 .. made
      BY <2>1
    <2>4. id # 0 => id \in Ids
      BY <1>1, <2>1 DEF Minted, Ids
    <2> QED BY <1>1, <2>1, <2>2, <2>3, <2>4, PlacedFacts DEF Exchanged
  <1>3. /\ \/ conn' = conn
           \/ conn = 0 /\ conn' = conns + 1
        /\ status' = status \/ (status # "dead" /\ status' = "desync" /\ conn' # 0)
    BY <1>1 DEF Exchanged
  <1>4. \A i \in Ids : i # n => reg'[i] = reg[i] /\ home'[i] = home[i] /\ kind'[i] = kind[i]
    BY <1>1 DEF Minted, Types
  <1>5. n # 0 => n \in Ids /\ reg'[n] = conn' /\ home'[n] = conn'
    BY <1>1, <1>2 DEF Minted, Types
  <1>6. live \subseteq live' /\ (id # 0 /\ kind'[id] = "pool" => id \in live')
    BY <1>1, <1>2, ObtainedEffect, ThrowsEffect
  <1>7. ASSUME NEW i \in Ids, i # n, Usable(i)
        PROVE  Usable(i)'
    <2>1. reg'[i] = reg[i] /\ home'[i] = home[i] /\ kind'[i] = kind[i]
      BY <1>4, <1>7
    <2>2. home[i] \in 0 .. conns
      BY DEF Types
    <2>3. CASE conn' = conn
      BY <1>2, <1>3, <1>6, <1>7, <2>1, <2>3 DEF Usable, IsPool
    <2>4. CASE conn = 0 /\ conn' = conns + 1
      <3>1. home[i] # conn /\ home[i] # conn'
        BY <1>2, <1>7, <2>2, <2>4 DEF Usable
      <3> QED BY <1>2, <1>6, <1>7, <2>1, <3>1 DEF Usable, IsPool
    <2> QED BY <1>3, <2>3, <2>4
  <1>8. ASSUME NEW i \in ToSet(late) \ {0}
        PROVE  /\ i # n /\ i \in Ids /\ reg'[i] = conn' /\ home'[i] = conn' /\ conn' # 0
               /\ kind'[i] = "import" /\ status' # "dead"
    <2>1. IsImport(i) /\ conn # 0 /\ home[i] = conn /\ reg[i] = conn /\ status # "dead"
      BY <1>8 DEF Releasable
    <2>2. i \in 1 .. made /\ i # n
      BY <1>2, <1>8
    <2> QED BY <1>2, <1>3, <1>4, <2>1, <2>2 DEF IsImport
  <1>9. ASSUME id # 0
        PROVE  Usable(id)'
    <2>1. CASE id \in ToSet(late)
      BY <1>8, <1>9, <2>1 DEF Usable, IsPool
    <2>2. CASE id = n
      <3>1. conn' # 0
        BY <1>1, <1>9, <2>2 DEF Streams
      <3> QED BY <1>5, <1>6, <1>9, <2>2, <3>1 DEF Usable, IsPool
    <2> QED BY <1>1, <1>9, <2>1, <2>2 DEF Streams
  <1>10. ASSUME NEW i \in Ids, InHands(i)'
         PROVE  i = id \/ InHands(i)
    <2>1. CASE \E j \in Jobs : i \in ToSet(out[j].own)
      BY <2>1 DEF InHands
    <2>2. CASE id = 0
      <3>1. own' = own /\ held' = held
        BY <1>1, <2>2, ThrowsEffect DEF Leaves, Types
      <3> QED BY <1>2, <1>10, <3>1 DEF InHands, Jobs
    <2>3. CASE id # 0 /\ Keeps(t, id)
      <3>1. /\ held' = held /\ own'[t] = Append(own[t], id)
            /\ \A u \in Threads : u # t => own'[u] = own[u]
        BY <2>3 DEF Keeps, Types
      <3>2. ToSet(own'[t]) = ToSet(own[t]) \cup {id}
        BY <1>2, <2>3, <3>1, AppendList DEF Types
      <3> QED BY <1>2, <1>10, <3>1, <3>2 DEF InHands, Jobs
    <2>4. CASE id # 0 /\ Gives(t, id)
      <3>1. /\ held' = held \cup ToSet(own[t]) \cup {id} /\ own'[t] = <<>>
            /\ \A u \in Threads : u # t => own'[u] = own[u]
        BY <2>4 DEF Gives, Types
      <3>2. ToSet(own'[t]) = {}
        BY <3>1, EmptyList
      <3> QED BY <1>2, <1>10, <3>1, <3>2 DEF InHands, Jobs
    <2> QED BY <1>1, <1>2, <2>2, <2>3, <2>4, ObtainedEffect
  <1>11. ASSUME NEW i \in Ids, InHands(i)
         PROVE  i # n
    BY <1>2, <1>11 DEF InHands
  <1>12. \A i \in Ids : InHands(i)' => Usable(i)'
    <2>1. \A i \in Ids : InHands(i) => Usable(i)
      BY ReleasableMeans
    <2>2. ASSUME NEW i \in Ids, InHands(i)'
          PROVE  Usable(i)'
      <3>1. CASE InHands(i)
        BY <1>7, <1>11, <2>1, <3>1
      <3>2. CASE i = id
        BY <1>9, <2>2, <3>2 DEF Ids
      <3> QED BY <1>10, <2>2, <3>1, <3>2
    <2> QED BY <2>2
  <1>13. ASSUME NEW i \in ToSet(late') \ {0}
         PROVE  Arriving(i)'
    <2>1. CASE i \in ToSet(late)
      BY <1>8, <2>1, <1>13 DEF Arriving, IsImport
    <2>2. CASE i = n
      <3>1. kind'[n] = "import" /\ conn' # 0 /\ status = "ok" /\ n # 0
        BY <1>1, <1>13, <2>2 DEF Streams
      <3> QED BY <1>3, <1>5, <2>2, <3>1 DEF Arriving, IsImport
    <2> QED BY <1>1, <1>13, <2>1, <2>2 DEF Streams
  <1> QED BY <1>12, <1>13, ReleasableMeans

\* Every action leaves every buffer in hand releasable.
LEMMA ReleasableStep ==
    ASSUME DspInv, [Next]_vars
    PROVE  Releasable'
  <1>1. /\ Types /\ Placed /\ Wired /\ Releasable /\ CallsSound /\ Borrowing /\ Types' /\ Placed'
        /\ held \subseteq 1 .. made
    BY TypesStep, PlacedStep DEF DspInv, Types
  <1>2. reg' \in [Ids -> Nat] /\ reg \in [Ids -> Nat]
    BY SMTT(30), <1>1, DspAssumption DEF Types, Ids
  <1>3. ASSUME UNCHANGED <<wire, reg, live, released, home, kind>>,
               \A i \in Ids : InHands(i)' => InHands(i)
        PROVE  Releasable'
    <2>1. ToSet(late) \cap {} = {} /\ live \subseteq live' \cup {}
          /\ \A i \in Ids \ {} : reg'[i] = reg[i]
      BY <1>3
    <2> QED BY <1>1, <1>2, <1>3, <2>1, HandsShrink
  <1>4. ASSUME own' = own, held' = held, \A j \in Jobs : out'[j].own = out[j].own
        PROVE  \A i \in Ids : InHands(i)' => InHands(i)
    BY <1>4 DEF InHands, Jobs
  <1>5. CASE UNCHANGED vars
    BY <1>3, <1>4, <1>5 DEF vars, wire, daemon, objs, thr, hist
  <1>6. ASSUME NEW t \in Threads, Begins(t)
        PROVE  Releasable'
    <2>1. PICK op \in {"job", "blend", "encode", "alloc", "import", "shared"},
               mode \in {"sync", "ref", "pending"}, borrowed \in SUBSET Ids, dst \in Ids \cup {0} :
               \E todos : Begin(t, op, mode, todos, borrowed, dst)
      BY <1>1, <1>6, BeginEffect
    <2> QED BY <1>3, <1>4, <2>1 DEF Begin, daemon, objs, hist
  <1>7. ASSUME NEW t \in Threads, Lets(t) \/ Copies(t) \/ SubmitSync(t)
        PROVE  Releasable'
    <2>1. own' = own /\ held' = held /\ out' = out
      BY <1>1, <1>7 DEF Lets, Leaves, Copies, SubmitSync, Types, objs
    <2>2. UNCHANGED <<wire, reg, live, released, home, kind>>
      BY <1>7 DEF Lets, Copies, SubmitSync, Accepted, daemon, objs
    <2> QED BY <1>3, <1>4, <2>1, <2>2
  <1>8. ASSUME NEW t \in Threads, NEW j \in Jobs, NEW form, NEW st, HandsOver(t, j, form, st),
               held' = held
        PROVE  \A i \in Ids : InHands(i)' => InHands(i)
    <2>1. /\ own'[t] = <<>> /\ out'[j].own = own[t]
          /\ \A u \in Threads : u # t => own'[u] = own[u]
          /\ \A k \in Jobs : k # j => out'[k].own = out[k].own
      BY <1>1, <1>8 DEF HandsOver, Leaves, Types
    <2>2. ToSet(own'[t]) = {}
      BY <2>1, EmptyList
    <2> QED BY <1>8, <2>1, <2>2 DEF InHands, Jobs
  <1>9. ASSUME NEW t \in Threads, Delivers(t)
        PROVE  Releasable'
    <2>1. call[t].job \in Jobs
      <3>1. 1 .. jobs \subseteq Jobs
        BY <1>1, DspAssumption DEF Types, Jobs
      <3> QED BY <1>1, <1>9, <3>1 DEF CallsSound, ThreadSound, Delivers
    <2> QED BY <1>3, <1>8, <1>9, <2>1 DEF Delivers, daemon
  <1>10. ASSUME NEW t \in Threads, SubmitAsync(t)
         PROVE  Releasable'
    <2>1. jobs + 1 \in Jobs
      BY <1>1, <1>10, DspAssumption DEF SubmitAsync, Accepted, Types, Jobs
    <2> QED BY <1>3, <1>8, <1>10, <2>1 DEF SubmitAsync, Accepted
  <1>11. ASSUME NEW t \in Threads, NEW j \in Jobs, ReleaseOut(t, j)
         PROVE  Releasable'
    <2>1. /\ own'[t] = out[j].own /\ out'[j].own = <<>> /\ held' = held
          /\ \A u \in Threads : u # t => own'[u] = own[u]
          /\ \A k \in Jobs : k # j => out'[k].own = out[k].own
      <3>1. out[j] \in Outs /\ Emptied(out[j]).own = <<>>
        BY <1>1 DEF Emptied, Types, Outs
      <3> QED BY <1>1, <1>11, <3>1 DEF ReleaseOut, Types
    <2>2. ToSet(out'[j].own) = {}
      BY <2>1, EmptyList
    <2>3. \A i \in Ids : InHands(i)' => InHands(i)
      BY <2>1, <2>2 DEF InHands, Jobs
    <2> QED BY <1>3, <1>11, <2>3 DEF ReleaseOut, daemon
  <1>12. ASSUME NEW j \in Jobs, JobEnds(j)
         PROVE  Releasable'
    BY <1>3, <1>4, <1>12 DEF JobEnds, objs, thr
  <1>13. ASSUME NEW j \in Jobs, Settles(j)
         PROVE  Releasable'
    <2>1. \A k \in Jobs : out'[k].own = out[k].own
      BY <1>1, <1>13 DEF Settles, Types, Outs
    <2> QED BY <1>3, <1>4, <1>13, <2>1 DEF Settles, daemon, thr
  <1>14. ASSUME NEW b \in 1 .. made, send_release(b), ~InHands(b)', InHands(b),
                UNCHANGED <<wire, home, kind>>, \A i \in Ids : InHands(i)' => InHands(i)
         PROVE  Releasable'
    <2>1. /\ reg' = [reg EXCEPT ![b] = 0] /\ released' = released \cup {b} /\ live' = live \ {b}
      BY <1>1, <1>14, ReleaseEffect
    <2>2. \A i \in Ids \ {b} : reg'[i] = reg[i]
      BY <1>1, <2>1 DEF Types
    <2>3. \A i \in Ids : InHands(i)' => InHands(i) /\ i \notin {b}
      BY <1>14
    <2>4. b \notin ToSet(late)
      <3>1. /\ <<"stream", 0>> \in Places /\ <<"app", 0>> \in Places
            /\ \A t \in Threads : <<"thread", t>> \in Places
            /\ \A j \in Jobs : <<"object", j>> \in Places
        BY PlaceFacts
      <3>2. PICK x \in Places : b \in At(x) /\ x # <<"stream", 0>>
        <4>1. CASE \E t \in Threads : b \in ToSet(own[t])
          <5>1. PICK t \in Threads : b \in ToSet(own[t])
            BY <4>1
          <5>2. <<"thread", t>> # <<"stream", 0>> /\ b \in At(<<"thread", t>>)
            BY <5>1, AtFacts
          <5> QED BY <3>1, <5>2
        <4>2. CASE \E j \in Jobs : b \in ToSet(out[j].own)
          <5>1. PICK j \in Jobs : b \in ToSet(out[j].own)
            BY <4>2
          <5>2. <<"object", j>> # <<"stream", 0>> /\ b \in At(<<"object", j>>)
            BY <5>1, AtFacts
          <5>3. <<"object", j>> \in Places
            BY <3>1
          <5> QED BY <5>2, <5>3
        <4>3. CASE b \in held
          BY <3>1, <4>3, AtFacts
        <4> QED BY <1>14, <4>1, <4>2, <4>3 DEF InHands
      <3>3. b \notin At(<<"stream", 0>>)
        BY <1>1, <3>1, <3>2 DEF Placed, Located
      <3> QED BY <3>3, AtFacts
    <2>5. live \subseteq live' \cup {b} /\ released \subseteq released' /\ ToSet(late) \cap {b} = {}
      BY <2>1, <2>4
    <2> QED BY <1>1, <1>2, <1>14, <2>2, <2>3, <2>5, HandsShrink
  <1>15. ASSUME NEW b \in Ids, ReleaseHeld(b)
         PROVE  Releasable'
    <2>1. /\ b \in 1 .. made /\ InHands(b) /\ b \in held /\ send_release(b) /\ held' = held \ {b}
          /\ UNCHANGED <<wire, home, kind, own, out>>
      BY <1>1, <1>15 DEF ReleaseHeld, InHands, thr
    <2>2. ~InHands(b)'
      BY <1>1, <2>1, PlacedFacts DEF InHands, Jobs
    <2>3. \A i \in Ids : InHands(i)' => InHands(i)
      BY <2>1 DEF InHands, Jobs
    <2> QED BY <1>14, <2>1, <2>2, <2>3
  <1>16. ASSUME NEW t \in Threads, Free(t)
         PROVE  Releasable'
    <2>1. own[t] \in Seq(Ids) /\ own[t] # <<>> /\ Once(own[t]) /\ 0 \notin Ids
      BY <1>1, <1>16 DEF CallsSound, ThreadSound, Free, Types, Placed, Ids
    <2>0. PICK b : b = Head(own[t])
      OBVIOUS
    <2>2. /\ b \in Ids /\ ToSet(own[t]) = ToSet(Tail(own[t])) \cup {b}
          /\ b \notin ToSet(Tail(own[t]))
      BY <2>0, <2>1, TailList
    <2>3. /\ own'[t] = Tail(own[t]) /\ \A u \in Threads : u # t => own'[u] = own[u]
          /\ UNCHANGED <<wire, home, kind, out, held>>
          /\ \/ send_release(b)
             \/ UNCHANGED <<released, live, reg, stray>>
      BY <1>1, <1>16, <2>0 DEF Free, Types
    <2>4. b \in 1 .. made /\ InHands(b)
      BY <1>1, <2>2, PlacedFacts DEF InHands
    <2>5. ~InHands(b)'
      <3>1. b \in ToSet(own[t]) /\ b \notin ToSet(own'[t])
        BY <2>2, <2>3
      <3>2. /\ \A u \in Threads : u # t => b \notin ToSet(own[u])
            /\ \A j \in Jobs : b \notin ToSet(out[j].own)
            /\ b \notin held
        BY <1>1, <3>1, PlacedFacts
      <3>3. \A u \in Threads : b \notin ToSet(own'[u])
        BY <2>3, <3>1, <3>2
      <3> QED BY <2>3, <3>2, <3>3 DEF InHands, Jobs
    <2>6. \A i \in Ids : InHands(i)' => InHands(i)
      BY <2>2, <2>3 DEF InHands, Jobs
    <2>7. CASE send_release(b)
      BY <1>14, <2>3, <2>4, <2>5, <2>6, <2>7
    <2>8. CASE UNCHANGED <<released, live, reg, stray>>
      BY <1>3, <2>3, <2>6, <2>8
    <2> QED BY <2>3, <2>7, <2>8
  <1>17. CASE close
    <2>1. /\ released' = released \cup live /\ live' = {} /\ conn' = 0
          /\ UNCHANGED <<home, kind, own, held, out>> /\ late' = <<>>
      BY <1>17 DEF close, DeadPools, thr
    <2>2. \A i \in Ids : InHands(i)' => InHands(i)
      BY <2>1 DEF InHands, Jobs
    <2>3. \A i \in Ids : Usable(i) => Usable(i)'
      BY <2>1 DEF Usable, IsPool
    <2> QED BY <1>1, <2>1, <2>2, <2>3, EmptyList, ReleasableMeans
  <1>18. CASE DaemonGone
    <2>1. status' = "dead" /\ late' = <<>> /\ UNCHANGED <<conn, home, objs, thr>>
      BY <1>18 DEF DaemonGone
    <2>2. \A i \in Ids : InHands(i)' => InHands(i)
      BY <2>1 DEF InHands, Jobs, objs, thr
    <2>3. \A i \in Ids : Usable(i) => Usable(i)'
      BY <2>1 DEF Usable, IsPool, objs
    <2> QED BY <1>1, <2>1, <2>2, <2>3, EmptyList, ReleasableMeans
  <1> QED BY <1>1, <1>5, <1>6, <1>7, <1>9, <1>10, <1>11, <1>12, <1>13, <1>15, <1>16, <1>17,
             <1>18, NextCases, ExchangeReleasable

-----------------------------------------------------------------------------
(* CallsSound *)

\* A thread that does nothing: its call is sound unless its pool or its job's
\* place is taken from it.
LEMMA OtherSound ==
    ASSUME NEW u, ThreadSound(u), own'[u] = own[u], pc'[u] = pc[u], call'[u] = call[u],
           jobs \in Nat, jobs' \in Nat, jobs <= jobs',
           call[u].given => call[u].dst \in held',
           pc[u] = "running" => out'[call[u].job] = NoOut
    PROVE  ThreadSound(u)'
  <1>1. call[u].job \in 1 .. jobs => call[u].job \in 1 .. jobs'
    OBVIOUS
  <1> QED BY <1>1 DEF ThreadSound

\* A thread that leaves a call leaves nothing of it behind.
LEMMA LeavesSound ==
    ASSUME Types, NEW t \in Threads, NEW owns, NEW label \in {"free", "destroy"},
           Leaves(t, owns, label)
    PROVE  /\ ThreadSound(t)' /\ pc'[t] # "running"
           /\ \A u \in Threads : u # t => pc'[u] = pc[u] /\ own'[u] = own[u] /\ call'[u] = call[u]
  <1>1. /\ pc'[t] = AfterOwns(owns, label) /\ own'[t] = owns /\ call'[t] = NoCall
        /\ \A u \in Threads : u # t => pc'[u] = pc[u] /\ own'[u] = own[u] /\ call'[u] = call[u]
    BY DEF Leaves, Types
  <1>2. ~NoCall.given /\ NoCall.dst = 0
    BY DEF NoCall
  <1>3. /\ pc'[t] = "idle" \/ pc'[t] = label
        /\ pc'[t] = "idle" <=> own'[t] = <<>>
    BY <1>1 DEF AfterOwns
  <1> QED BY <1>1, <1>2, <1>3 DEF ThreadSound

\* Every action keeps the calls in flight sound.
LEMMA CallsStep ==
    ASSUME DspInv, [Next]_vars
    PROVE  CallsSound'
  <1>1. /\ Types /\ Placed /\ Wired /\ Borrowing /\ CallsSound /\ Types'
        /\ \A t \in Threads : ThreadSound(t)
        /\ jobs \in Nat /\ 1 .. jobs \subseteq Jobs /\ MaxJobs \in Nat
    <2>1. Types /\ jobs \in Nat /\ 1 .. jobs \subseteq Jobs /\ MaxJobs \in Nat
      BY DspAssumption DEF DspInv, Types, Jobs
    <2> QED BY <2>1, TypesStep DEF DspInv, CallsSound
  <1>2. ASSUME NEW t \in Threads, ThreadSound(t)',
               \A u \in Threads : u # t => own'[u] = own[u] /\ pc'[u] = pc[u] /\ call'[u] = call[u],
               jobs' \in Nat, jobs <= jobs', held \subseteq held',
               \A u \in Threads : u # t /\ pc[u] = "running" => out'[call[u].job] = NoOut
        PROVE  \A u \in Threads : ThreadSound(u)'
    <2>1. ASSUME NEW u \in Threads, u # t
          PROVE  ThreadSound(u)'
      <3>1. call[u].given => call[u].dst \in held'
        BY <1>1, <1>2 DEF ThreadSound
      <3> QED BY <1>1, <1>2, <2>1, <3>1, OtherSound
    <2> QED BY <1>2, <2>1
  <1>3. ASSUME \A u \in Threads : ThreadSound(u)',
               \A u \in Threads : pc'[u] = "running" =>
                   pc[u] = "running" /\ call'[u].job = call[u].job,
               \A j \in Jobs : (j > jobs' => out'[j] = NoOut) /\ (out'[j].st = "released" => out'[j].own = <<>>)
        PROVE  CallsSound'
    BY <1>1, <1>3 DEF CallsSound, Jobs
  <1>4. \A j \in Jobs : (j > jobs => out[j] = NoOut) /\ (out[j].st = "released" => out[j].own = <<>>)
    BY <1>1 DEF CallsSound
  <1>5. CASE UNCHANGED vars
    BY <1>1, <1>5 DEF vars, daemon, objs, thr, CallsSound, ThreadSound, Jobs
  <1>6. ASSUME NEW t \in Threads, Begins(t)
        PROVE  CallsSound'
    <2>1. PICK op \in {"job", "blend", "encode", "alloc", "import", "shared"},
               mode \in {"sync", "ref", "pending"}, borrowed \in SUBSET Ids, dst \in Ids \cup {0} :
               /\ \E todos : Begin(t, op, mode, todos, borrowed, dst)
               /\ dst # 0 => dst \in held /\ dst \in borrowed
      BY <1>1, <1>6, BeginEffect
    <2>2. /\ pc[t] = "idle" /\ pc'[t] \in {"submit", "obtain"} /\ own' = own
          /\ call'[t] = [op |-> op, mode |-> mode, given |-> dst # 0, borrowed |-> borrowed,
                         dst |-> dst, job |-> 0]
          /\ \A u \in Threads : u # t => pc'[u] = pc[u] /\ call'[u] = call[u]
          /\ jobs' = jobs /\ held' = held /\ out' = out
      BY <1>1, <2>1 DEF Begin, Types, daemon, objs
    <2>3. ThreadSound(t)'
      <3>1. /\ call'[t].dst = dst /\ call'[t].borrowed = borrowed
            /\ call'[t].given <=> dst # 0
        <4>1. /\ call'[t].dst = dst /\ call'[t].borrowed = borrowed
          BY <2>2
        <4>2. call'[t].given = (dst # 0)
          BY <2>2
        <4>3. call'[t].given <=> dst # 0
          BY <4>2, Zenon
        <4> QED BY <4>1, <4>3
      <3>2. own'[t] = own[t] /\ pc'[t] \in Busy /\ pc'[t] \notin {"idle", "free", "destroy", "running"}
        BY <2>2 DEF Busy
      <3> QED BY <2>1, <2>2, <3>1, <3>2 DEF ThreadSound
    <2>4. \A u \in Threads : ThreadSound(u)'
      BY <1>1, <1>2, <2>2, <2>3 DEF ThreadSound
    <2> QED BY <1>3, <1>4, <2>2, <2>4
  <1>7. ASSUME NEW t \in Threads, NEW owns, NEW label \in {"free", "destroy"},
               Leaves(t, owns, label), jobs' = jobs, out' = out, held \subseteq held'
        PROVE  CallsSound'
    <2>1. /\ ThreadSound(t)' /\ pc'[t] # "running"
          /\ \A u \in Threads : u # t => pc'[u] = pc[u] /\ own'[u] = own[u] /\ call'[u] = call[u]
      BY <1>1, <1>7, LeavesSound
    <2>2. \A u \in Threads : ThreadSound(u)'
      BY <1>1, <1>2, <1>7, <2>1 DEF ThreadSound
    <2> QED BY <1>3, <1>4, <1>7, <2>1, <2>2
  <1>8. ASSUME NEW t \in Threads, Lets(t)
        PROVE  CallsSound'
    BY <1>7, <1>8 DEF Lets, daemon, objs
  <1>9. ASSUME NEW t \in Threads, Copies(t)
        PROVE  CallsSound'
    <2>1. /\ pc[t] = "running" /\ pc'[t] = "obtain" /\ own' = own /\ call' = call
          /\ \A u \in Threads : u # t => pc'[u] = pc[u]
          /\ jobs' = jobs /\ held' = held /\ out' = out
      BY <1>1, <1>9 DEF Copies, Types, daemon, objs
    <2>2. ThreadSound(t)'
      BY <1>1, <2>1 DEF ThreadSound, Busy
    <2>3. \A u \in Threads : ThreadSound(u)'
      BY <1>1, <1>2, <2>1, <2>2 DEF ThreadSound
    <2> QED BY <1>3, <1>4, <2>1, <2>3
  <1>10. ASSUME NEW t \in Threads, SubmitSync(t)
         PROVE  CallsSound'
    <2>1. /\ pc[t] \in {"submit", "obtain"} /\ pc'[t] = "running" /\ own' = own
          /\ call'[t] = [call[t] EXCEPT !.job = jobs + 1]
          /\ \A u \in Threads : u # t => pc'[u] = pc[u] /\ call'[u] = call[u]
          /\ jobs' = jobs + 1 /\ held' = held /\ out' = out /\ jobs + 1 \in Jobs
      BY <1>1, <1>10 DEF SubmitSync, Submitting, Obtaining, Accepted, Types, objs, Jobs
    <2>2. /\ call'[t].job = jobs + 1 /\ call'[t].given = call[t].given /\ call'[t].dst = call[t].dst
          /\ call'[t].borrowed = call[t].borrowed
      BY <1>1, <2>1 DEF Types, Calls
    <2>3. jobs + 1 \in 1 .. jobs' /\ out'[jobs + 1] = NoOut /\ jobs + 1 > jobs
      BY <1>1, <1>4, <2>1
    <2>4. ThreadSound(t)'
      BY <1>1, <2>1, <2>2, <2>3 DEF ThreadSound, Busy
    <2>5. \A u \in Threads : ThreadSound(u)'
      <3>1. \A u \in Threads : pc[u] = "running" => out'[call[u].job] = NoOut
        BY <1>1, <2>1 DEF ThreadSound
      <3>2. jobs' \in Nat /\ jobs <= jobs' /\ held \subseteq held'
        BY <1>1, <2>1
      <3>3. \A u \in Threads : u # t => own'[u] = own[u] /\ pc'[u] = pc[u] /\ call'[u] = call[u]
        BY <2>1
      <3> QED BY <1>2, <2>4, <3>1, <3>2, <3>3
    <2>6. ASSUME NEW u \in Threads, u # t, pc'[u] = "running"
          PROVE  call'[u].job # call'[t].job
      <3>1. call[u].job \in 1 .. jobs
        BY <1>1, <2>1, <2>6 DEF ThreadSound
      <3> QED BY <1>1, <2>1, <2>2, <2>6, <3>1
    <2>7. ASSUME NEW u \in Threads, NEW w \in Threads,
                 pc'[u] = "running", pc'[w] = "running", call'[u].job = call'[w].job
          PROVE  u = w
      <3>1. CASE u = t \/ w = t
        BY <2>6, <2>7, <3>1
      <3>2. CASE u # t /\ w # t
        <4>1. pc[u] = "running" /\ pc[w] = "running" /\ call[u].job = call[w].job
          BY <2>1, <2>7, <3>2
        <4> QED BY <1>1, <4>1 DEF CallsSound
      <3> QED BY <3>1, <3>2
    <2>8. \A j \in Jobs : (j > jobs' => out'[j] = NoOut) /\ (out'[j].st = "released" => out'[j].own = <<>>)
      BY <1>1, <1>4, <2>1 DEF Jobs
    <2> QED BY <2>5, <2>7, <2>8 DEF CallsSound, Jobs
  <1>11. ASSUME NEW t \in Threads, NEW j \in Jobs, NEW form \in {"pending", "ref"},
                NEW st \in {"pending", "done", "alive"}, HandsOver(t, j, form, st),
                jobs' \in Nat, jobs <= jobs', j <= jobs', held' = held,
                \A u \in Threads : u # t /\ pc[u] = "running" => call[u].job # j
         PROVE  CallsSound'
    <2>1. /\ ThreadSound(t)' /\ pc'[t] # "running"
          /\ \A u \in Threads : u # t => pc'[u] = pc[u] /\ own'[u] = own[u] /\ call'[u] = call[u]
      BY <1>1, <1>11, LeavesSound DEF HandsOver
    <2>2. /\ out'[j].st # "released" /\ \A k \in Jobs : k # j => out'[k] = out[k]
      BY <1>1, <1>11 DEF HandsOver, Types
    <2>3. ASSUME NEW u \in Threads, u # t, pc[u] = "running"
          PROVE  out'[call[u].job] = NoOut
      BY <1>1, <1>11, <2>2, <2>3 DEF ThreadSound
    <2>4. \A u \in Threads : ThreadSound(u)'
      BY <1>2, <1>11, <2>1, <2>3
    <2>5. \A k \in Jobs : (k > jobs' => out'[k] = NoOut) /\ (out'[k].st = "released" => out'[k].own = <<>>)
      <3>1. ASSUME NEW k \in Jobs, k # j
            PROVE  (k > jobs' => out'[k] = NoOut) /\ (out'[k].st = "released" => out'[k].own = <<>>)
        BY <1>1, <1>4, <1>11, <2>2, <3>1 DEF Jobs
      <3>2. ~(j > jobs')
        BY <1>1, <1>11 DEF Jobs
      <3> QED BY <2>2, <3>1, <3>2
    <2> QED BY <1>3, <2>1, <2>4, <2>5
  <1>12. ASSUME NEW t \in Threads, Delivers(t)
         PROVE  CallsSound'
    <2>1. call[t].job \in Jobs /\ call[t].job <= jobs
      BY <1>1, <1>12 DEF ThreadSound, Delivers
    <2>2. \A u \in Threads : u # t /\ pc[u] = "running" => call[u].job # call[t].job
      BY <1>1, <1>12 DEF CallsSound, Delivers
    <2> QED BY <1>1, <1>11, <1>12, <2>1, <2>2 DEF Delivers, daemon
  <1>13. ASSUME NEW t \in Threads, SubmitAsync(t)
         PROVE  CallsSound'
    <2>1. jobs + 1 \in Jobs /\ jobs' = jobs + 1 /\ jobs' \in Nat /\ jobs <= jobs' /\ jobs + 1 <= jobs'
      BY <1>1, <1>13 DEF SubmitAsync, Accepted, Jobs
    <2>2. \A u \in Threads : u # t /\ pc[u] = "running" => call[u].job # jobs + 1
      BY <1>1 DEF ThreadSound
    <2> QED BY <1>11, <1>13, <2>1, <2>2 DEF SubmitAsync
  <1>14. ASSUME NEW t \in Threads, Free(t)
         PROVE  CallsSound'
    <2>1. /\ pc[t] \in {"free", "destroy"} /\ own'[t] = Tail(own[t])
          /\ pc'[t] = AfterOwns(Tail(own[t]), pc[t]) /\ call' = call
          /\ \A u \in Threads : u # t => pc'[u] = pc[u] /\ own'[u] = own[u]
          /\ jobs' = jobs /\ held' = held /\ out' = out
      BY <1>1, <1>14 DEF Free, Types
    <2>2. call[t] = NoCall /\ ~NoCall.given /\ NoCall.dst = 0
      BY <1>1, <2>1 DEF ThreadSound, Busy, NoCall
    <2>3. /\ pc'[t] = "idle" \/ (pc'[t] = pc[t] /\ pc'[t] # "idle")
          /\ pc'[t] = "idle" <=> own'[t] = <<>>
      BY <2>1 DEF AfterOwns
    <2>4. ThreadSound(t)'
      BY <2>1, <2>2, <2>3 DEF ThreadSound, Busy
    <2>5. \A u \in Threads : ThreadSound(u)'
      <3>1. \A u \in Threads : pc[u] = "running" => out'[call[u].job] = NoOut
        BY <1>1, <2>1 DEF ThreadSound
      <3>2. jobs' \in Nat /\ jobs <= jobs' /\ held \subseteq held'
        BY <1>1, <2>1
      <3>3. \A u \in Threads : u # t => own'[u] = own[u] /\ pc'[u] = pc[u] /\ call'[u] = call[u]
        BY <2>1
      <3> QED BY <1>2, <2>4, <3>1, <3>2, <3>3
    <2> QED BY <1>3, <1>4, <2>1, <2>3, <2>5
  <1>15. ASSUME NEW t \in Threads, NEW j \in Jobs, ReleaseOut(t, j)
         PROVE  CallsSound'
    <2>1. /\ pc[t] = "idle" /\ own'[t] = out[j].own /\ out[j].st # "released"
          /\ pc'[t] = AfterOwns(out[j].own, "free") /\ call' = call
          /\ \A u \in Threads : u # t => pc'[u] = pc[u] /\ own'[u] = own[u]
          /\ jobs' = jobs /\ held' = held /\ out'[j] = Emptied(out[j])
          /\ \A k \in Jobs : k # j => out'[k] = out[k]
      BY <1>1, <1>15 DEF ReleaseOut, Types, daemon
    <2>2. call[t] = NoCall /\ ~NoCall.given /\ NoCall.dst = 0
      BY <1>1, <2>1 DEF ThreadSound, Busy, NoCall
    <2>3. /\ pc'[t] = "idle" \/ pc'[t] = "free"
          /\ pc'[t] = "idle" <=> own'[t] = <<>>
      BY <2>1 DEF AfterOwns
    <2>4. ThreadSound(t)'
      BY <2>1, <2>2, <2>3 DEF ThreadSound, Busy
    <2>5. ASSUME NEW u \in Threads, u # t, pc[u] = "running"
          PROVE  out'[call[u].job] = NoOut
      BY <1>1, <2>1, <2>5 DEF ThreadSound, NoOut
    <2>6. \A u \in Threads : ThreadSound(u)'
      BY <1>1, <1>2, <2>1, <2>4, <2>5
    <2>7. ~(j > jobs')
      BY <1>4, <2>1 DEF NoOut
    <2>8. Emptied(out[j]).own = <<>>
      <3>1. out[j] \in Outs
        BY <1>1 DEF Types
      <3> QED BY <3>1 DEF Emptied, Outs
    <2> QED BY <1>3, <1>4, <2>1, <2>3, <2>6, <2>7, <2>8
  <1>16. ASSUME NEW i \in Ids, ReleaseHeld(i)
         PROVE  CallsSound'
    <2>1. /\ held' = held \ {i} /\ UNCHANGED <<jobs, out, pc, call, own>> /\ Unborrowed(i)
      BY <1>16 DEF ReleaseHeld, thr
    <2>2. ASSUME NEW u \in Threads
          PROVE  ThreadSound(u)'
      <3>1. call[u].given => call[u].dst \in held'
        BY <1>1, <2>1 DEF ThreadSound, Unborrowed, NoCall, Busy
      <3> QED BY <1>1, <2>1, <3>1, OtherSound DEF ThreadSound
    <2> QED BY <1>3, <1>4, <2>1, <2>2
  <1>17. ASSUME NEW j \in Jobs, JobEnds(j)
         PROVE  CallsSound'
    BY <1>1, <1>17 DEF JobEnds, objs, thr, CallsSound, ThreadSound, Jobs
  <1>18. ASSUME NEW j \in Jobs, Settles(j)
         PROVE  CallsSound'
    <2>1. /\ UNCHANGED <<jobs, held, pc, call, own>> /\ IsPending(j)
          /\ out'[j] = [out[j] EXCEPT !.st = "done"]
          /\ \A k \in Jobs : k # j => out'[k] = out[k]
      BY <1>1, <1>18 DEF Settles, Types, thr, daemon
    <2>2. ASSUME NEW u \in Threads
          PROVE  ThreadSound(u)'
      <3>1. pc[u] = "running" => out'[call[u].job] = NoOut
        BY <1>1, <2>1 DEF ThreadSound, IsPending, NoOut
      <3> QED BY <1>1, <2>1, <3>1, OtherSound DEF ThreadSound
    <2>3. ~(j > jobs') /\ out'[j].st # "released"
      <3>1. out[j] \in Outs /\ ~(j > jobs)
        BY <1>1, <1>4, <2>1 DEF Types, IsPending, NoOut
      <3> QED BY <2>1, <3>1 DEF Outs
    <2> QED BY <1>3, <1>4, <2>1, <2>2, <2>3
  <1>19. CASE close \/ DaemonGone
    BY <1>1, <1>19 DEF close, DaemonGone, objs, thr, CallsSound, ThreadSound, Jobs
  <1>20. ASSUME NEW t \in Threads, Exchange(t)
         PROVE  CallsSound'
    <2>1. PICK n \in {0, made + 1}, id \in 0 .. made' :
            /\ Exchanged(t) /\ Minted(n) /\ Streams(n, id)
            /\ ((id = 0 /\ ExchangeThrows(t)) \/ (id # 0 /\ Obtained(t, id)))
      BY <1>1, <1>20, ExchangeEffect
    <2>2. jobs' = jobs /\ out' = out /\ pc[t] = "obtain"
      BY <2>1 DEF Exchanged
    <2>3. id # 0 => id \in Ids
      BY SMTT(30), <1>1, <2>1, DspAssumption DEF Types, Ids
    <2>4. CASE id = 0
      BY <1>7, <2>1, <2>2, <2>4, ThrowsEffect
    <2>5. CASE id # 0 /\ Gives(t, id)
      <3>2. /\ pc'[t] = "idle" /\ own'[t] = <<>> /\ call'[t] = NoCall /\ held \subseteq held'
            /\ \A u \in Threads : u # t => pc'[u] = pc[u] /\ own'[u] = own[u] /\ call'[u] = call[u]
        BY <1>1, <2>5 DEF Gives, Types
      <3>3. ~NoCall.given /\ NoCall.dst = 0
        BY DEF NoCall
      <3>4. ThreadSound(t)'
        BY <3>2, <3>3 DEF ThreadSound
      <3>5. \A u \in Threads : ThreadSound(u)'
        BY <1>1, <1>2, <2>2, <3>2, <3>4 DEF ThreadSound
      <3> QED BY <1>3, <1>4, <2>2, <3>2, <3>5
    <2>6. CASE id # 0 /\ Keeps(t, id)
      <3>1. PICK d \in {call[t].dst, id} : /\ call' = [call EXCEPT ![t].dst = d]
                                           /\ call[t].given => d = call[t].dst
        BY <2>6 DEF Keeps
      <3>2. /\ pc'[t] \in {"obtain", "submit"} /\ own'[t] = Append(own[t], id)
            /\ call'[t] = [call[t] EXCEPT !.dst = d] /\ held' = held
            /\ \A u \in Threads : u # t => pc'[u] = pc[u] /\ own'[u] = own[u] /\ call'[u] = call[u]
        BY <1>1, <2>6, <3>1 DEF Keeps, Types
      <3>3. call'[t].given = call[t].given /\ call'[t].dst = d /\ call'[t].borrowed = call[t].borrowed
        BY <1>1, <3>2 DEF Types, Calls
      <3>4. ToSet(own'[t]) = ToSet(own[t]) \cup {id}
        <4>1. own[t] \in Seq(Ids) /\ id \in Ids
          BY <1>1, <2>3, <2>6 DEF Types
        <4>2. ToSet(Append(own[t], id)) = ToSet(own[t]) \cup {id}
          BY <4>1, AppendList
        <4> QED BY <3>2, <4>2
      <3>5. ThreadSound(t)
        BY <1>1
      <3>6. ThreadSound(t)'
        BY <3>1, <3>2, <3>3, <3>4, <3>5 DEF ThreadSound, Busy
      <3>7. ASSUME NEW u \in Threads, u # t PROVE ThreadSound(u)'
        <4>1. ThreadSound(u) /\ pc'[u] = pc[u] /\ own'[u] = own[u] /\ call'[u] = call[u]
          BY <1>1, <3>2, <3>7
        <4> QED BY <2>2, <3>2, <4>1 DEF ThreadSound
      <3>8. \A u \in Threads : ThreadSound(u)' BY <3>6, <3>7
      <3> QED BY <1>3, <1>4, <2>2, <3>2, <3>8
    <2> QED BY <1>1, <2>1, <2>3, <2>4, <2>5, <2>6, ObtainedEffect
  <1> QED BY <1>1, <1>5, <1>6, <1>8, <1>9, <1>10, <1>12, <1>13, <1>14, <1>15, <1>16, <1>17,
             <1>18, <1>19, <1>20, NextCases

-----------------------------------------------------------------------------
(* Borrowing and Attended *)

\* A buffer the daemon has is one it had, and is lent if it was.
Lasts(i) ==
    reg'[i] # 0 => reg[i] # 0 /\ (Lent(i) => Lent(i)') /\ (i \in held => i \in held')

\* Only the release of a ref takes a buffer from where it can be lent.
LEMMA LastsStep ==
    ASSUME Types, Wired, CallsSound, Borrowing, Next
    PROVE  \/ \A i \in 1 .. made : Lasts(i)
           \/ \E t \in Threads, j \in Jobs :
                 /\ ReleaseOut(t, j) /\ out[j].form = "ref"
                 /\ \A i \in 1 .. made : i # out[j].dst => Lasts(i)
  <1>1. /\ 1 .. made \subseteq Ids /\ made \in Nat
        /\ jobs \in Nat /\ 1 .. jobs \subseteq Jobs /\ MaxJobs \in Nat
        /\ \A t \in Threads : ThreadSound(t)
        /\ \A j \in Jobs : j > jobs => out[j] = NoOut
    <2>1. /\ 1 .. made \subseteq Ids /\ made \in Nat
          /\ jobs \in Nat /\ 1 .. jobs \subseteq Jobs /\ MaxJobs \in Nat
      BY DspAssumption DEF Types, Ids, Jobs
    <2> QED BY <2>1 DEF CallsSound
  <1>2. ASSUME NEW i, i \in held => i \in held', \A r \in LiveRefs : out'[r] = out[r], Lent(i)
        PROVE  Lent(i)'
    <2>1. \A r \in LiveRefs : r \in LiveRefs' /\ out'[r] = out[r]
      BY <1>2 DEF LiveRefs, Jobs
    <2> QED BY <1>2, <2>1 DEF Lent
  <1>3. ASSUME held \subseteq held', \A r \in LiveRefs : out'[r] = out[r],
               \A i \in 1 .. made : reg'[i] # 0 => reg[i] # 0
        PROVE  \A i \in 1 .. made : Lasts(i)
    BY <1>2, <1>3 DEF Lasts
  <1>4. ASSUME NEW t \in Threads, Begins(t)
        PROVE  \A i \in 1 .. made : Lasts(i)
    <2>1. PICK op \in {"job", "blend", "encode", "alloc", "import", "shared"},
               mode \in {"sync", "ref", "pending"}, borrowed \in SUBSET Ids, dst \in Ids \cup {0} :
               \E todos : Begin(t, op, mode, todos, borrowed, dst)
      BY <1>4, BeginEffect
    <2> QED BY <1>3, <2>1 DEF Begin, daemon, objs
  <1>5. ASSUME NEW t \in Threads, Lets(t) \/ Copies(t) \/ SubmitSync(t)
        PROVE  \A i \in 1 .. made : Lasts(i)
    BY <1>3, <1>5 DEF Lets, Copies, SubmitSync, Accepted, daemon, objs
  <1>6. ASSUME NEW t \in Threads, NEW j \in Jobs, NEW form, NEW st, HandsOver(t, j, form, st),
               out[j] = NoOut, held' = held, reg' = reg
        PROVE  \A i \in 1 .. made : Lasts(i)
    <2>1. \A r \in LiveRefs : out'[r] = out[r]
      BY <1>6 DEF HandsOver, LiveRefs, NoOut, Types
    <2> QED BY <1>3, <1>6, <2>1
  <1>7. ASSUME NEW t \in Threads, Delivers(t)
        PROVE  \A i \in 1 .. made : Lasts(i)
    <2>1. call[t].job \in Jobs /\ out[call[t].job] = NoOut
      BY <1>1, <1>7 DEF ThreadSound, Delivers
    <2> QED BY <1>6, <1>7, <2>1 DEF Delivers, daemon
  <1>8. ASSUME NEW t \in Threads, SubmitAsync(t)
        PROVE  \A i \in 1 .. made : Lasts(i)
    <2>1. jobs + 1 \in Jobs /\ out[jobs + 1] = NoOut
      BY <1>1, <1>8 DEF SubmitAsync, Accepted, Jobs
    <2> QED BY <1>6, <1>8, <2>1 DEF SubmitAsync, Accepted
  <1>9. ASSUME NEW t \in Threads, Free(t)
        PROVE  \A i \in 1 .. made : Lasts(i)
    <2>1. \A i \in 1 .. made : reg'[i] # 0 => reg[i] # 0
      BY <1>1, <1>9 DEF Free, send_release, Types
    <2> QED BY <1>3, <1>9, <2>1 DEF Free
  <1>10. ASSUME NEW b \in Ids, ReleaseHeld(b)
         PROVE  \A i \in 1 .. made : Lasts(i)
    <2>1. b \in 1 .. made /\ send_release(b) /\ held' = held \ {b} /\ out' = out
      BY <1>10 DEF ReleaseHeld, Types
    <2>2. reg' = [reg EXCEPT ![b] = 0]
      BY <2>1, ReleaseEffect
    <2>3. ASSUME NEW i \in 1 .. made, reg'[i] # 0
          PROVE  reg[i] # 0 /\ (Lent(i) => Lent(i)') /\ (i \in held => i \in held')
      <3>1. i # b /\ reg[i] # 0
        BY <1>1, <2>2, <2>3 DEF Types
      <3> QED BY <1>2, <2>1, <3>1
    <2> QED BY <2>3 DEF Lasts
  <1>11. ASSUME NEW t \in Threads, Exchange(t)
         PROVE  \A i \in 1 .. made : Lasts(i)
    <2>1. PICK n \in {0, made + 1}, id \in 0 .. made' :
            /\ Exchanged(t) /\ Minted(n)
            /\ ((id = 0 /\ ExchangeThrows(t)) \/ (id # 0 /\ Obtained(t, id)))
      BY <1>11, ExchangeEffect
    <2>2. \A i \in 1 .. made : reg'[i] # 0 => reg[i] # 0
      BY <1>1, <2>1 DEF Minted, Types
    <2>3. id # 0 => id \in Ids
      BY <1>1, <2>1, DspAssumption DEF Minted, Ids, Types
    <2>4. held \subseteq held'
      BY <2>1, <2>3, ThrowsEffect, ObtainedEffect DEF Keeps, Gives
    <2> QED BY <1>3, <2>1, <2>2, <2>4 DEF Exchanged
  <1>12. ASSUME NEW j \in Jobs, JobEnds(j)
         PROVE  \A i \in 1 .. made : Lasts(i)
    BY <1>3, <1>12 DEF JobEnds, objs
  <1>13. ASSUME NEW j \in Jobs, Settles(j)
         PROVE  \A i \in 1 .. made : Lasts(i)
    <2>1. \A r \in LiveRefs : out'[r] = out[r]
      BY <1>13 DEF Settles, IsPending, LiveRefs, Types
    <2> QED BY <1>3, <1>13, <2>1 DEF Settles, daemon
  <1>14. CASE close \/ DaemonGone
    <2>1. \A i \in Ids : reg'[i] = 0
      BY <1>14 DEF close, DaemonGone, Wired
    <2> QED BY <1>1, <2>1 DEF Lasts
  <1>15. ASSUME NEW t \in Threads, NEW j \in Jobs, ReleaseOut(t, j)
         PROVE  \/ \A i \in 1 .. made : Lasts(i)
                \/ out[j].form = "ref" /\ \A i \in 1 .. made : i # out[j].dst => Lasts(i)
    <2>1. /\ reg' = reg /\ held' = held /\ \A r \in Jobs : r # j => out'[r] = out[r]
      BY <1>15 DEF ReleaseOut, daemon, Types
    <2>2. CASE out[j].form # "ref"
      <3>1. \A r \in LiveRefs : out'[r] = out[r]
        BY <2>1, <2>2 DEF LiveRefs
      <3> QED BY <1>3, <2>1, <3>1
    <2>3. CASE out[j].form = "ref"
      <3>1. ASSUME NEW i, i # out[j].dst, Lent(i)
            PROVE  Lent(i)'
        <4>1. CASE i \in held
          BY <2>1, <4>1 DEF Lent
        <4>2. CASE \E r \in LiveRefs : out[r].dst = i /\ i \in ToSet(out[r].own)
          <5>1. PICK r \in LiveRefs : out[r].dst = i /\ i \in ToSet(out[r].own)
            BY <4>2
          <5>2. r \in Jobs /\ r # j /\ out'[r] = out[r]
            BY <2>1, <3>1, <5>1 DEF LiveRefs
          <5>3. r \in LiveRefs'
            BY <5>1, <5>2 DEF LiveRefs, Jobs
          <5> QED BY <5>1, <5>2, <5>3 DEF Lent
        <4> QED BY <3>1, <4>1, <4>2 DEF Lent
      <3> QED BY <2>1, <2>3, <3>1 DEF Lasts
    <2> QED BY <2>2, <2>3
  <1> QED BY <1>4, <1>5, <1>7, <1>8, <1>9, <1>10, <1>11, <1>12, <1>13, <1>14, <1>15, NextCases

\* No call borrows anything new; no ref is new or other than it was.
OldCalls == \A u \in Threads : call'[u].borrowed \subseteq call[u].borrowed
OldOuts ==
    \A j \in Jobs : /\ out'[j].dst = out[j].dst
                    /\ j \in LiveRefs' => j \in LiveRefs /\ out'[j] = out[j]

\* What calls and objects borrow is fixed when they begin.
LEMMA OldSteps ==
    ASSUME Types, CallsSound, Borrowing, Next
    PROVE  /\ OldCalls \/ \E t \in Threads : Begins(t)
           /\ OldOuts \/ \E t \in Threads : Delivers(t) \/ SubmitAsync(t)
           /\ made' \in Nat /\ made \in Nat /\ made <= made'
  <1>1. /\ made \in Nat /\ made <= made /\ NoCall.borrowed = {} /\ MaxIds \in Nat
        /\ \A t \in Threads : call[t].borrowed \subseteq call[t].borrowed
    BY DspAssumption DEF Types, NoCall
  <1>2. out' = out => OldOuts
    BY DEF OldOuts, LiveRefs, Jobs
  <1>3. call' = call => OldCalls
    BY DEF OldCalls
  <1>4. ASSUME NEW t \in Threads, NEW owns, NEW label, Leaves(t, owns, label)
        PROVE  OldCalls
    BY <1>1, <1>4 DEF Leaves, OldCalls, Types
  <1>5. ASSUME NEW t \in Threads, Begins(t)
        PROVE  OldOuts /\ made' = made
    <2>1. PICK op \in {"job", "blend", "encode", "alloc", "import", "shared"},
               mode \in {"sync", "ref", "pending"}, borrowed \in SUBSET Ids, dst \in Ids \cup {0} :
               \E todos : Begin(t, op, mode, todos, borrowed, dst)
      BY <1>5, BeginEffect
    <2> QED BY <1>2, <2>1 DEF Begin, daemon, objs
  <1>6. ASSUME NEW t \in Threads, Lets(t) \/ Copies(t) \/ SubmitSync(t)
        PROVE  OldCalls /\ OldOuts /\ made' = made
    <2>1. out' = out /\ made' = made
      BY <1>6 DEF Lets, Copies, SubmitSync, Accepted, daemon, objs
    <2>2. CASE SubmitSync(t)
      BY <1>2, <2>1, <2>2 DEF SubmitSync, OldCalls, Types, Calls
    <2>3. CASE Lets(t) \/ Copies(t)
      BY <1>2, <1>3, <1>4, <2>1, <2>3 DEF Lets, Copies
    <2> QED BY <1>2, <1>6, <2>1, <2>2, <2>3
  <1>7. ASSUME NEW t \in Threads, Delivers(t) \/ SubmitAsync(t)
        PROVE  OldCalls /\ made' = made
    BY <1>4, <1>7 DEF Delivers, SubmitAsync, HandsOver, Accepted, daemon
  <1>8. ASSUME NEW t \in Threads, Free(t)
        PROVE  OldCalls /\ OldOuts /\ made' = made
    BY <1>2, <1>3, <1>8 DEF Free
  <1>9. ASSUME NEW b \in Ids, ReleaseHeld(b)
        PROVE  OldCalls /\ OldOuts /\ made' = made
    BY <1>2, <1>3, <1>9 DEF ReleaseHeld, thr
  <1>10. ASSUME NEW t \in Threads, Exchange(t)
         PROVE  OldCalls /\ OldOuts /\ made' \in Nat /\ made <= made'
    <2>1. PICK n \in {0, made + 1}, id \in 0 .. made' :
            /\ Exchanged(t) /\ Minted(n)
            /\ ((id = 0 /\ ExchangeThrows(t)) \/ (id # 0 /\ Obtained(t, id)))
      BY <1>10, ExchangeEffect
    <2>2. made' \in Nat /\ made <= made'
      BY <1>1, <2>1 DEF Minted
    <2>3. id # 0 => id \in Ids
      BY <1>1, <2>1, DspAssumption DEF Minted, Ids, Types
    <2>4. OldCalls
      <3>1. CASE id = 0
        BY <1>4, <2>1, <3>1, ThrowsEffect
      <3>2. CASE id # 0 /\ Gives(t, id)
        BY <1>1, <3>2 DEF Gives, OldCalls, Types
      <3>3. CASE id # 0 /\ Keeps(t, id)
        BY <3>3 DEF Keeps, OldCalls, Types, Calls
      <3> QED BY <2>1, <2>3, <3>1, <3>2, <3>3, ObtainedEffect
    <2> QED BY <1>2, <2>1, <2>2, <2>4 DEF Exchanged
  <1>11. ASSUME NEW j \in Jobs, JobEnds(j)
         PROVE  OldCalls /\ OldOuts /\ made' = made
    BY <1>2, <1>3, <1>11 DEF JobEnds, objs, thr
  <1>12. ASSUME NEW j \in Jobs, out[j].form # "ref" \/ out'[j].st = "released",
                out'[j].dst = out[j].dst, out'[j].form = out[j].form,
                \A k \in Jobs : k # j => out'[k] = out[k]
         PROVE  OldOuts
    BY <1>12 DEF OldOuts, LiveRefs, Jobs
  <1>13. ASSUME NEW j \in Jobs, Settles(j)
         PROVE  OldCalls /\ OldOuts /\ made' = made
    <2>1. /\ out'[j] = [out[j] EXCEPT !.st = "done"] /\ out[j].form # "ref" /\ out[j] \in Outs
          /\ \A k \in Jobs : k # j => out'[k] = out[k]
      BY <1>13 DEF Settles, IsPending, Types
    <2>2. out'[j].dst = out[j].dst /\ out'[j].form = out[j].form
      BY <2>1 DEF Outs
    <2> QED BY <1>3, <1>12, <1>13, <2>1, <2>2 DEF Settles, daemon, thr
  <1>14. CASE close \/ DaemonGone
    BY <1>1, <1>2, <1>3, <1>14 DEF close, DaemonGone, objs, thr
  <1>15. ASSUME NEW t \in Threads, NEW j \in Jobs, ReleaseOut(t, j)
         PROVE  OldCalls /\ OldOuts /\ made' = made
    <2>1. /\ out'[j] = Emptied(out[j]) /\ out[j] \in Outs
          /\ \A k \in Jobs : k # j => out'[k] = out[k]
      BY <1>15 DEF ReleaseOut, Types
    <2>2. out'[j].dst = out[j].dst /\ out'[j].form = out[j].form /\ out'[j].st = "released"
      BY <2>1 DEF Outs, Emptied
    <2> QED BY <1>3, <1>12, <1>15, <2>1, <2>2 DEF ReleaseOut, daemon
  <1> QED BY <1>1, <1>5, <1>6, <1>7, <1>8, <1>9, <1>10, <1>11, <1>13, <1>14, <1>15, NextCases

\* A borrowed buffer stays with the application or the ref that lent it.
LEMMA BorrowingStep ==
    ASSUME DspInv, [Next]_vars
    PROVE  Borrowing'
  <1>1. Types /\ Placed /\ Wired /\ CallsSound /\ Borrowing /\ \A t \in Threads : ThreadSound(t)
    BY DEF DspInv, CallsSound
  <1>2. CASE UNCHANGED vars
    BY <1>1, <1>2 DEF vars, daemon, objs, thr, Borrowing, Lent, LiveRefs, Jobs
  <1> SUFFICES ASSUME Next
               PROVE  Borrowing'
    BY <1>2
  <1>3. /\ OldCalls \/ \E t \in Threads : Begins(t)
        /\ OldOuts \/ \E t \in Threads : Delivers(t) \/ SubmitAsync(t)
        /\ made \in Nat /\ 1 .. made \subseteq 1 .. made' /\ 0 .. made \subseteq 0 .. made'
    BY <1>1, OldSteps
  <1>4. \/ \A i \in 1 .. made : Lasts(i)
        \/ \E t \in Threads, j \in Jobs :
                 /\ ReleaseOut(t, j) /\ out[j].form = "ref"
                 /\ \A i \in 1 .. made : i # out[j].dst => Lasts(i)
    BY <1>1, LastsStep
  <1>5. ASSUME NEW u \in Threads
        PROVE  call'[u].borrowed \subseteq 1 .. made'
               /\ \A i \in call'[u].borrowed : reg'[i] # 0 => Lent(i)'
    <2>1. CASE OldCalls
      <3>1. ASSUME NEW i \in call'[u].borrowed, reg'[i] # 0
            PROVE  Lent(i)'
        <4>1. i \in call[u].borrowed /\ i \in 1 .. made
          BY <1>1, <2>1, <3>1 DEF OldCalls, Borrowing
        <4>2. reg[i] # 0 => Lent(i)
          BY <1>1, <4>1 DEF Borrowing
        <4>3. ASSUME NEW t \in Threads, NEW j \in Jobs, ReleaseOut(t, j), out[j].form = "ref"
              PROVE  i # out[j].dst
          BY <1>1, <4>1, <4>3 DEF ReleaseOut, Unborrowed, ThreadSound, Busy, NoCall
        <4> QED BY <1>4, <3>1, <4>1, <4>2, <4>3 DEF Lasts
      <3>2. call'[u].borrowed \subseteq 1 .. made'
        BY <1>1, <1>3, <2>1 DEF OldCalls, Borrowing
      <3> QED BY <3>1, <3>2
    <2>2. ASSUME NEW t \in Threads, Begins(t)
          PROVE  call'[u].borrowed \subseteq 1 .. made'
                 /\ \A i \in call'[u].borrowed : reg'[i] # 0 => Lent(i)'
      <3>1. PICK op \in {"job", "blend", "encode", "alloc", "import", "shared"},
               mode \in {"sync", "ref", "pending"}, borrowed \in SUBSET Ids, dst \in Ids \cup {0} :
               /\ \E todos : Begin(t, op, mode, todos, borrowed, dst)
               /\ \A i \in borrowed : i \in 1 .. made /\ (reg[i] # 0 => Lent(i))
        BY <1>1, <2>2, BeginEffect
      <3>2. /\ UNCHANGED <<reg, held, out, made>>
            /\ call'[t].borrowed = borrowed
            /\ u # t => call'[u] = call[u]
        BY <1>1, <3>1 DEF Begin, daemon, objs, Types
      <3>3. \A i : Lent(i) => Lent(i)'
        BY <3>2 DEF Lent, LiveRefs, Jobs
      <3> QED BY <1>1, <3>1, <3>2, <3>3 DEF Borrowing
    <2> QED BY <1>3, <2>1, <2>2
  <1>6. ASSUME NEW j \in Jobs, OldOuts
        PROVE  /\ out'[j].dst \in 0 .. made'
               /\ j \in LiveRefs' /\ out'[j].dst # 0 /\ reg'[out'[j].dst] # 0 =>
                     out'[j].dst \in held' \/ out'[j].dst \in ToSet(out'[j].own)
    <2>1. out'[j].dst = out[j].dst /\ out[j].dst \in 0 .. made
      BY <1>1, <1>6 DEF OldOuts, Borrowing
    <2>2. ASSUME j \in LiveRefs', out'[j].dst # 0, reg'[out'[j].dst] # 0
          PROVE  out'[j].dst \in held' \/ out'[j].dst \in ToSet(out'[j].own)
      <3>1. j \in LiveRefs /\ out'[j] = out[j] /\ out[j].dst \in 1 .. made
        BY <1>3, <1>6, <2>1, <2>2 DEF OldOuts
      <3>2. reg[out[j].dst] # 0 /\ (out[j].dst \in held => out[j].dst \in held')
        <4>1. CASE \A i \in 1 .. made : Lasts(i)
          BY <2>1, <2>2, <3>1, <4>1 DEF Lasts
        <4>2. CASE \E t \in Threads, k \in Jobs : ReleaseOut(t, k)
          BY <2>1, <2>2, <4>2 DEF ReleaseOut, daemon
        <4> QED BY <1>4, <4>1, <4>2
      <3> QED BY <1>1, <3>1, <3>2 DEF Borrowing
    <2> QED BY <1>3, <2>1, <2>2
  <1>7. ASSUME NEW t \in Threads, NEW k \in Jobs, NEW form, NEW st, HandsOver(t, k, form, st),
               out[k] = NoOut, held' = held, reg' = reg, made' = made, NEW j \in Jobs
        PROVE  /\ out'[j].dst \in 0 .. made'
               /\ j \in LiveRefs' /\ out'[j].dst # 0 /\ reg'[out'[j].dst] # 0 =>
                     out'[j].dst \in held' \/ out'[j].dst \in ToSet(out'[j].own)
    <2>1. CASE j # k
      <3>1. out'[j] = out[j] /\ (j \in LiveRefs' => j \in LiveRefs)
        BY <1>1, <1>7, <2>1 DEF HandsOver, LiveRefs, Types, Jobs
      <3> QED BY <1>1, <1>7, <3>1 DEF Borrowing
    <2>2. CASE j = k
      <3>1. out'[j].dst = call[t].dst /\ out'[j].own = own[t]
        BY <1>1, <1>7, <2>2 DEF HandsOver, Types
      <3>2. call[t].dst = 0 \/ call[t].dst \in held \/ call[t].dst \in ToSet(own[t])
        BY <1>1 DEF ThreadSound
      <3>3. held \subseteq 1 .. made /\ ToSet(own[t]) \subseteq 1 .. made
        BY <1>1, PlacedFacts
      <3> QED BY <1>3, <1>7, <3>1, <3>2, <3>3
    <2> QED BY <2>1, <2>2
  <1>8. ASSUME NEW t \in Threads, NEW j \in Jobs, Delivers(t)
        PROVE  /\ out'[j].dst \in 0 .. made'
               /\ j \in LiveRefs' /\ out'[j].dst # 0 /\ reg'[out'[j].dst] # 0 =>
                     out'[j].dst \in held' \/ out'[j].dst \in ToSet(out'[j].own)
    <2>1. call[t].job \in Jobs /\ out[call[t].job] = NoOut
      <3>1. 1 .. jobs \subseteq Jobs
        BY <1>1, DspAssumption DEF Types, Jobs
      <3> QED BY <1>1, <1>8, <3>1 DEF ThreadSound, Delivers
    <2> QED BY <1>7, <1>8, <2>1 DEF Delivers, daemon
  <1>9. ASSUME NEW t \in Threads, NEW j \in Jobs, SubmitAsync(t)
        PROVE  /\ out'[j].dst \in 0 .. made'
               /\ j \in LiveRefs' /\ out'[j].dst # 0 /\ reg'[out'[j].dst] # 0 =>
                     out'[j].dst \in held' \/ out'[j].dst \in ToSet(out'[j].own)
    <2>1. jobs + 1 \in Jobs /\ out[jobs + 1] = NoOut
      <3>1. jobs + 1 \in Jobs /\ jobs + 1 > jobs
        BY <1>1, <1>9, DspAssumption DEF SubmitAsync, Accepted, Types, Jobs
      <3> QED BY <1>1, <3>1 DEF CallsSound
    <2> QED BY <1>7, <1>9, <2>1 DEF SubmitAsync, Accepted
  <1>10. \A j \in Jobs :
            /\ out'[j].dst \in 0 .. made'
            /\ j \in LiveRefs' /\ out'[j].dst # 0 /\ reg'[out'[j].dst] # 0 =>
                  out'[j].dst \in held' \/ out'[j].dst \in ToSet(out'[j].own)
    BY <1>3, <1>6, <1>8, <1>9
  <1>11. LiveRefs' \subseteq Jobs
    BY DEF LiveRefs, Jobs
  <1> QED BY <1>5, <1>10, <1>11 DEF Borrowing, Jobs

\* A job that is waited for, or pending, is so still.
WaitedOn(j) == Pended(j) \/ \E t \in Threads : Waited(t, j)

\* A job that runs in time keeps a waiter or an object with its buffers.
LEMMA AttendedStep ==
    ASSUME DspInv, [Next]_vars
    PROVE  Attended'
  <1>1. /\ Types /\ Placed /\ Wired /\ CallsSound /\ Borrowing /\ Attended
        /\ \A t \in Threads : ThreadSound(t)
        /\ jobs \in Nat /\ running \subseteq 1 .. jobs /\ 1 .. jobs \subseteq Jobs
        /\ MaxJobs \in Nat /\ 1 .. made \subseteq Ids
        /\ \A j \in Jobs : uses[j] \subseteq 1 .. made
        /\ \A j \in running \ expired : WaitedOn(j)
    <2>1. /\ jobs \in Nat /\ running \subseteq 1 .. jobs /\ 1 .. jobs \subseteq Jobs
          /\ MaxJobs \in Nat /\ 1 .. made \subseteq Ids
      BY DspAssumption DEF DspInv, Types, Jobs, Ids
    <2> QED BY <2>1 DEF DspInv, CallsSound, Attended, WaitedOn
  <1>2. CASE UNCHANGED vars
    BY <1>1, <1>2 DEF vars, wire, daemon, objs, thr, hist, Attended, Pended, Waited, Lent, LiveRefs,
                      IsPending, Jobs
  <1> SUFFICES ASSUME Next
               PROVE  Attended'
    BY <1>2
  <1>3. made \in Nat /\ made' \in Nat /\ made <= made' /\ 1 .. made \subseteq 1 .. made'
    BY <1>1, OldSteps
  <1>4. \/ \A i \in 1 .. made : Lasts(i)
        \/ \E t \in Threads, j \in Jobs :
                 /\ ReleaseOut(t, j) /\ out[j].form = "ref"
                 /\ \A i \in 1 .. made : i # out[j].dst => Lasts(i)
    BY <1>1, LastsStep
  <1>5. ASSUME NEW j \in Jobs, Pended(j), out'[j] = out[j], uses'[j] = uses[j]
        PROVE  Pended(j)'
    <2>1. IsPending(j) /\ IsPending(j)' /\ uses[j] \subseteq 1 .. made
      BY <1>1, <1>5 DEF Pended, IsPending
    <2>2. ASSUME NEW i \in uses[j], reg'[i] # 0
          PROVE  i \in ToSet(out[j].own) \/ Lent(i)'
      <3>1. ASSUME NEW t \in Threads, NEW k \in Jobs, ReleaseOut(t, k), out[k].form = "ref"
            PROVE  i # out[k].dst
        BY <2>1, <2>2, <3>1 DEF ReleaseOut, Unborrowed
      <3>2. Lasts(i)
        BY <1>4, <2>1, <3>1
      <3> QED BY <1>5, <2>2, <3>2 DEF Lasts, Pended
    <2> QED BY <1>5, <2>1, <2>2 DEF Pended
  <1>6. ASSUME NEW t \in Threads, NEW j, Waited(t, j), pc'[t] = pc[t], call'[t] = call[t],
               own'[t] = own[t], uses'[j] = uses[j]
        PROVE  Waited(t, j)'
    BY <1>6 DEF Waited
  <1>7. ASSUME NEW t \in Threads, uses' = uses, running' \ expired' \subseteq running \ expired,
               \A u \in Threads : u # t => pc'[u] = pc[u] /\ call'[u] = call[u] /\ own'[u] = own[u],
               pc[t] = "running" => call[t].job \notin running' \ expired',
               \A j \in running' \ expired' : IsPending(j) => out'[j] = out[j]
        PROVE  Attended'
    <2>1. ASSUME NEW j \in running' \ expired'
          PROVE  WaitedOn(j)'
      <3>1. WaitedOn(j) /\ j \in Jobs
        BY <1>1, <1>7
      <3>2. CASE Pended(j)
        <4>1. Pended(j)'
          BY <1>5, <1>7, <3>1, <3>2 DEF Pended
        <4> QED BY <4>1 DEF WaitedOn
      <3>3. CASE \E u \in Threads : Waited(u, j)
        <4>1. PICK u \in Threads : Waited(u, j)
          BY <3>3
        <4>2. u # t
          BY <1>7, <2>1, <4>1 DEF Waited
        <4>3. Waited(u, j)'
          BY <1>6, <1>7, <4>1, <4>2
        <4> QED BY <4>3 DEF WaitedOn
      <3> QED BY <3>1, <3>2, <3>3 DEF WaitedOn
    <2>2. \A j \in Jobs : uses'[j] \subseteq 1 .. made'
      BY <1>1, <1>3, <1>7
    <2> QED BY <2>1, <2>2 DEF Attended, WaitedOn, Jobs
  <1>8. ASSUME uses' = uses, running' \ expired' \subseteq running \ expired,
               UNCHANGED <<pc, call, own>>,
               \A j \in running' \ expired' : IsPending(j) => out'[j] = out[j]
        PROVE  Attended'
    <2>1. ASSUME NEW j \in running' \ expired'
          PROVE  WaitedOn(j)'
      <3>1. WaitedOn(j) /\ j \in Jobs
        BY <1>1, <1>8
      <3>2. CASE Pended(j)
        <4>1. Pended(j)'
          BY <1>5, <1>8, <2>1, <3>1, <3>2 DEF Pended
        <4> QED BY <4>1 DEF WaitedOn
      <3>3. CASE \E u \in Threads : Waited(u, j)
        BY <1>6, <1>8, <3>3 DEF WaitedOn
      <3> QED BY <3>1, <3>2, <3>3 DEF WaitedOn
    <2>2. \A j \in Jobs : uses'[j] \subseteq 1 .. made'
      BY <1>1, <1>3, <1>8
    <2> QED BY <2>1, <2>2 DEF Attended, WaitedOn, Jobs
  <1>9. ASSUME NEW t \in Threads, Begins(t)
        PROVE  Attended'
    <2>1. PICK op \in {"job", "blend", "encode", "alloc", "import", "shared"},
               mode \in {"sync", "ref", "pending"}, borrowed \in SUBSET Ids, dst \in Ids \cup {0} :
               \E todos : Begin(t, op, mode, todos, borrowed, dst)
      BY <1>1, <1>9, BeginEffect
    <2>2. /\ pc[t] = "idle" /\ UNCHANGED <<uses, running, expired, out, own>>
          /\ \A u \in Threads : u # t => pc'[u] = pc[u] /\ call'[u] = call[u]
      BY <1>1, <2>1 DEF Begin, daemon, objs, hist, Types
    <2> QED BY <1>7, <2>2
  <1>10. ASSUME NEW t \in Threads, Lets(t)
         PROVE  Attended'
    <2>1. /\ UNCHANGED <<uses, running, out>> /\ expired \subseteq expired'
          /\ pc[t] = "running" => call[t].job \notin running \ expired'
          /\ \A u \in Threads : u # t => pc'[u] = pc[u] /\ call'[u] = call[u] /\ own'[u] = own[u]
      BY <1>1, <1>10, LeavesSound DEF Lets, daemon, objs, Leaves, Types
    <2> QED BY <1>7, <2>1
  <1>11. ASSUME NEW t \in Threads, Copies(t)
         PROVE  Attended'
    <2>1. /\ UNCHANGED <<uses, running, out, expired, own, call>>
          /\ call[t].job \notin running
          /\ \A u \in Threads : u # t => pc'[u] = pc[u]
      BY <1>1, <1>11 DEF Copies, daemon, objs, hist, Types
    <2> QED BY <1>7, <2>1
  <1>12. ASSUME NEW t \in Threads, Delivers(t)
         PROVE  Attended'
    <2>1. call[t].job \in Jobs /\ out[call[t].job] = NoOut /\ ~IsPending(call[t].job)
      BY <1>1, <1>12 DEF ThreadSound, Delivers, IsPending, NoOut
    <2>2. /\ UNCHANGED <<uses, running, expired>> /\ call[t].job \notin running
          /\ \A u \in Threads : u # t => pc'[u] = pc[u] /\ call'[u] = call[u] /\ own'[u] = own[u]
          /\ \A j \in Jobs : j # call[t].job => out'[j] = out[j]
      BY <1>1, <1>12 DEF Delivers, HandsOver, Leaves, daemon, hist, Types
    <2> QED BY <1>1, <1>7, <2>1, <2>2
  <1>13. ASSUME NEW t \in Threads, Accepted(t)
         PROVE  /\ jobs + 1 \in Jobs /\ jobs + 1 \notin running /\ running' = running \cup {jobs + 1}
                /\ uses'[jobs + 1] = ToSet(own[t]) \cup call[t].borrowed
                /\ \A j \in Jobs : j # jobs + 1 => uses'[j] = uses[j]
                /\ \A j \in Jobs : uses'[j] \subseteq 1 .. made'
                /\ reg' = reg
    <2>1. /\ jobs + 1 \in Jobs /\ jobs + 1 \notin running /\ running' = running \cup {jobs + 1}
          /\ uses'[jobs + 1] = ToSet(own[t]) \cup call[t].borrowed
          /\ \A j \in Jobs : j # jobs + 1 => uses'[j] = uses[j]
          /\ reg' = reg
      BY <1>1, <1>13 DEF Accepted, Types, Jobs
    <2>2. uses'[jobs + 1] \subseteq 1 .. made
      BY <1>1, <2>1, PlacedFacts DEF Borrowing
    <2> QED BY <1>1, <1>3, <2>1, <2>2
  <1>14. ASSUME NEW t \in Threads, SubmitSync(t)
         PROVE  Attended'
    <2>1. /\ pc[t] # "running" /\ pc'[t] = "running" /\ UNCHANGED <<own, out, expired>>
          /\ call'[t] = [call[t] EXCEPT !.job = jobs + 1]
          /\ \A u \in Threads : u # t => pc'[u] = pc[u] /\ call'[u] = call[u]
          /\ Accepted(t)
      BY <1>1, <1>14 DEF SubmitSync, Submitting, Obtaining, Types, objs, hist
    <2>2. call'[t].job = jobs + 1 /\ call'[t].borrowed = call[t].borrowed
      BY <1>1, <2>1 DEF Types, Calls
    <2>0. PICK n : n = jobs + 1
      OBVIOUS
    <2>3. Waited(t, n)'
      BY <1>13, <2>0, <2>1, <2>2 DEF Waited
    <2>4. ASSUME NEW j \in running' \ expired', j # n
          PROVE  WaitedOn(j)'
      <3>1. WaitedOn(j) /\ j \in Jobs /\ uses'[j] = uses[j]
        BY <1>1, <1>13, <2>0, <2>1, <2>4
      <3>2. CASE Pended(j)
        <4>1. Pended(j)'
          BY <1>5, <2>1, <3>1, <3>2
        <4> QED BY <4>1 DEF WaitedOn
      <3>3. CASE \E u \in Threads : Waited(u, j)
        <4>1. PICK u \in Threads : Waited(u, j)
          BY <3>3
        <4>2. u # t
          BY <2>1, <4>1 DEF Waited
        <4>3. Waited(u, j)'
          BY <1>6, <2>1, <3>1, <4>1, <4>2
        <4> QED BY <4>3 DEF WaitedOn
      <3> QED BY <3>1, <3>2, <3>3 DEF WaitedOn
    <2>5. \A j \in running' \ expired' : WaitedOn(j)'
      BY <2>3, <2>4 DEF WaitedOn
    <2>6. \A j \in Jobs : uses'[j] \subseteq 1 .. made'
      BY <1>13, <2>1
    <2> QED BY <2>5, <2>6 DEF Attended, WaitedOn, Jobs
  <1>15. ASSUME NEW t \in Threads, SubmitAsync(t)
         PROVE  Attended'
    <2>1. Accepted(t) /\ HandsOver(t, jobs + 1, "pending", "pending") /\ pc[t] = "submit"
          /\ held' = held /\ expired' = expired
      BY <1>15 DEF SubmitAsync, hist
    <2>2. PICK n : n = jobs + 1
      OBVIOUS
    <2>3. /\ n \in Jobs /\ n \notin running /\ running' = running \cup {n} /\ out[n] = NoOut
          /\ uses'[n] = ToSet(own[t]) \cup call[t].borrowed
          /\ \A j \in Jobs : j # n => uses'[j] = uses[j]
          /\ \A j \in Jobs : uses'[j] \subseteq 1 .. made'
          /\ reg' = reg
      <3>1. jobs + 1 > jobs
        BY <1>1
      <3> QED BY <1>1, <1>13, <2>1, <2>2, <3>1 DEF CallsSound
    <2>4. /\ out'[n].form = "pending" /\ out'[n].st = "pending" /\ out'[n].own = own[t]
          /\ \A j \in Jobs : j # n => out'[j] = out[j]
          /\ \A u \in Threads : u # t => pc'[u] = pc[u] /\ call'[u] = call[u] /\ own'[u] = own[u]
      BY <1>1, <2>1, <2>2, <2>3 DEF HandsOver, Leaves, Types
    <2>5. Pended(n)'
      <3>1. \A i : Lent(i) => Lent(i)'
        <4>1. \A r \in LiveRefs : r # n /\ r \in Jobs
          BY <2>3 DEF LiveRefs, NoOut
        <4>2. \A r \in LiveRefs : r \in LiveRefs' /\ out'[r] = out[r]
          BY <2>4, <4>1 DEF LiveRefs, Jobs
        <4> QED BY <2>1, <4>2 DEF Lent
      <3>2. \A i \in uses'[n] : reg'[i] # 0 => i \in ToSet(out'[n].own) \/ Lent(i)'
        BY <1>1, <2>3, <2>4, <3>1 DEF Borrowing
      <3> QED BY <2>4, <3>2 DEF Pended, IsPending
    <2>6. ASSUME NEW j \in running' \ expired', j # n
          PROVE  WaitedOn(j)'
      <3>1. WaitedOn(j) /\ j \in Jobs /\ uses'[j] = uses[j]
        BY <1>1, <2>1, <2>3, <2>6
      <3>2. CASE Pended(j)
        <4>1. Pended(j)'
          BY <1>5, <2>4, <2>6, <3>1, <3>2
        <4> QED BY <4>1 DEF WaitedOn
      <3>3. CASE \E u \in Threads : Waited(u, j)
        <4>1. PICK u \in Threads : Waited(u, j)
          BY <3>3
        <4>2. u # t
          BY <2>1, <4>1 DEF Waited
        <4>3. Waited(u, j)'
          BY <1>6, <2>4, <3>1, <4>1, <4>2
        <4> QED BY <4>3 DEF WaitedOn
      <3> QED BY <3>1, <3>2, <3>3 DEF WaitedOn
    <2>7. \A j \in running' \ expired' : WaitedOn(j)'
      BY <2>5, <2>6 DEF WaitedOn
    <2> QED BY <2>3, <2>7 DEF Attended, WaitedOn, Jobs
  <1>16. ASSUME NEW t \in Threads, Free(t)
         PROVE  Attended'
    <2>1. /\ pc[t] # "running" /\ UNCHANGED <<uses, running, out, expired, call>>
          /\ \A u \in Threads : u # t => pc'[u] = pc[u] /\ own'[u] = own[u]
      BY <1>1, <1>16 DEF Free, Types
    <2> QED BY <1>7, <2>1
  <1>17. ASSUME NEW t \in Threads, NEW k \in Jobs, ReleaseOut(t, k)
         PROVE  Attended'
    <2>1. /\ pc[t] = "idle" /\ UNCHANGED <<uses, running, call>>
          /\ \A u \in Threads : u # t => pc'[u] = pc[u] /\ own'[u] = own[u]
          /\ expired' = expired \cup GivenUp(k)
          /\ \A j \in Jobs : j # k => out'[j] = out[j]
      BY <1>1, <1>17 DEF ReleaseOut, daemon, Types
    <2>2. ASSUME NEW j \in running' \ expired', IsPending(j)
          PROVE  out'[j] = out[j]
      <3>1. j # k
        BY <2>1, <2>2 DEF GivenUp
      <3> QED BY <1>1, <2>1, <2>2, <3>1
    <2> QED BY <1>7, <2>1, <2>2
  <1>18. ASSUME NEW b \in Ids, ReleaseHeld(b)
         PROVE  Attended'
    BY <1>8, <1>18 DEF ReleaseHeld, thr
  <1>19. ASSUME NEW j \in Jobs, JobEnds(j)
         PROVE  Attended'
    <2>1. running' \ expired' \subseteq running \ expired
      BY <1>19 DEF JobEnds
    <2> QED BY <1>8, <1>19, <2>1 DEF JobEnds, objs, thr
  <1>20. ASSUME NEW k \in Jobs, Settles(k)
         PROVE  Attended'
    <2>1. /\ UNCHANGED <<uses, running, call, pc, own>> /\ expired' = expired \cup ({k} \cap running)
          /\ \A j \in Jobs : j # k => out'[j] = out[j]
      BY <1>1, <1>20 DEF Settles, daemon, thr, Types
    <2>2. \A j \in running' \ expired' : IsPending(j) => out'[j] = out[j]
      BY <1>1, <2>1
    <2> QED BY <1>8, <2>1, <2>2
  <1>21. CASE close \/ DaemonGone
    BY <1>8, <1>21 DEF close, DaemonGone, objs, thr, hist
  <1>22. ASSUME NEW t \in Threads, Exchange(t)
         PROVE  Attended'
    <2>1. PICK n \in {0, made + 1}, id \in 0 .. made' :
            /\ Exchanged(t) /\ Minted(n)
            /\ ((id = 0 /\ ExchangeThrows(t)) \/ (id # 0 /\ Obtained(t, id)))
      BY <1>1, <1>22, ExchangeEffect
    <2>2. pc[t] = "obtain" /\ UNCHANGED <<uses, running, out, expired>>
      BY <2>1 DEF Exchanged
    <2>3. id # 0 => id \in Ids
      BY <1>1, <2>1, DspAssumption DEF Minted, Ids, Types
    <2>4. \A u \in Threads : u # t => pc'[u] = pc[u] /\ call'[u] = call[u] /\ own'[u] = own[u]
      <3>1. CASE id = 0
        BY <1>1, <2>1, <3>1, ThrowsEffect DEF Leaves, Types
      <3>2. CASE id # 0 /\ (Keeps(t, id) \/ Gives(t, id))
        BY <1>1, <3>2 DEF Keeps, Gives, Types
      <3> QED BY <1>1, <2>1, <2>3, <3>1, <3>2, ObtainedEffect
    <2> QED BY <1>7, <2>2, <2>4
  <1> QED BY <1>9, <1>10, <1>11, <1>12, <1>14, <1>15, <1>16, <1>17, <1>18, <1>19, <1>20, <1>21,
             <1>22, NextCases

-----------------------------------------------------------------------------
(* The theorems *)

\* The invariant holds before the first call.
LEMMA DspInvInit ==
    ASSUME Init
    PROVE  DspInv
  <1>1. /\ 0 \in 0 .. 0 /\ 0 \in 0 .. MaxConns /\ 0 \in 0 .. MaxIds /\ 0 \in 0 .. MaxJobs
        /\ 0 \in 0 .. MaxCalls /\ <<>> \in Seq(0 .. 0) /\ <<>> \in Seq(Ids) /\ 0 \notin Ids
    BY DspAssumption DEF Ids
  <1>2. NoCall \in Calls /\ NoOut \in Outs /\ NoOut.own = <<>> /\ NoOut.st = "released"
        /\ NoOut.form = "none" /\ NoOut.dst = 0
        /\ ~NoCall.given /\ NoCall.dst = 0 /\ NoCall.borrowed = {}
    BY <1>1 DEF NoCall, NoOut, Calls, Outs
  <1>3. Types
    BY <1>1, <1>2 DEF Init, Types
  <1>4. /\ \A t \in Threads : own[t] = <<>> /\ call[t] = NoCall /\ pc[t] = "idle"
        /\ \A j \in Jobs : out[j] = NoOut /\ uses[j] = {}
        /\ \A i \in Ids : reg[i] = 0
        /\ late = <<>> /\ held = {} /\ forgotten = {} /\ unheard = {} /\ running = {} /\ stray = {}
        /\ conn = 0 /\ status = "ok"
    BY DEF Init
  <1>5. \A x \in Places : At(x) = {}
    <2>1. /\ At(<<"stream", 0>>) = {} /\ At(<<"app", 0>>) = {} /\ At(<<"nobody", 0>>) = {}
          /\ \A t \in Threads : At(<<"thread", t>>) = {}
          /\ \A j \in Jobs : At(<<"object", j>>) = {}
      BY <1>2, <1>4, AtFacts, EmptyList
    <2> QED BY <2>1, PlaceFacts
  <1>6. Placed
    BY <1>2, <1>4, <1>5, EmptyList DEF Placed, Located
  <1>7. Wired
    BY <1>4 DEF Wired
  <1>8. Releasable
    BY <1>2, <1>4, EmptyList DEF Releasable, InHands
  <1>9. CallsSound
    BY <1>2, <1>4 DEF CallsSound, ThreadSound
  <1>10. Borrowing
    <2>1. LiveRefs = {}
      BY <1>2, <1>4 DEF LiveRefs
    <2>2. 0 \in 0 .. made
      BY <1>1 DEF Init
    <2> QED BY <1>2, <1>4, <2>1, <2>2 DEF Borrowing
  <1>11. Attended /\ StrayOnlyImports
    BY <1>4 DEF Attended, StrayOnlyImports
  <1> QED BY <1>3, <1>6, <1>7, <1>8, <1>9, <1>10, <1>11 DEF DspInv

\* Every action keeps the inductive invariant, conjunct by conjunct.
LEMMA DspInvStep ==
    ASSUME DspInv, [Next]_vars
    PROVE  DspInv'
  BY TypesStep, PlacedStep, WiredStep, ReleasableStep, CallsStep, BorrowingStep, AttendedStep
     DEF DspInv

\* The inductive invariant, for every number of threads and buffers.
LEMMA DspInvHolds == Spec => []DspInv
  BY DspInvInit, DspInvStep, PTL DEF Spec

\* Every list of buffers is as short as there are buffers, so that Keepers
\* sees all of it.
LEMMA ShortList ==
    ASSUME NEW s \in Seq(Ids), Once(s)
    PROVE  DOMAIN s \subseteq Ids
  <1>1. Len(s) \in Nat /\ DOMAIN s = 1 .. Len(s) /\ s \in [1 .. Len(s) -> Ids]
    BY LenProperties
  <1>2. MaxIds \in Nat /\ 0 \notin Ids
    BY DspAssumption DEF Ids
  <1>3. \A m, n \in 1 .. Len(s) : s[m] = s[n] => m = n
    BY <1>1, <1>2 DEF Once
  <1>4. s \in Injection(1 .. Len(s), Ids)
    BY <1>1, <1>3 DEF Injection, IsInjective
  <1>5. IsFiniteSet(Ids) /\ Cardinality(Ids) = MaxIds
    BY <1>2, FS_Interval DEF Ids
  <1>6. Cardinality(1 .. Len(s)) = Len(s)
    BY <1>1, FS_Interval
  <1>7. Cardinality(1 .. Len(s)) <= Cardinality(Ids)
    BY <1>4, <1>5, FS_Injection
  <1> QED BY <1>1, <1>2, <1>5, <1>6, <1>7 DEF Ids

\* No buffer has two keepers, from the invariant.
LEMMA KeptOnce ==
    ASSUME DspInv
    PROVE  OneKeeper
  <1>1. Types /\ Placed /\ Located /\ made \in Nat /\ MaxIds \in Nat /\ 1 .. made \subseteq Ids
    BY DspAssumption DEF DspInv, Placed, Types, Ids
  <1>2. ASSUME NEW i \in 1 .. made, conn # 0, reg[i] = conn
        PROVE  \E k : Keepers(i) = {k}
    <2> DEFINE inThread == {x \in Threads \X Ids : x[2] \in DOMAIN own[x[1]] /\ own[x[1]][x[2]] = i}
    <2> DEFINE inObject == {x \in Jobs \X Ids : x[2] \in DOMAIN out[x[1]].own
                                                  /\ out[x[1]].own[x[2]] = i}
    <2> DEFINE inStream == {n \in DOMAIN late : late[n] = i}
    <2>1. Keepers(i) = ({"thread"} \X inThread) \cup ({"object"} \X inObject)
                       \cup ({"stream"} \X inStream) \cup ({"app"} \X (held \cap {i}))
                       \cup ({"nobody"} \X ((forgotten \cup unheard) \cap {i}))
      BY DEF Keepers
    <2>2. PICK x \in Places : i \in At(x) /\ \A y \in Places : i \in At(y) => y = x
      BY <1>1, <1>2 DEF Located
    <2>3. ASSUME NEW t \in Threads, NEW n \in DOMAIN own[t], own[t][n] = i
          PROVE  x = <<"thread", t>> /\ n \in Ids
      <3>1. i \in ToSet(own[t])
        BY <2>3 DEF ToSet
      <3>2. i \in At(<<"thread", t>>) /\ <<"thread", t>> \in Places
        BY <3>1, AtFacts, PlaceFacts
      <3>3. n \in Ids
        BY <1>1, <2>3, ShortList DEF Types, Placed
      <3> QED BY <2>2, <3>2, <3>3
    <2>4. ASSUME NEW j \in Jobs, NEW n \in DOMAIN out[j].own, out[j].own[n] = i
          PROVE  x = <<"object", j>> /\ n \in Ids
      <3>1. i \in ToSet(out[j].own)
        BY <2>4 DEF ToSet
      <3>2. i \in At(<<"object", j>>) /\ <<"object", j>> \in Places
        BY <3>1, AtFacts, PlaceFacts
      <3>3. n \in Ids
        <4>1. out[j].own \in Seq(Ids) /\ Once(out[j].own)
          BY <1>1 DEF Types, Outs, Placed
        <4> QED BY <2>4, <4>1, ShortList
      <3> QED BY <2>2, <3>2, <3>3
    <2>5. ASSUME NEW n \in DOMAIN late, late[n] = i
          PROVE  x = <<"stream", 0>>
      <3>1. i \in ToSet(late) \ {0}
        BY <1>2, <2>5 DEF ToSet
      <3>2. i \in At(<<"stream", 0>>) /\ <<"stream", 0>> \in Places
        BY <3>1, AtFacts, PlaceFacts
      <3> QED BY <2>2, <3>2
    <2>6. i \in held => x = <<"app", 0>>
      <3>1. At(<<"app", 0>>) = held /\ <<"app", 0>> \in Places
        BY AtFacts, PlaceFacts
      <3> QED BY <2>2, <3>1
    <2>7. i \in forgotten \cup unheard => x = <<"nobody", 0>>
      <3>1. At(<<"nobody", 0>>) = forgotten \cup unheard /\ <<"nobody", 0>> \in Places
        BY AtFacts, PlaceFacts
      <3> QED BY <2>2, <3>1
    <2>8. x[1] # "thread" => inThread = {}
      BY <2>3
    <2>9. x[1] # "object" => inObject = {}
      BY <2>4
    <2>10. x[1] # "stream" => inStream = {}
      BY <2>5
    <2>11. x[1] # "app" => held \cap {i} = {}
      BY <2>6
    <2>12. x[1] # "nobody" => (forgotten \cup unheard) \cap {i} = {}
      BY <2>7
    <2>13. CASE \E t \in Threads : x = <<"thread", t>>
      <3>1. PICK t \in Threads : x = <<"thread", t>>
        BY <2>13
      <3>2. PICK n \in DOMAIN own[t] : own[t][n] = i
        <4>1. i \in ToSet(own[t])
          BY <2>2, <3>1, AtFacts
        <4> QED BY <4>1 DEF ToSet
      <3>3. n \in Ids /\ Once(own[t]) /\ i # 0
        BY <1>1, <2>3, <3>2 DEF Placed
      <3>4. inThread = {<<t, n>>}
        <4>1. <<t, n>> \in inThread
          BY <3>2, <3>3
        <4>2. ASSUME NEW z \in inThread
              PROVE  z = <<t, n>>
          <5>1. PICK u \in Threads, m \in Ids : z = <<u, m>> /\ m \in DOMAIN own[u] /\ own[u][m] = i
            OBVIOUS
          <5>2. u = t
            BY <2>3, <3>1, <5>1
          <5>3. m = n
            BY <3>2, <3>3, <5>1, <5>2 DEF Once
          <5> QED BY <5>1, <5>2, <5>3
        <4> QED BY <4>1, <4>2
      <3>5. /\ inObject = {} /\ inStream = {} /\ held \cap {i} = {}
            /\ (forgotten \cup unheard) \cap {i} = {}
        BY <2>9, <2>10, <2>11, <2>12, <3>1
      <3> HIDE DEF inThread, inObject, inStream
      <3>6. Keepers(i) = {<<"thread", <<t, n>>>>}
        BY <2>1, <3>4, <3>5
      <3> QED BY <3>6
    <2>14. CASE \E j \in Jobs : x = <<"object", j>>
      <3>1. PICK j \in Jobs : x = <<"object", j>>
        BY <2>14
      <3>2. PICK n \in DOMAIN out[j].own : out[j].own[n] = i
        <4>1. i \in ToSet(out[j].own)
          BY <2>2, <3>1, AtFacts
        <4> QED BY <4>1 DEF ToSet
      <3>3. n \in Ids /\ Once(out[j].own) /\ i # 0
        BY <1>1, <2>4, <3>2 DEF Placed
      <3>4. inObject = {<<j, n>>}
        <4>1. <<j, n>> \in inObject
          BY <3>2, <3>3
        <4>2. ASSUME NEW z \in inObject
              PROVE  z = <<j, n>>
          <5>1. PICK k \in Jobs, m \in Ids : z = <<k, m>> /\ m \in DOMAIN out[k].own
                                             /\ out[k].own[m] = i
            OBVIOUS
          <5>2. k = j
            BY <2>4, <3>1, <5>1
          <5>3. m = n
            BY <3>2, <3>3, <5>1, <5>2 DEF Once
          <5> QED BY <5>1, <5>2, <5>3
        <4> QED BY <4>1, <4>2
      <3>5. /\ inThread = {} /\ inStream = {} /\ held \cap {i} = {}
            /\ (forgotten \cup unheard) \cap {i} = {}
        BY <2>8, <2>10, <2>11, <2>12, <3>1
      <3> HIDE DEF inThread, inObject, inStream
      <3>6. Keepers(i) = {<<"object", <<j, n>>>>}
        BY <2>1, <3>4, <3>5
      <3> QED BY <3>6
    <2>15. CASE x = <<"stream", 0>>
      <3>1. PICK n \in DOMAIN late : late[n] = i
        <4>1. i \in ToSet(late)
          BY <2>2, <2>15, AtFacts
        <4> QED BY <4>1 DEF ToSet
      <3>2. inStream = {n}
        BY <1>1, <3>1 DEF Placed, Once
      <3>3. /\ inThread = {} /\ inObject = {} /\ held \cap {i} = {}
            /\ (forgotten \cup unheard) \cap {i} = {}
        BY <2>8, <2>9, <2>11, <2>12, <2>15
      <3> HIDE DEF inThread, inObject, inStream
      <3>4. Keepers(i) = {<<"stream", n>>}
        BY <2>1, <3>2, <3>3
      <3> QED BY <3>4
    <2>16. CASE x = <<"app", 0>>
      <3>1. held \cap {i} = {i}
        BY <2>2, <2>16, AtFacts
      <3>2. /\ inThread = {} /\ inObject = {} /\ inStream = {}
            /\ (forgotten \cup unheard) \cap {i} = {}
        BY <2>8, <2>9, <2>10, <2>12, <2>16
      <3> HIDE DEF inThread, inObject, inStream
      <3>3. Keepers(i) = {<<"app", i>>}
        BY <2>1, <3>1, <3>2
      <3> QED BY <3>3
    <2>17. CASE x = <<"nobody", 0>>
      <3>1. (forgotten \cup unheard) \cap {i} = {i}
        BY <2>2, <2>17, AtFacts
      <3>2. inThread = {} /\ inObject = {} /\ inStream = {} /\ held \cap {i} = {}
        BY <2>8, <2>9, <2>10, <2>11, <2>17
      <3> HIDE DEF inThread, inObject, inStream
      <3>3. Keepers(i) = {<<"nobody", i>>}
        BY <2>1, <3>1, <3>2
      <3> QED BY <3>3
    <2> QED BY <2>13, <2>14, <2>15, <2>16, <2>17, PlaceFacts
  <1>3. ASSUME NEW i \in 1 .. made, conn # 0, reg[i] = conn
        PROVE  Cardinality(Keepers(i)) = 1
    <2>1. PICK k : Keepers(i) = {k}
      BY <1>2, <1>3
    <2>2. Cardinality({k}) = 1
      BY FS_Singleton
    <2> QED BY <2>1, <2>2
  <1> QED BY <1>3 DEF OneKeeper

\* Every buffer the daemon holds for the client has exactly one keeper.
THEOREM EveryBufferHasOneKeeper == Spec => []OneKeeper
  <1>1. DspInv => OneKeeper
    BY KeptOnce
  <1> QED BY <1>1, DspInvHolds, PTL

\* The identifiers are sound, and only an import of an earlier connection is
\* released on a connection that does not know it.
THEOREM IdentifiersAreSound == Spec => []IdsSound
  <1>1. DspInv => IdsSound
    <2>1. SUFFICES ASSUME DspInv PROVE IdsSound
      OBVIOUS
    <2>2. Types /\ CallsSound /\ StrayOnlyImports
      BY <2>1 DEF DspInv
    <2>3. \A j \in Jobs : out[j].st \in {"pending", "done", "alive", "released"}
      BY <2>2 DEF Types, Outs
    <2>4. \A t \in Threads : pc[t] = "idle" => own[t] = <<>>
      BY <2>2 DEF CallsSound, ThreadSound
    <2>5. TypeOK
      BY <2>2, <2>3, <2>4 DEF Types, TypeOK
    <2> QED BY <2>2, <2>5 DEF IdsSound
  <1> QED BY <1>1, DspInvHolds, PTL

\* What one step may do to a buffer that a job uses.
Outlived ==
    \A i \in Ids, j \in running' :
        reg[i] # 0 /\ reg'[i] = 0 /\ conn' = conn /\ status' = status /\ i \in uses[j]
            => j \in expired'

\* No step takes a buffer from a job that uses it.
LEMMA OutlivedStep ==
    ASSUME DspInv, [Next]_vars
    PROVE  Outlived
  <1>1. /\ Types /\ Placed /\ Wired /\ CallsSound /\ Borrowing /\ Attended
        /\ running \subseteq Jobs /\ 1 .. made \subseteq Ids
    <2>1. running \subseteq Jobs /\ 1 .. made \subseteq Ids
      BY DspAssumption DEF DspInv, Types, Jobs, Ids
    <2> QED BY <2>1 DEF DspInv
  <1>2. SUFFICES ASSUME NEW i \in Ids, NEW j \in running', reg[i] # 0, reg'[i] = 0, conn' = conn,
                        status' = status, i \in uses[j], j \notin expired'
                 PROVE  FALSE
    BY DEF Outlived
  <1>3. reg' # reg
    BY <1>2
  <1>4. Lent(i) => i \in held \/ \E r \in Jobs : i \in ToSet(out[r].own)
    BY DEF Lent, LiveRefs
  <1>5. ASSUME j \in running \ expired
        PROVE  \/ /\ IsPending(j) /\ (i \in held \/ \E r \in Jobs : i \in ToSet(out[r].own))
               \/ \E t \in Threads :
                     /\ pc[t] = "running"
                     /\ \/ i \in ToSet(own[t])
                        \/ /\ i \in call[t].borrowed
                           /\ i \in held \/ \E r \in Jobs : i \in ToSet(out[r].own)
    <2>1. CASE Pended(j)
      BY <1>1, <1>2, <1>4, <1>5, <2>1 DEF Pended
    <2>2. CASE \E t \in Threads : Waited(t, j)
      BY <1>1, <1>2, <1>4, <2>2 DEF Waited, Borrowing
    <2> QED BY <1>1, <1>5, <2>1, <2>2 DEF Attended
  <1>6. ASSUME NEW t \in Threads, Free(t)
        PROVE  FALSE
    <2>1. own[t] \in Seq(Ids) /\ own[t] # <<>> /\ pc[t] \in {"free", "destroy"}
      BY <1>1, <1>6 DEF CallsSound, ThreadSound, Free, Types
    <2>2. i = Head(own[t]) /\ running' = running /\ expired' = expired
      BY <1>1, <1>2, <1>6 DEF Free, send_release, Types
    <2>3. i \in ToSet(own[t])
      BY <2>1, <2>2, ListTypes
    <2>4. /\ i \notin held /\ \A r \in Jobs : i \notin ToSet(out[r].own)
          /\ \A u \in Threads : u # t => i \notin ToSet(own[u])
      BY <1>1, <2>3, PlacedFacts
    <2> QED BY <1>2, <1>5, <2>1, <2>2, <2>4
  <1>7. ASSUME NEW b \in Ids, ReleaseHeld(b)
        PROVE  FALSE
    <2>1. i = b /\ running' = running /\ expired' = expired /\ b \in held /\ Unborrowed(b)
      BY <1>1, <1>2, <1>7 DEF ReleaseHeld, send_release, Types
    <2>2. \A t \in Threads : i \notin ToSet(own[t])
      BY <1>1, <2>1, PlacedFacts
    <2>3. ~IsPending(j)
      BY <1>1, <1>2, <2>1 DEF Unborrowed
    <2>4. \A t \in Threads : pc[t] = "running" => i \notin call[t].borrowed
      BY <2>1 DEF Unborrowed
    <2> QED BY <1>2, <1>5, <2>1, <2>2, <2>3, <2>4
  <1>8. CASE UNCHANGED vars
    BY <1>3, <1>8 DEF vars, daemon
  <1>9. CASE close \/ DaemonGone
    BY <1>2, <1>9 DEF close, DaemonGone
  <1>10. ASSUME NEW t \in Threads, Exchange(t)
         PROVE  FALSE
    <2>1. PICK n \in {0, made + 1} : Minted(n)
      BY <1>1, <1>10, ExchangeEffect
    <2>2. i # made + 1
      BY <1>1, <1>2, DspAssumption DEF Wired, Types
    <2> QED BY <1>1, <1>2, <2>1, <2>2 DEF Minted, Types
  <1>11. ASSUME NEW t \in Threads, Begins(t)
         PROVE  FALSE
    <2>1. PICK op \in {"job", "blend", "encode", "alloc", "import", "shared"},
               mode \in {"sync", "ref", "pending"}, borrowed \in SUBSET Ids, dst \in Ids \cup {0} :
               \E todos : Begin(t, op, mode, todos, borrowed, dst)
      BY <1>1, <1>11, BeginEffect
    <2> QED BY <1>3, <2>1 DEF Begin, daemon
  <1>12. ASSUME NEW t \in Threads,
                Lets(t) \/ Copies(t) \/ Delivers(t) \/ SubmitSync(t) \/ SubmitAsync(t)
         PROVE  FALSE
    BY <1>3, <1>12 DEF Lets, Copies, Delivers, SubmitSync, SubmitAsync, Accepted, daemon
  <1>13. ASSUME NEW k \in Jobs, JobEnds(k) \/ Settles(k) \/ \E t \in Threads : ReleaseOut(t, k)
         PROVE  FALSE
    BY <1>3, <1>13 DEF JobEnds, Settles, ReleaseOut, daemon
  <1> QED BY <1>6, <1>7, <1>8, <1>9, <1>10, <1>11, <1>12, <1>13, NextCases

\* A buffer goes back to the daemon while a job uses it only if that job was
\* given up on.
THEOREM NoBufferLeavesItsJob == Spec => BuffersOutliveJobs
  <1>1. DspInv /\ [Next]_vars => [Outlived]_vars
    BY OutlivedStep
  <1> QED BY <1>1, DspInvHolds, PTL DEF Spec, BuffersOutliveJobs, Outlived

=============================================================================
