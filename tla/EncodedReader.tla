--------------------------- MODULE EncodedReader ---------------------------
(***************************************************************************)
(* EncodedStreamClient (cpp/src/media/encoded_stream_client.cpp): the      *)
(* readers of one client, each on a socket of its own, the reconnect       *)
(* budget of UdsStreamClientBase, and the SeqTracker they all share.       *)
(*                                                                         *)
(* A reader is a stream that reconnects, a stream that does not, or the    *)
(* get_frame() caller on the client's cached socket. Entering a call       *)
(* changes nothing, so it is not a step of its own. A packet is its        *)
(* sequence number within one life of the publisher; one that cannot be    *)
(* read whole (closed, late, or with a bogus length) is Torn.              *)
(***************************************************************************)
EXTENDS Naturals, FiniteSets, Sequences

CONSTANTS
  EncReaders,    \* the readers of one client
  EncAttempts,   \* kEncReconnectAttempts
  EncMaxSeq,     \* packets ever published
  EncMaxLives,   \* restarts of the publisher
  EncMaxCuts,    \* connections the publisher cuts on its own
  EncQueue       \* packets the publisher queues for one subscriber

ASSUME EncAssumption == EncMaxSeq \in Nat

VARIABLES
  ekind,    \* what each reader is: "stream", "once" or "get"
  ecount,   \* whether it is inside observe(), a packet in hand
  etries,   \* failed connects of the ensure_connected() call under way
  espent,   \* EncodedStream::Impl::exhausted
  econn,    \* each reader's socket: "none", "open", or "eof" (the peer closed)
  ewire,    \* what is still to be read from it
  epkt,     \* the packet a reader has read and not yet counted
  eprev,    \* the tracker's <<has_last, last_seq>> as that reader loaded it
  etrk,     \* SeqTracker
  epub,     \* the publisher: its life, the last number it gave out, and how
            \* many it gave out in its past lives
  ecuts,    \* connections cut so far
  egot,     \* the packets counted, as <<life, number>>
  eseen     \* the readers that have counted one

evars == <<ekind, ecount, etries, espent, econn, ewire, epkt, eprev, etrk,
           epub, ecuts, egot, eseen>>

Torn == [life |-> 0, seq |-> 0]

EncInit ==
  /\ ekind \in [EncReaders -> {"stream", "once", "get"}]
  /\ ecount = [r \in EncReaders |-> FALSE]
  /\ etries = [r \in EncReaders |-> 0]
  /\ espent = [r \in EncReaders |-> FALSE]
  /\ econn = [r \in EncReaders |-> "none"]
  /\ ewire = [r \in EncReaders |-> <<>>]
  /\ epkt = [r \in EncReaders |-> Torn]
  /\ eprev = [r \in EncReaders |-> <<FALSE, 0>>]
  /\ etrk = [packets |-> 0, gaps |-> 0, missing |-> 0, last |-> 0, has |-> FALSE]
  /\ epub = [life |-> 1, seq |-> 0, past |-> 0]
  /\ ecuts = 0 /\ egot = {} /\ eseen = {}

(* ensure_connected(): one attempt where reconnecting is disabled or where  *)
(* get_frame() lets the failure out, the whole budget otherwise.            *)
Allowed(r) == IF ekind[r] = "stream" THEN EncAttempts ELSE 1

Connecting(r) == econn[r] = "none" /\ ~ecount[r] /\ ~espent[r]

(* A plausible bug: a reconnect forgets the last number.                   *)
ForgetsOnReconnect(r) ==
  /\ Connecting(r)
  /\ etries' = [etries EXCEPT ![r] = 0]
  /\ econn' = [econn EXCEPT ![r] = "open"]
  /\ ewire' = [ewire EXCEPT ![r] = <<>>]
  /\ etrk' = [etrk EXCEPT !.has = FALSE]
  /\ UNCHANGED <<ekind, ecount, espent, epkt, eprev, epub, ecuts, egot, eseen>>

(* do_connect() succeeds: the socket carries what is published from now on; *)
(* nothing of the tracker is reset.                                         *)
EncConnects(r) ==
  /\ Connecting(r)
  /\ etries' = [etries EXCEPT ![r] = 0]
  /\ econn' = [econn EXCEPT ![r] = "open"]
  /\ ewire' = [ewire EXCEPT ![r] = <<>>]
  /\ UNCHANGED <<ekind, ecount, espent, epkt, eprev, etrk, epub, ecuts, egot, eseen>>

(* do_connect() throws: the next attempt after the back-off, or the end of  *)
(* the call, which leaves a stream exhausted and get_frame() with an error. *)
EncConnectFails(r) ==
  /\ Connecting(r)
  /\ IF etries[r] + 1 < Allowed(r)
       THEN /\ etries' = [etries EXCEPT ![r] = @ + 1]
            /\ UNCHANGED espent
       ELSE /\ etries' = [etries EXCEPT ![r] = 0]
            /\ espent' = [espent EXCEPT ![r] = ekind[r] # "get"]
  /\ UNCHANGED <<ekind, ecount, econn, ewire, epkt, eprev, etrk, epub, ecuts, egot, eseen>>

(* read_one_frame() returns false: the socket is closed whatever was read   *)
(* of the packet, so the next read starts at a packet's first byte.         *)
AfterFailure(r) ==
  /\ econn' = [econn EXCEPT ![r] = "none"]
  /\ ewire' = [ewire EXCEPT ![r] = <<>>]
  /\ espent' = [espent EXCEPT ![r] = ekind[r] = "once"]

Reading(r) == econn[r] # "none" /\ ~ecount[r]

(* The read fails on a torn packet or at the end of the stream; get_frame() *)
(* also gives up when its SO_RCVTIMEO runs out, the streams wait for ever.  *)
EncReadFails(r) ==
  /\ Reading(r)
  /\ IF ewire[r] = <<>> THEN econn[r] = "eof" \/ ekind[r] = "get"
                        ELSE Head(ewire[r]) = Torn
  /\ AfterFailure(r)
  /\ UNCHANGED <<ekind, ecount, etries, epkt, eprev, etrk, epub, ecuts, egot, eseen>>

(* The whole packet is read; observe() loads has_last and last_seq.         *)
EncReads(r) ==
  /\ Reading(r) /\ ewire[r] # <<>> /\ Head(ewire[r]) # Torn
  /\ epkt' = [epkt EXCEPT ![r] = Head(ewire[r])]
  /\ ewire' = [ewire EXCEPT ![r] = Tail(@)]
  /\ eprev' = [eprev EXCEPT ![r] = <<etrk.has, etrk.last>>]
  /\ ecount' = [ecount EXCEPT ![r] = TRUE]
  /\ UNCHANGED <<ekind, etries, espent, econn, etrk, epub, ecuts, egot, eseen>>

(* SeqTracker::observe after its loads: only a forward jump is a hole, a    *)
(* number that does not grow is a restarted publisher.                      *)
Observed(prev, seq) ==
  LET jump == prev[1] /\ seq > prev[2] + 1
  IN  [packets |-> etrk.packets + 1,
       gaps    |-> etrk.gaps + (IF jump THEN 1 ELSE 0),
       missing |-> etrk.missing + (IF jump THEN seq - prev[2] - 1 ELSE 0),
       last    |-> seq,
       has     |-> TRUE]

(* observe() stores, and the frame goes to the caller.                      *)
EncCounts(r) ==
  /\ ecount[r]
  /\ etrk' = Observed(eprev[r], epkt[r].seq)
  /\ egot' = egot \cup {<<epkt[r].life, epkt[r].seq>>}
  /\ eseen' = eseen \cup {r}
  /\ ecount' = [ecount EXCEPT ![r] = FALSE]
  /\ epkt' = [epkt EXCEPT ![r] = Torn]
  /\ eprev' = [eprev EXCEPT ![r] = <<FALSE, 0>>]
  /\ UNCHANGED <<ekind, etries, espent, econn, ewire, epub, ecuts>>

(* A spent stream is replaced: by the on_frame() thread after 500 ms, by    *)
(* anybody else with subscribe().                                           *)
EncFreshStream(r) ==
  /\ espent[r]
  /\ espent' = [espent EXCEPT ![r] = FALSE]
  /\ UNCHANGED <<ekind, ecount, etries, econn, ewire, epkt, eprev, etrk, epub, ecuts, egot, eseen>>

(* EncodedStreamClient::close(): the cached socket of get_frame().          *)
EncClose(r) ==
  /\ ekind[r] = "get" /\ Reading(r)
  /\ econn' = [econn EXCEPT ![r] = "none"]
  /\ ewire' = [ewire EXCEPT ![r] = <<>>]
  /\ UNCHANGED <<ekind, ecount, etries, espent, epkt, eprev, etrk, epub, ecuts, egot, eseen>>

Listening == {r \in EncReaders : econn[r] = "open" /\ Len(ewire[r]) < EncQueue}

(* The publisher numbers a packet when it queues it, and may evict it from  *)
(* the queue of a slow subscriber.                                          *)
EncPublish ==
  /\ epub.past + epub.seq < EncMaxSeq
  /\ epub' = [epub EXCEPT !.seq = @ + 1]
  /\ \E to \in SUBSET Listening :
       ewire' = [r \in EncReaders |-> IF r \in to THEN Append(ewire[r], [life |-> epub.life, seq |-> epub.seq + 1])
                                          ELSE ewire[r]]
  /\ UNCHANGED <<ekind, ecount, etries, espent, econn, epkt, eprev, etrk, ecuts, egot, eseen>>

(* The publisher cuts a connection, perhaps in the middle of a packet.      *)
EncCut(r) ==
  /\ ecuts < EncMaxCuts /\ econn[r] = "open"
  /\ ecuts' = ecuts + 1
  /\ econn' = [econn EXCEPT ![r] = "eof"]
  /\ \E tail \in {<<>>, <<Torn>>} : ewire' = [ewire EXCEPT ![r] = @ \o tail]
  /\ UNCHANGED <<ekind, ecount, etries, espent, epkt, eprev, etrk, epub, egot, eseen>>

(* The publisher restarts: every connection ends and numbers start at 1.    *)
EncRestart ==
  /\ epub.life < EncMaxLives /\ epub.seq > 0
  /\ epub' = [life |-> epub.life + 1, seq |-> 0, past |-> epub.past + epub.seq]
  /\ econn' = [r \in EncReaders |-> IF econn[r] = "open" THEN "eof" ELSE econn[r]]
  /\ UNCHANGED <<ekind, ecount, etries, espent, ewire, epkt, eprev, etrk, ecuts, egot, eseen>>

EncNext ==
  \/ \E r \in EncReaders :
       \/ EncConnects(r) \/ EncConnectFails(r) \/ EncReadFails(r)
       \/ EncReads(r) \/ EncCounts(r) \/ EncFreshStream(r) \/ EncClose(r)
       \/ EncCut(r)
  \/ EncPublish \/ EncRestart

EncSpec == EncInit /\ [][EncNext]_evars

-----------------------------------------------------------------------------
(* What was given out in the publisher's present life between two counted   *)
(* packets and never counted.                                               *)
Holes == {s \in 1 .. EncMaxSeq :
            /\ <<epub.life, s>> \notin egot
            /\ \E a, b \in 1 .. EncMaxSeq :
                 a < s /\ s < b /\ {<<epub.life, a>>, <<epub.life, b>>} \subseteq egot}

(* The counters mean what EncodedSeqStats says of them (encoded.hpp:46).    *)
(* Every frame handed over is counted once, whoever reads. While a single   *)
(* reader has used the client, through any number of lost connections, no   *)
(* packet counted as missing was received, and as long as the publisher has *)
(* not restarted seq_missing is exactly the number of packets that it gave  *)
(* out between two received ones and that never arrived. With two readers   *)
(* the shared last_seq makes phantom holes, so nothing is claimed of it.    *)
SeqExact ==
  /\ etrk.gaps <= etrk.missing
  /\ Cardinality(egot) <= etrk.packets
  /\ Cardinality(eseen) <= 1 =>
       /\ etrk.packets = Cardinality(egot)
       /\ etrk.packets + etrk.missing <= epub.past + epub.seq
       /\ epub.life = 1 => etrk.missing = Cardinality(Holes)
=============================================================================
