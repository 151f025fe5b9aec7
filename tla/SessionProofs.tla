--------------------------- MODULE SessionProofs ---------------------------
(***************************************************************************)
(* What publishing local operations guarantees for every device, bound and *)
(* combination of failures.                                                *)
(*                                                                         *)
(* ShapeInv says what the durable writes of a call have achieved when the  *)
(* call is between two of them; with it, an operation whose call succeeded *)
(* is in the confirmed part of the log, and an identity is above what its  *)
(* author had seen.  TokenInv adds that everything the log has ever shown  *)
(* is either confirmed or named by the intent that every power loss        *)
(* leaves; it needs that an intent is never left unconfirmed by a store    *)
(* that reports an error, and gives one token per operation.               *)
(***************************************************************************)
EXTENDS Session, FiniteSetTheorems, SequenceTheorems, WellFoundedInduction, TLAPS

\* What holds of every record that is published or about to be
Sound(rec) ==
    /\ rec.seq \in Nat \ {0}
    /\ rec.op.id.counter \in Nat
    /\ rec.op.seen \subseteq Nat
    /\ \A c \in rec.op.seen : rec.op.id.counter > c

\* An intent, if there is one, is one record and the history to store with it
IntentOK(pending) ==
    pending # <<>> => pending = <<pending[1]>> /\ Sound(Envelope(pending[1]))

ImageOK(d) ==
    /\ DOMAIN d = {"counter", "snapshot", "pending"}
    /\ d.counter \in Nat \ {0}
    /\ IntentOK(d.pending)

DiskOK == disk.now \in disk.may /\ \A d \in disk.may : ImageOK(d)

LogOK ==
    /\ log \in Seq(published)
    /\ synced \in Nat /\ synced <= Len(log)
    /\ \A p \in published : Sound(p)
    /\ \E b \in Nat : \A p \in published : p.seq <= b /\ p.op.id.counter <= b

MemOK(m) ==
    /\ DOMAIN m = {"ops", "seen", "history", "next", "envelope", "poisoned", "blocked",
                   "complete", "stuck"}
    /\ m.next \in Nat \ {0} /\ m.envelope \in Nat \ {0}
    /\ {m.poisoned, m.blocked, m.complete, m.stuck} \subseteq BOOLEAN
    /\ m.seen \subseteq Nat
    /\ m.stuck \/ \A c \in m.seen : c < m.next

PeersOK == peers \subseteq Nat /\ \E b \in Nat : \A c \in peers : c <= b

\* The record of the intent that the directory shows
Owed == IF disk.now.pending = <<>> THEN {} ELSE {Envelope(disk.now.pending[1])}

\* A writer queues only what is owed and knows only what is in the log.
WriterShape(w, owed, records) ==
    /\ DOMAIN w = {"started", "failed", "queue", "known"}
    /\ w.started \in BOOLEAN /\ w.failed \in BOOLEAN
    /\ w.queue \in Seq(owed)
    /\ w.known \subseteq ToSet(records)

WriterOK == WriterShape(writer, Owed, log)

\* The records no power loss can take away
Confirmed == {log[i] : i \in 1 .. synced}

\* The steps at which the intent is stored
Publishing == {"push", "flush", "store_snapshot", "clear_pending"}

\* Where a call is, and what it has achieved so far
CallOK ==
    /\ status \in {"down", "opening", "open"}
    /\ step \in {"idle", "store_pending", "replay"} \cup Publishing
    /\ status = "down" => step = "idle"
    /\ step # "idle" => /\ call.caller \in {"local", "open", "recover"}
                        /\ call.caller = "open" <=> status = "opening"
    /\ status = "opening" => step # "idle"
    /\ step = "store_pending" =>
          /\ call.caller = "local"
          /\ disk.now.pending = <<>>
          /\ Sound(Envelope(call.intent))
    /\ step \in Publishing => disk.now.pending = <<call.intent>>
    /\ step \in Publishing /\ call.caller = "recover" => mem.blocked \/ mem.poisoned
    /\ step \in Publishing \ {"push"} => writer.queue = <<>> /\ writer.started
    /\ step = "flush" => Envelope(call.intent) \in ToSet(log)
    /\ step \in {"store_snapshot", "clear_pending"} => Envelope(call.intent) \in Confirmed
    /\ step = "replay" /\ ~mem.blocked => disk.now.pending = <<>>
    /\ step = "replay" => call.caller # "local"
    /\ step = "idle" /\ status = "open" /\ ~mem.poisoned /\ ~mem.blocked =>
          disk.now.pending = <<>>
    /\ mem.complete => ~mem.blocked

SuccessOK == \A op \in succeeded : \E r \in Confirmed : r.op = op

ShapeInv ==
    /\ DiskOK /\ LogOK /\ MemOK(mem) /\ PeersOK /\ WriterOK /\ CallOK /\ SuccessOK

-----------------------------------------------------------------------------
(* Numbers and sequences *)

\* The largest element of a nonempty bounded set of naturals.
LEMMA MaxOf ==
    ASSUME NEW S, S \subseteq Nat, S # {}, NEW B \in Nat, \A n \in S : n <= B
    PROVE  Max(S) \in S /\ \A y \in S : y <= Max(S)
<1> DEFINE T == {B - n : n \in S}
<1>1. T \subseteq Nat /\ T # {}
  <2>1. \A n \in S : n \in Nat /\ n <= B
    OBVIOUS
  <2>2. \A n \in S : B - n \in Nat
    BY <2>1
  <2> QED  BY <2>2
<1>2. PICK t \in T : \A u \in T : ~(<<u, t>> \in OpToRel(<, Nat))
  <2> HIDE DEF T
  <2> QED  BY <1>1, NatLessThanWellFounded, WFMin
<1>3. t \in Nat /\ \A u \in T : u \in Nat /\ ~(u < t)
  <2> HIDE DEF T
  <2>1. \A u \in T : ~(u < t)
    BY <1>1, <1>2, Zenon DEF OpToRel
  <2> QED  BY <1>1, <2>1
<1>4. PICK x \in S : t = B - x
  BY <1>2
<1>5. \A y \in S : x >= y
  BY <1>3, <1>4
<1> QED  BY <1>5 DEF Max

\* st is s followed by t, element by element.
Joined(s, t, st, A) ==
    /\ st \in Seq(A)
    /\ Len(s) \in Nat /\ Len(t) \in Nat
    /\ Len(st) = Len(s) + Len(t)
    /\ ToSet(st) = ToSet(s) \cup ToSet(t)
    /\ \A i \in 1 .. Len(s) : st[i] = s[i]
    /\ \A i \in 1 .. Len(t) : st[Len(s) + i] = t[i]

\* Concatenation keeps the elements and the positions of both parts.
LEMMA Concatenated ==
    ASSUME NEW A, NEW B, NEW s \in Seq(A), NEW t \in Seq(B)
    PROVE  Joined(s, t, s \o t, A \cup B)
<1>1. s \in Seq(A \cup B) /\ t \in Seq(A \cup B)
  OBVIOUS
<1>2. /\ s \o t \in Seq(A \cup B)
      /\ Len(s \o t) = Len(s) + Len(t)
      /\ \A i \in 1 .. Len(s) : (s \o t)[i] = s[i]
      /\ \A i \in 1 .. Len(t) : (s \o t)[Len(s) + i] = t[i]
  BY <1>1
<1>3. /\ DOMAIN s = 1 .. Len(s) /\ DOMAIN t = 1 .. Len(t)
      /\ DOMAIN (s \o t) = 1 .. (Len(s) + Len(t))
      /\ Len(s) \in Nat /\ Len(t) \in Nat
  BY <1>1, <1>2
<1> DEFINE st == s \o t
<1> HIDE DEF st
<1>4. ToSet(st) \subseteq ToSet(s) \cup ToSet(t)
  <2> SUFFICES ASSUME NEW i \in 1 .. (Len(s) + Len(t))
               PROVE  st[i] \in ToSet(s) \cup ToSet(t)
    BY <1>3 DEF ToSet, st
  <2>1. CASE i <= Len(s)
    BY <2>1, <1>2, <1>3 DEF ToSet, st
  <2>2. CASE i > Len(s)
    <3>1. i - Len(s) \in 1 .. Len(t) /\ i = Len(s) + (i - Len(s))
      BY <2>2, <1>3
    <3> QED  BY <3>1, <1>2, <1>3 DEF ToSet, st
  <2> QED  BY <2>1, <2>2, <1>3
<1>5. ToSet(s) \subseteq ToSet(st)
  <2>1. \A i \in 1 .. Len(s) : i \in 1 .. (Len(s) + Len(t)) /\ s[i] = st[i]
    BY <1>2, <1>3 DEF st
  <2> QED  BY <2>1, <1>3 DEF ToSet, st
<1>6. ToSet(t) \subseteq ToSet(st)
  <2>1. \A i \in 1 .. Len(t) : Len(s) + i \in 1 .. (Len(s) + Len(t)) /\ t[i] = st[Len(s) + i]
    BY <1>2, <1>3 DEF st
  <2> QED  BY <2>1, <1>3 DEF ToSet, st
<1>7. st \in Seq(A \cup B)
  BY <1>2 DEF st
<1>8. Joined(s, t, st, A \cup B)
  BY <1>2, <1>3, <1>4, <1>5, <1>6, <1>7 DEF Joined, st
<1> QED  BY <1>8 DEF st

\* A prefix keeps the positions it has.
LEMMA Prefix ==
    ASSUME NEW A, NEW s \in Seq(A), NEW n \in 0 .. Len(s)
    PROVE  /\ SubSeq(s, 1, n) \in Seq(A)
           /\ Len(SubSeq(s, 1, n)) = n
           /\ \A i \in 1 .. n : SubSeq(s, 1, n)[i] = s[i]
           /\ ToSet(SubSeq(s, 1, n)) = {s[i] : i \in 1 .. n}
<1>1. /\ SubSeq(s, 1, n) \in Seq(A)
      /\ Len(SubSeq(s, 1, n)) = n
      /\ \A i \in 1 .. n : SubSeq(s, 1, n)[i] = s[i]
  OBVIOUS
<1>2. DOMAIN SubSeq(s, 1, n) = 1 .. n
  BY <1>1
<1> QED  BY <1>1, <1>2 DEF ToSet

-----------------------------------------------------------------------------
(* The private directory *)

Images(d) == d.now \in d.may /\ \A x \in d.may : ImageOK(x)

WriteResult == {"ok", "failed", "uncertain"}

\* What a write of a file of the directory can end with (Outcomes).
LEMMA FileOutcomes ==
    ASSUME NEW write \in {"counter", "pending", "snapshot", "clear"},
           NEW outcome \in Outcomes(write)
    PROVE  outcome \in WriteResult
<1>1. CASE outcome = "ok"
  BY <1>1 DEF WriteResult
<1>2. CASE outcome # "ok"
  <2>1. PICK f \in Failures : f[1] = write /\ outcome = f[2]
    BY <1>2 DEF Outcomes
  <2>2. f \in {"counter", "pending", "snapshot", "clear"} \X {"failed", "uncertain"}
    <3>1. f \notin {"push"} \X {"refused", "queued", "failed"}
      BY <2>1
    <3> QED  BY <3>1, SessionAssumption
  <2> QED  BY <2>1, <2>2 DEF WriteResult
<1> QED  BY <1>1, <1>2

\* The images of n are images of d in which one file may have been replaced.
Rewritten(d, n, file, value, outcome) ==
    /\ n.now \in n.may
    /\ \A x \in n.may : x \in d.may \/ \E y \in d.may : x = [y EXCEPT ![file] = value]
    /\ outcome # "failed" => n.now = [d.now EXCEPT ![file] = value]
    /\ outcome = "failed" => n = d
    /\ outcome = "ok" => n.may = {n.now}

\* Replacing a file changes that file in the images it changes (replace_atomically).
LEMMA ReplacedImages ==
    ASSUME NEW d, d.now \in d.may, NEW file, NEW value, NEW outcome \in WriteResult
    PROVE  Rewritten(d, Replaced(d, file, value, outcome), file, value, outcome)
<1> DEFINE n == Replaced(d, file, value, outcome)
<1> SUFFICES Rewritten(d, n, file, value, outcome)
  OBVIOUS
<1> HIDE DEF n
<1>1. CASE outcome = "ok"
  <2>1. n = [now |-> [d.now EXCEPT ![file] = value], may |-> {[d.now EXCEPT ![file] = value]}]
    BY <1>1 DEF Replaced, n
  <2> QED  BY <1>1, <2>1 DEF Rewritten
<1>2. CASE outcome = "uncertain"
  <2>1. n = [now |-> [d.now EXCEPT ![file] = value],
             may |-> d.may \cup {[y EXCEPT ![file] = value] : y \in d.may}]
    BY <1>2 DEF Replaced, n
  <2> QED  BY <1>2, <2>1 DEF Rewritten
<1>3. CASE outcome = "failed"
  BY <1>3 DEF Replaced, Rewritten, n
<1> QED  BY <1>1, <1>2, <1>3 DEF WriteResult, n

\* One image with one file replaced
LEMMA SnapshotOfImage ==
    ASSUME NEW y, ImageOK(y), NEW value, NEW x, x = [y EXCEPT !["snapshot"] = value]
    PROVE  ImageOK(x) /\ x.pending = y.pending /\ x.counter = y.counter
  BY DEF ImageOK

\* The same of the counter
LEMMA CounterOfImage ==
    ASSUME NEW y, ImageOK(y), NEW value \in Nat \ {0}, NEW x, x = [y EXCEPT !["counter"] = value]
    PROVE  ImageOK(x) /\ x.pending = y.pending /\ x.counter = value
  BY DEF ImageOK

\* n shows the same intent as d, and its images have the intents of images of d and
\* counters of images of d or not below "next".
Carried(d, n, next) ==
    /\ Images(n)
    /\ n.now.pending = d.now.pending
    /\ \A x \in n.may : \E y \in d.may :
          x.pending = y.pending /\ (x.counter = y.counter \/ x.counter >= next)

\* Nothing written
LEMMA SameCarried ==
    ASSUME NEW d, Images(d), NEW next
    PROVE  Carried(d, d, next)
  BY DEF Carried

\* Writing the history leaves intents and counters alone.
LEMMA SnapshotCarried ==
    ASSUME NEW d, Images(d), NEW value, NEW outcome \in WriteResult, NEW next
    PROVE  Carried(d, Replaced(d, "snapshot", value, outcome), next)
<1> DEFINE n == Replaced(d, "snapshot", value, outcome)
           upd(y) == [y EXCEPT !["snapshot"] = value]
<1>0. n = Replaced(d, "snapshot", value, outcome) /\ d.now \in d.may
  BY DEF Images
<1> HIDE DEF n
<1>1. /\ n.now \in n.may
      /\ \A x \in n.may :
            x \in d.may \/ \E y \in d.may : x = upd(y)
      /\ outcome # "failed" => n.now = upd(d.now)
      /\ outcome = "failed" => n = d
  <2>1. Rewritten(d, n, "snapshot", value, outcome)
    BY <1>0, ReplacedImages
  <2> QED  BY <2>1 DEF Rewritten
<1>2. \A y \in d.may : /\ ImageOK(y)
                       /\ ImageOK(upd(y))
                       /\ upd(y).pending = y.pending
                       /\ upd(y).counter = y.counter
  BY SnapshotOfImage DEF Images
<1> HIDE DEF upd
<1>3. n.now.pending = d.now.pending
  BY <1>1, <1>2 DEF Images
<1>4. ASSUME NEW x \in n.may
      PROVE  ImageOK(x) /\ \E y \in d.may : x.pending = y.pending /\ x.counter = y.counter
  <2>1. CASE x \in d.may
    BY <1>2, <2>1
  <2>2. ASSUME NEW y \in d.may, x = upd(y)
        PROVE  ImageOK(x) /\ x.pending = y.pending /\ x.counter = y.counter
    BY <1>2, <2>2
  <2> QED  BY <1>1, <2>1, <2>2
<1> QED  BY <1>1, <1>3, <1>4 DEF Carried, Images, n

\* Writing the counter leaves intents alone.
LEMMA CounterCarried ==
    ASSUME NEW d, Images(d), NEW next \in Nat \ {0}, NEW value \in Nat \ {0}, value >= next,
           NEW outcome \in WriteResult
    PROVE  Carried(d, Replaced(d, "counter", value, outcome), next)
<1> DEFINE n == Replaced(d, "counter", value, outcome)
           upd(y) == [y EXCEPT !["counter"] = value]
<1>0. n = Replaced(d, "counter", value, outcome) /\ d.now \in d.may
  BY DEF Images
<1> HIDE DEF n
<1>1. /\ n.now \in n.may
      /\ \A x \in n.may :
            x \in d.may \/ \E y \in d.may : x = upd(y)
      /\ outcome # "failed" => n.now = upd(d.now)
      /\ outcome = "failed" => n = d
  <2>1. Rewritten(d, n, "counter", value, outcome)
    BY <1>0, ReplacedImages
  <2> QED  BY <2>1 DEF Rewritten
<1>2. \A y \in d.may : /\ ImageOK(y)
                       /\ ImageOK(upd(y))
                       /\ upd(y).pending = y.pending
                       /\ upd(y).counter = value
  BY CounterOfImage DEF Images
<1> HIDE DEF upd
<1>3. n.now.pending = d.now.pending
  BY <1>1, <1>2 DEF Images
<1>4. ASSUME NEW x \in n.may
      PROVE  ImageOK(x) /\ \E y \in d.may :
                x.pending = y.pending /\ (x.counter = y.counter \/ x.counter >= next)
  <2>1. CASE x \in d.may
    BY <1>2, <2>1
  <2>2. ASSUME NEW y \in d.may, x = upd(y)
        PROVE  ImageOK(x) /\ x.pending = y.pending /\ x.counter >= next
    BY <1>2, <2>2
  <2> QED  BY <1>1, <2>1, <2>2
<1> QED  BY <1>1, <1>3, <1>4 DEF Carried, Images, n

\* Two writes in a row
LEMMA CarriedTwice ==
    ASSUME NEW d, NEW m, NEW n, NEW next, Carried(d, m, next), Carried(m, n, next)
    PROVE  Carried(d, n, next)
  BY DEF Carried

\* n is d after writing the intent.
IntentWritten(d, n, value, outcome) ==
    /\ Images(n)
    /\ outcome # "failed" => n.now.pending = value
    /\ outcome = "failed" => n = d
    /\ outcome = "ok" => \A x \in n.may : x.pending = value
    /\ \A x \in n.may : \E y \in d.may :
          x.counter = y.counter /\ (x.pending = y.pending \/ x.pending = value)

\* Writing the intent leaves the counters alone.
LEMMA PendingReplaced ==
    ASSUME NEW d, Images(d), NEW value, IntentOK(value), NEW outcome \in WriteResult,
           NEW n, n = Replaced(d, "pending", value, outcome)
    PROVE  IntentWritten(d, n, value, outcome)
<1> DEFINE upd(y) == [y EXCEPT !["pending"] = value]
<1>0. d.now \in d.may
  BY DEF Images
<1>1. /\ n.now \in n.may
      /\ \A x \in n.may :
            x \in d.may \/ \E y \in d.may : x = upd(y)
      /\ outcome # "failed" => n.now = upd(d.now)
      /\ outcome = "failed" => n = d
      /\ outcome = "ok" => n.may = {n.now}
  <2>1. Rewritten(d, n, "pending", value, outcome)
    BY <1>0, ReplacedImages
  <2> QED  BY <2>1 DEF Rewritten
<1>2. \A y \in d.may : /\ ImageOK(y)
                       /\ ImageOK(upd(y))
                       /\ upd(y).pending = value
                       /\ upd(y).counter = y.counter
  <2> TAKE y \in d.may
  <2>1. ImageOK(y) /\ upd(y) = [y EXCEPT !["pending"] = value]
    BY DEF Images
  <2> QED  BY <2>1 DEF ImageOK
<1> HIDE DEF upd
<1>3. outcome # "failed" => n.now.pending = value
  BY <1>1, <1>2 DEF Images
<1>4. ASSUME NEW x \in n.may
      PROVE  ImageOK(x) /\ \E y \in d.may :
                x.counter = y.counter /\ (x.pending = y.pending \/ x.pending = value)
  <2>1. CASE x \in d.may
    BY <1>2, <2>1
  <2>2. ASSUME NEW y \in d.may, x = upd(y)
        PROVE  ImageOK(x) /\ x.counter = y.counter /\ x.pending = value
    BY <1>2, <2>2
  <2> QED  BY <1>1, <2>1, <2>2
<1> QED  BY <1>1, <1>3, <1>4 DEF Images, IntentWritten

-----------------------------------------------------------------------------
(* The log and its writer *)

\* All a step does to the log, unless the power is lost: owed records are appended,
\* and the log may be synchronised.
LogGrows ==
    \E ext \in Seq(Owed) :
        /\ log' = log \o ext
        /\ published' = published \cup ToSet(ext)
        /\ synced' = synced \/ synced' = Len(log')

\* What is owed is a sound record.
LEMMA OwedIsSound ==
    ASSUME DiskOK
    PROVE  \A rec \in Owed : Sound(rec)
<1>1. IntentOK(disk.now.pending)
  BY DEF DiskOK, ImageOK
<1> QED  BY <1>1 DEF Owed, IntentOK

\* A growing log keeps its shape and what is confirmed.
LEMMA GrowthKeepsLog ==
    ASSUME LogOK, DiskOK, LogGrows
    PROVE  /\ LogOK'
           /\ Confirmed \subseteq Confirmed'
           /\ ToSet(log) \subseteq ToSet(log')
           /\ published \subseteq published'
<1>1. PICK ext \in Seq(Owed) :
        /\ log' = log \o ext
        /\ published' = published \cup ToSet(ext)
        /\ synced' = synced \/ synced' = Len(log')
  BY DEF LogGrows
<1>2. log \in Seq(published) /\ synced \in Nat /\ synced <= Len(log)
  BY DEF LogOK
<1>3. /\ Len(log') = Len(log) + Len(ext)
      /\ ToSet(log') = ToSet(log) \cup ToSet(ext)
      /\ \A i \in 1 .. Len(log) : log'[i] = log[i]
      /\ \A i \in 1 .. Len(ext) : log'[Len(log) + i] = ext[i]
      /\ log' \in Seq(published \cup Owed)
      /\ Len(log) \in Nat /\ Len(ext) \in Nat
  <2>1. Joined(log, ext, log', published \cup Owed)
    BY <1>1, <1>2, Concatenated
  <2> QED  BY <2>1 DEF Joined
<1>4. ToSet(ext) \subseteq Owed
  BY DEF ToSet
<1>5. log' \in Seq(published')
  <2>1. ToSet(log') \subseteq published'
    <3>1. ToSet(log) \subseteq published
      BY <1>2 DEF ToSet
    <3> QED  BY <1>1, <1>3, <3>1
  <2>2. \A i \in 1 .. Len(log') : log'[i] \in published'
    BY <1>3, <2>1 DEF ToSet
  <2> QED  BY <1>3, <2>2
<1>6. synced' \in Nat /\ synced' <= Len(log')
  BY <1>1, <1>2, <1>3
<1>7. \A p \in published' : Sound(p)
  BY <1>1, <1>4, OwedIsSound DEF LogOK
<1>8. \E b \in Nat : \A p \in published' : p.seq <= b /\ p.op.id.counter <= b
  <2>1. PICK b \in Nat : \A p \in published : p.seq <= b /\ p.op.id.counter <= b
    BY DEF LogOK
  <2>2. CASE Owed = {}
    BY <1>1, <1>4, <2>1, <2>2
  <2>3. CASE Owed # {}
    <3>1. PICK rec : Owed = {rec}
      BY <2>3 DEF Owed
    <3>2. rec.seq \in Nat /\ rec.op.id.counter \in Nat
      BY <3>1, OwedIsSound DEF Sound
    <3>3. PICK c \in Nat : b <= c /\ rec.seq <= c /\ rec.op.id.counter <= c
      <4>1. b + rec.seq + rec.op.id.counter \in Nat
        BY <3>2
      <4>2. /\ b <= b + rec.seq + rec.op.id.counter
            /\ rec.seq <= b + rec.seq + rec.op.id.counter
            /\ rec.op.id.counter <= b + rec.seq + rec.op.id.counter
        BY <3>2
      <4> QED  BY <4>1, <4>2
    <3>4. \A p \in published : p.seq \in Nat /\ p.op.id.counter \in Nat
      BY DEF LogOK, Sound
    <3>5. \A p \in published' : p.seq <= c /\ p.op.id.counter <= c
      BY <1>1, <1>4, <2>1, <3>1, <3>3, <3>4
    <3> QED  BY <3>5
  <2> QED  BY <2>2, <2>3
<1>9. Confirmed \subseteq Confirmed'
  <2>1. \A i \in 1 .. synced : i \in 1 .. synced' /\ i \in 1 .. Len(log)
    BY <1>1, <1>2, <1>3
  <2>2. \A i \in 1 .. synced : log[i] = log'[i] /\ i \in 1 .. synced'
    BY <1>3, <2>1
  <2> QED  BY <2>2 DEF Confirmed
<1> QED  BY <1>1, <1>3, <1>5, <1>6, <1>7, <1>8, <1>9 DEF LogOK

\* Appending owed records is growth.
LEMMA AppendGrows ==
    ASSUME LogOK, NEW ext \in Seq(Owed), LogBecomes(log \o ext),
           synced' = synced \/ synced' = Len(log')
    PROVE  LogGrows
<1>1. log \in Seq(published)
  BY DEF LogOK
<1>2. ToSet(log \o ext) = ToSet(log) \cup ToSet(ext)
  <2>1. Joined(log, ext, log \o ext, published \cup Owed)
    BY <1>1, Concatenated
  <2> QED  BY <2>1, Zenon DEF Joined
<1>3. ToSet(log) \subseteq published
  BY <1>1 DEF ToSet
<1>4. log' = log \o ext /\ published' = published \cup ToSet(ext)
  BY <1>2, <1>3 DEF LogBecomes
<1> QED  BY <1>4 DEF LogGrows

\* So is leaving the log alone, or synchronising it.
LEMMA SameGrows ==
    ASSUME LogOK, log' = log, published' = published, synced' = synced \/ synced' = Len(log)
    PROVE  LogGrows
<1>1. <<>> \in Seq(Owed) /\ log \in Seq(published)
  BY DEF LogOK
<1>2. log \o <<>> = log /\ ToSet(<<>>) = {}
  BY <1>1 DEF ToSet
<1> QED  BY <1>1, <1>2 DEF LogGrows

\* push starts with a writer of the right shape.
LEMMA WriterStarts ==
    ASSUME WriterOK
    PROVE  WriterShape(Writer, Owed, log) /\ Writer.started
<1>1. CASE writer.started
  BY <1>1 DEF Writer, WriterOK
<1>2. CASE ~writer.started
  <2>1. Writer = [started |-> TRUE, failed |-> FALSE, queue |-> <<>>, known |-> ToSet(log)]
    BY <1>2 DEF Writer, NoWriter
  <2> QED  BY <2>1 DEF WriterShape
<1> QED  BY <1>1, <1>2

\* A writer of the right shape keeps it while the log grows.
LEMMA ShapeGrows ==
    ASSUME NEW w, WriterShape(w, Owed, log), ToSet(log) \subseteq ToSet(log')
    PROVE  WriterShape(w, Owed, log')
  BY DEF WriterShape

\* What a step of the writer achieves
WriterSteps == LogGrows /\ WriterShape(writer', Owed, log')

\* A writer with a shorter queue, or one that has failed, has the right shape.
LEMMA WriterChanged ==
    ASSUME NEW w, NEW owed, NEW records, WriterShape(w, owed, records)
    PROVE  /\ WriterShape([w EXCEPT !.queue = <<>>], owed, records)
           /\ WriterShape([w EXCEPT !.queue = <<>>, !.failed = TRUE], owed, records)
           /\ [w EXCEPT !.queue = <<>>].queue = <<>>
           /\ [w EXCEPT !.queue = <<>>].started = w.started
  BY DEF WriterShape

\* A new writer
LEMMA NewWriterShape ==
    ASSUME NEW owed, NEW records
    PROVE  WriterShape(NoWriter, owed, records)
  BY DEF WriterShape, NoWriter

\* An envelope is written after the queue (Written).
LEMMA WrittenGrows ==
    ASSUME LogOK, DiskOK, WriterOK, NEW rec \in Owed, Written(rec)
    PROVE  WriterSteps /\ writer'.queue = <<>> /\ writer'.started /\ rec \in ToSet(log')
<1> DEFINE w == Writer
           tail == IF rec \in w.known THEN <<>> ELSE <<rec>>
           ext == w.queue \o tail
<1>1. WriterShape(w, Owed, log) /\ w.started
  BY WriterStarts
<1> HIDE DEF w
<1>2. w.queue \in Seq(Owed) /\ w.known \subseteq ToSet(log)
  BY <1>1 DEF WriterShape
<1>3. tail \in Seq(Owed)
  OBVIOUS
<1>4. LogBecomes((log \o w.queue) \o tail) /\ writer' = [w EXCEPT !.queue = <<>>]
      /\ synced' = synced
  BY DEF Written, w
<1>5. (log \o w.queue) \o tail = log \o ext
  <2> HIDE DEF tail
  <2>1. log \in Seq(published \cup Owed) /\ w.queue \in Seq(published \cup Owed)
        /\ tail \in Seq(published \cup Owed)
    BY <1>2, <1>3 DEF LogOK
  <2> DEFINE all == published \cup Owed
             queue == w.queue
  <2>2. log \in Seq(all) /\ queue \in Seq(all) /\ tail \in Seq(all)
    BY <2>1
  <2> HIDE DEF all, queue
  <2>3. (log \o queue) \o tail = log \o (queue \o tail)
    BY <2>2, ConcatAssociative
  <2> QED  BY <2>3 DEF queue
<1>6. ext \in Seq(Owed) /\ ToSet(ext) = ToSet(w.queue) \cup ToSet(tail)
  <2> HIDE DEF tail
  <2>1. Joined(w.queue, tail, ext, Owed \cup Owed)
    BY <1>2, <1>3, Concatenated
  <2> HIDE DEF ext
  <2> QED  BY <2>1 DEF Joined
<1>7. LogGrows
  <2> HIDE DEF ext, tail
  <2> QED  BY <1>4, <1>5, <1>6, AppendGrows
<1>8. ToSet(log) \subseteq ToSet(log')
  BY <1>7, GrowthKeepsLog
<1>9. WriterShape(writer', Owed, log') /\ writer'.queue = <<>> /\ writer'.started
  BY <1>1, <1>4, <1>8, ShapeGrows, WriterChanged
<1>10. rec \in ToSet(log')
  <2>1. CASE rec \in w.known
    BY <1>2, <1>8, <2>1
  <2>2. CASE rec \notin w.known
    <3>1. rec \in ToSet(tail)
      BY <2>2 DEF ToSet
    <3>2. log \in Seq(published)
      BY DEF LogOK
    <3> HIDE DEF ext, tail
    <3>3. Joined(log, ext, log \o ext, published \cup Owed)
      BY <1>6, <3>2, Concatenated
    <3>4. ToSet(ext) \subseteq ToSet(log \o ext)
      BY <3>3, Zenon DEF Joined
    <3>5. log' = log \o ext
      BY <1>4, <1>5 DEF LogBecomes
    <3> QED  BY <1>6, <3>1, <3>4, <3>5
  <2> QED  BY <2>1, <2>2
<1> QED  BY <1>7, <1>9, <1>10 DEF WriterSteps

\* The envelope is synchronised and remembered (Flushed).
LEMMA FlushedGrows ==
    ASSUME LogOK, WriterOK, NEW rec \in ToSet(log), Flushed(rec)
    PROVE  /\ WriterSteps /\ rec \in Confirmed'
           /\ writer'.queue = writer.queue /\ writer'.started = writer.started
<1>1. log' = log /\ published' = published /\ synced' = Len(log)
      /\ writer' = [writer EXCEPT !.known = @ \cup {rec}]
  BY DEF Flushed
<1>2. LogGrows
  BY <1>1, SameGrows
<1>3. WriterShape(writer', Owed, log') /\ writer'.queue = writer.queue
      /\ writer'.started = writer.started
  BY <1>1 DEF WriterOK, WriterShape
<1>4. rec \in Confirmed'
  <2>1. DOMAIN log = 1 .. Len(log)
    BY DEF LogOK
  <2> QED  BY <1>1, <2>1 DEF Confirmed, ToSet
<1> QED  BY <1>2, <1>3, <1>4 DEF WriterSteps

\* A part of a queue of owed records reaches the log (SomeWritten).
LEMMA SomeWrittenGrows ==
    ASSUME LogOK, NEW queue \in Seq(Owed), SomeWritten(queue), synced' = synced
    PROVE  LogGrows
<1>1. PICK k \in 0 .. Len(queue) : LogBecomes(log \o SubSeq(queue, 1, k))
  BY DEF SomeWritten
<1>2. SubSeq(queue, 1, k) \in Seq(Owed)
  OBVIOUS
<1> QED  BY <1>1, <1>2, AppendGrows

\* The segment fails (SegmentFails).
LEMMA SegmentFailsGrows ==
    ASSUME LogOK, DiskOK, NEW w, WriterShape(w, Owed, log), SegmentFails(w)
    PROVE  WriterSteps
<1>1. w.queue \in Seq(Owed)
  BY DEF WriterShape
<1>2. LogGrows
  BY <1>1, SomeWrittenGrows DEF SegmentFails
<1>3. ToSet(log) \subseteq ToSet(log')
  BY <1>2, GrowthKeepsLog
<1>4. writer' = [w EXCEPT !.queue = <<>>, !.failed = TRUE]
  BY DEF SegmentFails
<1> QED  BY <1>2, <1>3, <1>4, ShapeGrows, WriterChanged DEF WriterSteps

\* The queue is kept, or left to the destructor (KeepQueue).
LEMMA KeepQueueGrows ==
    ASSUME LogOK, DiskOK, NEW w, WriterShape(w, Owed, log), NEW destroyed,
           KeepQueue(w, destroyed)
    PROVE  WriterSteps
<1>1. w.queue \in Seq(Owed) /\ synced' = synced
  BY DEF WriterShape, KeepQueue
<1>2. CASE destroyed
  <2>1. LogGrows
    BY <1>1, <1>2, SomeWrittenGrows DEF KeepQueue
  <2>2. writer' = NoWriter
    BY <1>2 DEF KeepQueue
  <2> QED  BY <2>1, <2>2, NewWriterShape DEF WriterSteps
<1>3. CASE ~destroyed
  <2>1. log' = log /\ published' = published /\ writer' = w
    BY <1>3 DEF KeepQueue
  <2>2. LogGrows
    BY <1>1, <2>1, SameGrows
  <2> QED  BY <2>1, <2>2 DEF WriterSteps
<1> QED  BY <1>2, <1>3

\* push fails before the flush (WriteFails).
LEMMA WriteFailsGrows ==
    ASSUME LogOK, DiskOK, WriterOK, NEW rec \in Owed, WriteFails(rec)
    PROVE  WriterSteps
<1> DEFINE w == Writer
           queued == [w EXCEPT !.queue = IF rec \in w.known THEN @ ELSE Append(@, rec)]
<1>1. WriterShape(w, Owed, log) /\ w.started
  BY WriterStarts
<1> HIDE DEF w
<1>2. WriterShape(queued, Owed, log)
  <2>1. (IF rec \in w.known THEN w.queue ELSE Append(w.queue, rec)) \in Seq(Owed)
    BY <1>1 DEF WriterShape
  <2> QED  BY <1>1, <2>1 DEF WriterShape
<1> HIDE DEF queued
<1>3. CASE writer' = w /\ UNCHANGED <<log, synced, published>>
  <2>1. LogGrows
    BY <1>3, SameGrows
  <2> QED  BY <1>1, <1>3, <2>1 DEF WriterSteps
<1>4. CASE KeepQueue(queued, call.caller = "open")
  BY <1>2, <1>4, KeepQueueGrows
<1>5. CASE SegmentFails(queued)
  BY <1>2, <1>5, SegmentFailsGrows
<1>6. \/ writer' = w /\ UNCHANGED <<log, synced, published>>
      \/ KeepQueue(queued, call.caller = "open")
      \/ SegmentFails(queued)
  BY DEF WriteFails, w, queued
<1> QED  BY <1>3, <1>4, <1>5, <1>6

\* transport->flush fails (FlushFails).
LEMMA FlushFailsGrows ==
    ASSUME LogOK, DiskOK, WriterOK, NEW destroyed, FlushFails(destroyed)
    PROVE  WriterSteps /\ disk' = disk
<1>1. CASE UNCHANGED <<log, synced, writer, published>>
  <2>1. LogGrows
    BY <1>1, SameGrows
  <2> QED  BY <1>1, <2>1 DEF WriterSteps, WriterOK, FlushFails
<1>2. CASE SegmentFails(writer)
  BY <1>2, SegmentFailsGrows DEF WriterOK, FlushFails
<1>3. CASE KeepQueue(writer, destroyed)
  BY <1>3, KeepQueueGrows DEF WriterOK, FlushFails
<1> QED  BY <1>1, <1>2, <1>3 DEF FlushFails

\* transport->flush succeeds (QueueFlushed).
LEMMA QueueFlushedGrows ==
    ASSUME LogOK, DiskOK, WriterOK, QueueFlushed
    PROVE  WriterSteps
<1>1. writer.queue \in Seq(Owed)
  BY DEF WriterOK, WriterShape
<1>2. LogGrows
  <2>1. CASE writer.started
    <3>1. LogBecomes(log \o writer.queue) /\ synced' = Len(log')
      BY <2>1 DEF QueueFlushed
    <3> QED  BY <1>1, <3>1, AppendGrows
  <2>2. CASE ~writer.started
    <3>1. log' = log /\ published' = published /\ synced' = synced
      BY <2>2 DEF QueueFlushed
    <3> QED  BY <3>1, SameGrows
  <2> QED  BY <2>1, <2>2
<1>3. ToSet(log) \subseteq ToSet(log')
  BY <1>2, GrowthKeepsLog
<1>4. writer' = [writer EXCEPT !.queue = <<>>]
  BY DEF QueueFlushed
<1> QED  BY <1>2, <1>3, <1>4, ShapeGrows, WriterChanged DEF WriterSteps, WriterOK

-----------------------------------------------------------------------------
(* The memory *)

\* The allocator never moves back, and passes what it observes unless it is stuck
\* (observe).
LEMMA ObservingPasses ==
    ASSUME NEW m, MemOK(m), NEW counters, counters \subseteq Nat,
           NEW b \in Nat, \A c \in counters : c <= b
    PROVE  /\ Observing(m, counters) \in Nat \ {0}
           /\ m.next <= Observing(m, counters)
           /\ m.stuck \/ \A c \in counters : c < Observing(m, counters)
<1>1. m.next \in Nat \ {0}
  BY DEF MemOK
<1>2. CASE m.stuck
  BY <1>1, <1>2 DEF Observing
<1>3. CASE ~m.stuck
  <2> DEFINE S == {m.next} \cup {c + 1 : c \in counters}
  <2>1. S \subseteq Nat \ {0} /\ S # {}
    BY <1>1
  <2>2. m.next + b + 1 \in Nat /\ \A n \in S : n <= m.next + b + 1
    BY <1>1
  <2> HIDE DEF S
  <2>3. Max(S) \in S /\ \A n \in S : n <= Max(S)
    <3>1. S \subseteq Nat
      BY <2>1
    <3> QED  BY <2>1, <2>2, <3>1, MaxOf
  <2>4. Observing(m, counters) = Max(S)
    BY <1>3 DEF Observing, S
  <2>5. m.next \in S /\ \A c \in counters : c + 1 \in S
    BY DEF S
  <2>6. \A c \in counters : c + 1 <= Max(S) /\ c \in Nat
    BY <2>3, <2>5
  <2>7. Max(S) \in Nat \ {0} /\ m.next <= Max(S)
    BY <2>1, <2>3, <2>5
  <2> QED  BY <2>4, <2>6, <2>7
<1> QED  BY <1>2, <1>3

\* The own counters of the log are bounded by one of them (Through).
LEMMA ThroughIsNat ==
    ASSUME LogOK
    PROVE  Through(Ops(log)) \in Nat /\ \A o \in Ops(log) : o.id.counter <= Through(Ops(log))
<1> DEFINE S == {0} \cup {o.id.counter : o \in Ops(log)}
<1>1. PICK b \in Nat : \A p \in published : p.seq <= b /\ p.op.id.counter <= b
  BY DEF LogOK
<1>2. \A o \in Ops(log) : o.id.counter \in Nat /\ o.id.counter <= b
  <2>1. ToSet(log) \subseteq published
    BY DEF LogOK, ToSet
  <2> QED  BY <1>1, <2>1 DEF Ops, LogOK, Sound
<1>3. S \subseteq Nat /\ S # {} /\ \A n \in S : n <= b
  BY <1>1, <1>2
<1> HIDE DEF S
<1>4. Max(S) \in S /\ \A n \in S : n <= Max(S)
  BY <1>3, MaxOf
<1> QED  BY <1>3, <1>4 DEF Through, S

\* The envelope numbers of the log can be counted (NextSequence).
LEMMA NextSequenceIsNat ==
    ASSUME LogOK
    PROVE  NextSequence(ToSet(log)) \in Nat \ {0}
<1> DEFINE S == {r.seq : r \in ToSet(log)}
<1>1. PICK b \in Nat : \A p \in published : p.seq <= b /\ p.op.id.counter <= b
  BY DEF LogOK
<1>2. ToSet(log) \subseteq published
  BY DEF LogOK, ToSet
<1>3. S \in SUBSET Nat /\ \A n \in S : n <= b
  BY <1>1, <1>2 DEF LogOK, Sound
<1> HIDE DEF S
<1>4. IsFiniteSet(S)
  BY <1>3, FS_BoundedSetOfNaturals
<1>5. Cardinality(S) \in Nat
  BY <1>4, FS_CardinalityType
<1> QED  BY <1>5 DEF NextSequence, S

\* A session in which nothing has happened
LEMMA FreshMem ==
    ASSUME NEW n \in Nat \ {0}
    PROVE  MemOK(Fresh(n))
  BY DEF MemOK, Fresh

\* m2 differs from m in no field that decides whether the session may be used.
SameFlags(m, m2) ==
    /\ m2.poisoned = m.poisoned /\ m2.blocked = m.blocked /\ m2.complete = m.complete

\* Replaying keeps the shape of the memory and moves the allocator and the next
\* envelope forward (Replayed).
LEMMA ReplayedMem ==
    ASSUME MemOK(mem), LogOK, PeersOK
    PROVE  /\ MemOK(Replayed(mem)) /\ SameFlags(mem, Replayed(mem))
           /\ mem.next <= Replayed(mem).next
           /\ Replayed(mem).envelope =
                 IF mem.envelope >= NextSequence(ToSet(log)) THEN mem.envelope
                 ELSE NextSequence(ToSet(log))
<1> DEFINE counters == peers \cup {Through(Ops(log))}
           next == Observing(mem, counters)
           numbers == {mem.envelope, NextSequence(ToSet(log))}
           envelope == Max(numbers)
<1>1. PICK b \in Nat : \A c \in peers : c <= b
  BY DEF PeersOK
<1>2. Through(Ops(log)) \in Nat
  BY ThroughIsNat
<1>3. counters \subseteq Nat /\ b + Through(Ops(log)) \in Nat
      /\ \A c \in counters : c <= b + Through(Ops(log))
  <2> DEFINE top == Through(Ops(log))
  <2>1. peers \subseteq Nat /\ top \in Nat
    BY <1>2 DEF PeersOK
  <2> HIDE DEF top
  <2>2. \A c \in peers \cup {top} : c \in Nat /\ c <= b + top
    BY <1>1, <2>1
  <2>3. b + top \in Nat
    BY <2>1
  <2> QED  BY <2>2, <2>3 DEF top
<1> HIDE DEF counters
<1>4. /\ next \in Nat \ {0} /\ mem.next <= next
      /\ mem.stuck \/ \A c \in counters : c < next
  BY <1>3, ObservingPasses
<1>5. mem.envelope \in Nat \ {0} /\ NextSequence(ToSet(log)) \in Nat \ {0}
  BY NextSequenceIsNat DEF MemOK
<1>6. /\ envelope \in Nat \ {0}
      /\ envelope = IF mem.envelope >= NextSequence(ToSet(log)) THEN mem.envelope
                    ELSE NextSequence(ToSet(log))
  <2>1. numbers \subseteq Nat /\ numbers # {} /\ mem.envelope + NextSequence(ToSet(log)) \in Nat
        /\ \A n \in numbers : n <= mem.envelope + NextSequence(ToSet(log))
    BY <1>5
  <2>2. Max(numbers) \in numbers /\ \A n \in numbers : n <= Max(numbers)
    <3> HIDE DEF numbers
    <3> QED  BY <2>1, MaxOf
  <2> QED  BY <1>5, <2>2
<1>7. Replayed(mem) = [mem EXCEPT !.ops = @ \cup Ops(log), !.seen = peers,
                                  !.next = next, !.envelope = envelope]
  BY DEF Replayed, counters
<1> HIDE DEF next, envelope, numbers
<1>8. DOMAIN mem = {"ops", "seen", "history", "next", "envelope", "poisoned", "blocked",
                    "complete", "stuck"}
  BY DEF MemOK
<1> DEFINE m == Replayed(mem)
<1>9. /\ DOMAIN m = DOMAIN mem /\ m.seen = peers /\ m.next = next /\ m.envelope = envelope
      /\ m.stuck = mem.stuck /\ m.poisoned = mem.poisoned /\ m.blocked = mem.blocked
      /\ m.complete = mem.complete
  BY <1>7, <1>8
<1> HIDE DEF m
<1>10. m.stuck \/ \A c \in m.seen : c < m.next
  BY <1>4, <1>9 DEF counters
<1>11. MemOK(m)
  BY <1>4, <1>6, <1>9, <1>10 DEF MemOK, PeersOK
<1> QED  BY <1>4, <1>6, <1>9, <1>11 DEF SameFlags, m

\* update_completeness changes one flag.
LEMMA CompletedMem ==
    ASSUME NEW m, MemOK(m)
    PROVE  /\ MemOK(Completed(m))
           /\ Completed(m).poisoned = m.poisoned /\ Completed(m).blocked = m.blocked
           /\ Completed(m).complete => ~m.blocked
           /\ Completed(m).next = m.next /\ Completed(m).envelope = m.envelope
<1> DEFINE flag == ~m.poisoned /\ ~m.blocked
<1>1. flag \in BOOLEAN
  OBVIOUS
<1>2. Completed(m) = [m EXCEPT !.complete = flag]
  BY DEF Completed
<1> DEFINE n == Completed(m)
<1>3. flag => ~m.blocked
  OBVIOUS
<1> HIDE DEF flag
<1>4. /\ DOMAIN n = DOMAIN m /\ n.complete = flag
      /\ n.seen = m.seen /\ n.next = m.next /\ n.envelope = m.envelope /\ n.stuck = m.stuck
      /\ n.poisoned = m.poisoned /\ n.blocked = m.blocked
  BY <1>2 DEF MemOK
<1> HIDE DEF n
<1>5. MemOK(n)
  BY <1>1, <1>4 DEF MemOK
<1> QED  BY <1>3, <1>4, <1>5 DEF n

\* A call that failed poisons the session.
LEMMA PoisonedMem ==
    ASSUME NEW m, MemOK(m), NEW n, n = [m EXCEPT !.poisoned = TRUE]
    PROVE  /\ MemOK(n) /\ n.poisoned = TRUE /\ n.complete = m.complete
           /\ n.blocked = m.blocked /\ n.next = m.next /\ n.envelope = m.envelope
  BY DEF MemOK

\* The intent is no longer in the way.
LEMMA UnblockedMem ==
    ASSUME NEW m, MemOK(m), NEW n, n = [m EXCEPT !.blocked = FALSE]
    PROVE  /\ MemOK(n) /\ n.blocked = FALSE /\ n.poisoned = m.poisoned
           /\ n.next = m.next /\ n.envelope = m.envelope
  BY DEF MemOK

\* The intent may not be published.
LEMMA BlockedMem ==
    ASSUME NEW m, MemOK(m), NEW n, n = [m EXCEPT !.blocked = TRUE, !.complete = FALSE]
    PROVE  /\ MemOK(n) /\ n.blocked = TRUE /\ n.complete = FALSE
           /\ n.next = m.next /\ n.envelope = m.envelope
  BY DEF MemOK

\* Replaced histories change nothing else.
LEMMA HistoryMem ==
    ASSUME NEW m, MemOK(m), NEW h, NEW n, n = [m EXCEPT !.history = h]
    PROVE  /\ MemOK(n) /\ SameFlags(m, n)
           /\ n.next = m.next /\ n.envelope = m.envelope
  BY DEF MemOK, SameFlags

\* An identity is taken for an operation.
LEMMA BegunMem ==
    ASSUME NEW m, MemOK(m), NEW o, NEW h, NEW n,
           n = [m EXCEPT !.ops = o, !.history = h, !.next = m.next + 1]
    PROVE  MemOK(n) /\ SameFlags(m, n) /\ n.next = m.next + 1 /\ n.envelope = m.envelope
<1>1. /\ DOMAIN n = DOMAIN m /\ n.next = m.next + 1
      /\ n.seen = m.seen /\ n.envelope = m.envelope /\ n.stuck = m.stuck
      /\ n.poisoned = m.poisoned /\ n.blocked = m.blocked /\ n.complete = m.complete
  BY DEF MemOK
<1>2. m.next \in Nat \ {0} /\ \A c \in m.seen : c \in Nat /\ (c < m.next => c < m.next + 1)
  BY DEF MemOK
<1>3. MemOK(n)
  BY <1>1, <1>2 DEF MemOK
<1> QED  BY <1>1, <1>3 DEF SameFlags

-----------------------------------------------------------------------------
(* Every step keeps the shape *)

\* A step that writes no intent and does not lose power keeps the shape when it
\* keeps the memory and the call in order.
LEMMA ShapeKept ==
    ASSUME DiskOK, LogOK, WriterOK, SuccessOK, NEW k, Carried(disk, disk', k), WriterSteps,
           MemOK(mem'), PeersOK', CallOK', succeeded' = succeeded
    PROVE  ShapeInv'
<1>1. DiskOK' /\ Owed' = Owed
  BY DEF Carried, Images, DiskOK, Owed
<1>2. LogOK' /\ Confirmed \subseteq Confirmed'
  BY GrowthKeepsLog DEF WriterSteps
<1>3. WriterOK'
  BY <1>1 DEF WriterSteps, WriterOK
<1>4. SuccessOK'
  BY <1>2 DEF SuccessOK
<1> QED  BY <1>1, <1>2, <1>3, <1>4 DEF ShapeInv

\* A step that does not touch the log or its writer
LEMMA WriterSame ==
    ASSUME LogOK, WriterOK, UNCHANGED <<log, synced, published, writer>>
    PROVE  WriterSteps
<1>1. LogGrows
  BY SameGrows
<1> QED  BY <1>1 DEF WriterSteps, WriterOK

\* Between two calls, a session that may be used owes nothing.
LEMMA IdleCall ==
    ASSUME step' = "idle", status' \in {"down", "open"},
           status' = "open" /\ ~mem'.poisoned /\ ~mem'.blocked => disk'.now.pending = <<>>,
           mem'.complete => ~mem'.blocked
    PROVE  CallOK'
  BY DEF CallOK, Publishing

\* The failure of a call ends it in order (CallFails).
LEMMA CallFailsOK ==
    ASSUME CallOK, MemOK(mem), step \in Publishing \cup {"store_pending"}, CallFails
    PROVE  CallOK' /\ MemOK(mem')
<1>0. step' = "idle" /\ step # "idle"
  BY DEF CallFails, Publishing
<1>1. CASE call.caller = "local"
  <2>1. mem' = [mem EXCEPT !.poisoned = TRUE] /\ status' = status
    BY <1>1 DEF CallFails
  <2>2. MemOK(mem') /\ mem'.poisoned = TRUE /\ mem'.complete = mem.complete
        /\ mem'.blocked = mem.blocked
    BY <2>1, PoisonedMem
  <2>3. status' = "open" /\ (mem'.complete => ~mem'.blocked)
    BY <1>0, <1>1, <2>1, <2>2 DEF CallOK
  <2> QED  BY <1>0, <2>2, <2>3, IdleCall
<1>2. CASE call.caller = "open"
  <2>1. status' = "down" /\ mem' = Fresh(1)
    BY <1>2 DEF CallFails
  <2>2. MemOK(mem') /\ mem'.complete = FALSE
    BY <2>1, FreshMem DEF Fresh
  <2> QED  BY <1>0, <2>1, <2>2, IdleCall
<1>3. CASE call.caller = "recover"
  <2>1. status' = status /\ mem' = mem
    BY <1>3 DEF CallFails
  <2>2. status' = "open" /\ (mem'.blocked \/ mem'.poisoned) /\ (mem'.complete => ~mem'.blocked)
    BY <1>0, <1>3, <2>1 DEF CallOK
  <2> QED  BY <1>0, <2>1, <2>2, IdleCall
<1> QED  BY <1>0, <1>1, <1>2, <1>3 DEF CallOK

\* A local operation begins (ApplyLocal, Undo, Redo).
LEMMA BeginKeepsShape ==
    ASSUME ShapeInv, NEW toggles, NEW history, BeginPublish(NewOp(toggles), history)
    PROVE  ShapeInv'
<1> DEFINE op == NewOp(toggles)
<1>1. /\ status = "open" /\ step = "idle" /\ mem.complete /\ ~mem.poisoned /\ ~mem.stuck
      /\ disk' = Replaced(disk, "counter", mem.next + 1, "ok")
      /\ mem' = [mem EXCEPT !.ops = @ \cup {op}, !.history = history, !.next = @ + 1]
      /\ step' = "store_pending" /\ status' = status /\ peers' = peers
      /\ call' = [caller |-> "local",
                  intent |-> [seq |-> mem.envelope, op |-> op, history |-> history]]
      /\ UNCHANGED <<log, synced, published, writer>> /\ succeeded' = succeeded
  BY DEF BeginPublish, Ready, Reserved, ghostVars
<1>2. MemOK(mem) /\ ~mem.blocked /\ disk.now.pending = <<>>
  BY <1>1 DEF ShapeInv, CallOK
<1>3. Carried(disk, disk', mem.next)
  <2>1. mem.next \in Nat \ {0} /\ mem.next + 1 \in Nat \ {0} /\ mem.next + 1 >= mem.next
    BY <1>2 DEF MemOK
  <2>2. Images(disk) /\ "ok" \in WriteResult
    BY DEF ShapeInv, DiskOK, Images, WriteResult
  <2> QED  BY <1>1, <2>1, <2>2, CounterCarried
<1>4. /\ op.id.counter = mem.next /\ op.seen = mem.seen
  BY DEF NewOp
<1> HIDE DEF op
<1>5. MemOK(mem') /\ mem'.complete = mem.complete /\ mem'.blocked = mem.blocked
  <2>1. mem' = [mem EXCEPT !.ops = mem.ops \cup {op}, !.history = history,
                           !.next = mem.next + 1]
    BY <1>1
  <2>2. MemOK(mem') /\ SameFlags(mem, mem')
    BY <1>2, <2>1, BegunMem, Zenon
  <2> QED  BY <2>2 DEF SameFlags
<1>6. Sound(Envelope(call'.intent))
  <2>1. Envelope(call'.intent) = [seq |-> mem.envelope, op |-> op]
    BY <1>1 DEF Envelope
  <2>2. Envelope(call'.intent).seq = mem.envelope /\ Envelope(call'.intent).op = op
    BY <2>1
  <2>3. mem.envelope \in Nat \ {0} /\ mem.next \in Nat /\ mem.seen \subseteq Nat
        /\ \A c \in mem.seen : c < mem.next
    BY <1>1, <1>2 DEF MemOK
  <2> QED  BY <1>4, <2>2, <2>3 DEF Sound
<1>7. CallOK'
  <2>1. call'.caller = "local" /\ disk'.now.pending = <<>>
    BY <1>1, <1>2, <1>3 DEF Carried
  <2> QED  BY <1>1, <1>2, <1>5, <1>6, <2>1 DEF CallOK, Publishing
<1>8. WriterSteps
  BY <1>1, WriterSame DEF ShapeInv
<1>9. PeersOK'
  BY <1>1 DEF ShapeInv, PeersOK
<1> QED  BY <1>1, <1>3, <1>5, <1>7, <1>8, <1>9, ShapeKept DEF ShapeInv

\* The allocator refuses from now on (ReserveFails).
LEMMA StuckMem ==
    ASSUME NEW m, MemOK(m), NEW n, n = [m EXCEPT !.next = m.next + 1, !.stuck = TRUE]
    PROVE  MemOK(n) /\ SameFlags(m, n) /\ n.next = m.next + 1 /\ n.envelope = m.envelope
<1>1. /\ DOMAIN n = DOMAIN m /\ n.next = m.next + 1 /\ n.stuck = TRUE
      /\ n.seen = m.seen /\ n.envelope = m.envelope
      /\ n.poisoned = m.poisoned /\ n.blocked = m.blocked /\ n.complete = m.complete
  BY DEF MemOK
<1>2. m.next \in Nat \ {0}
  BY DEF MemOK
<1>3. MemOK(n)
  BY <1>1, <1>2 DEF MemOK
<1> QED  BY <1>1, <1>3 DEF SameFlags

\* The counter could not be stored (ReserveFails).
LEMMA ReserveFailsKeepsShape ==
    ASSUME ShapeInv, ReserveFails
    PROVE  ShapeInv'
<1>1. PICK outcome \in Outcomes("counter") :
        disk' = Replaced(disk, "counter", mem.next + 1, outcome)
  BY DEF ReserveFails, Reserved
<1>2. /\ status = "open" /\ step = "idle" /\ mem.complete /\ ~mem.poisoned
      /\ mem' = [mem EXCEPT !.next = mem.next + 1, !.stuck = TRUE]
      /\ UNCHANGED <<log, synced, published, writer>> /\ peers' = peers
      /\ status' = status /\ step' = step /\ succeeded' = succeeded
  BY DEF ReserveFails, Ready, ghostVars
<1>3. MemOK(mem) /\ ~mem.blocked /\ disk.now.pending = <<>>
  BY <1>2 DEF ShapeInv, CallOK
<1>4. Carried(disk, disk', mem.next)
  <2>1. mem.next \in Nat \ {0} /\ mem.next + 1 \in Nat \ {0} /\ mem.next + 1 >= mem.next
    BY <1>3 DEF MemOK
  <2>2. Images(disk) /\ outcome \in WriteResult
    BY FileOutcomes DEF ShapeInv, DiskOK, Images
  <2> QED  BY <1>1, <2>1, <2>2, CounterCarried
<1>5. MemOK(mem') /\ SameFlags(mem, mem')
  BY <1>2, <1>3, StuckMem, Zenon
<1>6. CallOK'
  <2>1. disk'.now.pending = <<>> /\ ~mem'.blocked
    BY <1>3, <1>4, <1>5 DEF Carried, SameFlags
  <2> QED  BY <1>2, <2>1, IdleCall
<1>7. WriterSteps
  BY <1>2, WriterSame DEF ShapeInv
<1>8. PeersOK'
  BY <1>2 DEF ShapeInv, PeersOK
<1> QED  BY <1>2, <1>4, <1>5, <1>6, <1>7, <1>8, ShapeKept DEF ShapeInv

\* The intent is stored, or not (StorePending).
LEMMA StorePendingKeepsShape ==
    ASSUME ShapeInv, StorePending
    PROVE  ShapeInv'
<1>1. PICK outcome \in Outcomes("pending") :
        /\ disk' = Replaced(disk, "pending", <<call.intent>>, outcome)
        /\ IF outcome = "ok" THEN Continue("push") /\ UNCHANGED mem ELSE CallFails
  BY DEF StorePending
<1>2. /\ step = "store_pending" /\ UNCHANGED <<log, synced, published, writer, peers>>
      /\ succeeded' = succeeded
  BY DEF StorePending, ghostVars
<1>3. /\ MemOK(mem) /\ call.caller = "local" /\ disk.now.pending = <<>>
      /\ Sound(Envelope(call.intent)) /\ status = "open" /\ (mem.complete => ~mem.blocked)
  BY <1>2 DEF ShapeInv, CallOK
<1>4. IntentWritten(disk, disk', <<call.intent>>, outcome)
  <2>1. IntentOK(<<call.intent>>)
    BY <1>3 DEF IntentOK
  <2>2. Images(disk) /\ outcome \in WriteResult
    BY FileOutcomes DEF ShapeInv, DiskOK, Images
  <2> QED  BY <1>1, <2>1, <2>2, PendingReplaced
<1>5. DiskOK'
  BY <1>4 DEF IntentWritten, Images, DiskOK
<1>6. LogOK' /\ SuccessOK' /\ PeersOK'
  BY <1>2 DEF ShapeInv, LogOK, SuccessOK, Confirmed, PeersOK
<1>7. WriterOK'
  <2>1. Owed = {}
    BY <1>3 DEF Owed
  <2>2. writer.queue \in Seq(Owed')
    BY <2>1 DEF ShapeInv, WriterOK, WriterShape
  <2> QED  BY <1>2, <2>2 DEF ShapeInv, WriterOK, WriterShape
<1>8. CASE outcome = "ok"
  <2>1. step' = "push" /\ call' = call /\ status' = status /\ mem' = mem
    BY <1>1, <1>8 DEF Continue
  <2>2. disk'.now.pending = <<call'.intent>>
    BY <1>4, <1>8, <2>1 DEF IntentWritten
  <2>3. CallOK'
    BY <1>3, <2>1, <2>2 DEF CallOK, Publishing
  <2> QED  BY <1>3, <1>5, <1>6, <1>7, <2>1, <2>3 DEF ShapeInv
<1>9. CASE outcome # "ok"
  <2>1. CallFails
    BY <1>1, <1>9
  <2>2. CallOK' /\ MemOK(mem')
    BY <1>2, <1>3, <2>1, CallFailsOK DEF ShapeInv
  <2> QED  BY <1>5, <1>6, <1>7, <2>2 DEF ShapeInv
<1> QED  BY <1>8, <1>9

\* While the intent is being published, its record is what is owed.
LEMMA IntentIsOwed ==
    ASSUME CallOK, step \in Publishing
    PROVE  Owed = {Envelope(call.intent)}
<1>1. disk.now.pending = <<call.intent>>
  BY DEF CallOK
<1>2. <<call.intent>> # <<>> /\ <<call.intent>>[1] = call.intent
  OBVIOUS
<1> QED  BY <1>1, <1>2 DEF Owed

\* The envelope is written to the segment (PushWrites).
LEMMA PushWritesKeepsShape ==
    ASSUME ShapeInv, PushWrites
    PROVE  ShapeInv'
<1> DEFINE rec == Envelope(call.intent)
<1>1. /\ step = "push" /\ Written(rec) /\ step' = "flush" /\ call' = call /\ status' = status
      /\ disk' = disk /\ peers' = peers /\ mem' = mem /\ succeeded' = succeeded
  BY DEF PushWrites, Continue
<1>2. rec \in Owed
  BY <1>1, IntentIsOwed DEF ShapeInv, Publishing
<1>3. WriterSteps /\ writer'.queue = <<>> /\ writer'.started /\ rec \in ToSet(log')
  BY <1>1, <1>2, WrittenGrows DEF ShapeInv
<1>4. Carried(disk, disk', 0)
  BY <1>1, SameCarried DEF ShapeInv, DiskOK, Images
<1>5. CallOK'
  BY <1>1, <1>3 DEF ShapeInv, CallOK, Publishing
<1>6. PeersOK' /\ MemOK(mem')
  BY <1>1 DEF ShapeInv, PeersOK
<1> QED  BY <1>1, <1>3, <1>4, <1>5, <1>6, ShapeKept DEF ShapeInv

\* The envelope could not be written or synchronised (PushError).
LEMMA PushErrorKeepsShape ==
    ASSUME ShapeInv, PushError
    PROVE  ShapeInv'
<1> DEFINE rec == Envelope(call.intent)
<1>1. /\ step \in Publishing
      /\ WriteFails(rec) \/ SegmentFails(writer)
      /\ CallFails
      /\ disk' = disk /\ peers' = peers /\ succeeded' = succeeded
  BY DEF PushError, Publishing
<1>2. rec \in Owed
  BY <1>1, IntentIsOwed DEF ShapeInv
<1>3. WriterSteps
  <2>1. CASE WriteFails(rec)
    BY <1>2, <2>1, WriteFailsGrows DEF ShapeInv
  <2>2. CASE SegmentFails(writer)
    BY <2>2, SegmentFailsGrows DEF ShapeInv, WriterOK
  <2> QED  BY <1>1, <2>1, <2>2
<1>4. Carried(disk, disk', 0)
  BY <1>1, SameCarried DEF ShapeInv, DiskOK, Images
<1>5. CallOK' /\ MemOK(mem')
  BY <1>1, CallFailsOK DEF ShapeInv
<1>6. PeersOK'
  BY <1>1 DEF ShapeInv, PeersOK
<1> QED  BY <1>1, <1>3, <1>4, <1>5, <1>6, ShapeKept DEF ShapeInv

\* The next envelope
LEMMA EnvelopeMem ==
    ASSUME NEW m, MemOK(m), NEW n, n = [m EXCEPT !.envelope = m.envelope + 1]
    PROVE  MemOK(n) /\ SameFlags(m, n) /\ n.next = m.next /\ n.envelope = m.envelope + 1
<1>1. /\ DOMAIN n = DOMAIN m /\ n.next = m.next /\ n.stuck = m.stuck
      /\ n.seen = m.seen /\ n.envelope = m.envelope + 1
      /\ n.poisoned = m.poisoned /\ n.blocked = m.blocked /\ n.complete = m.complete
  BY DEF MemOK
<1>2. m.envelope \in Nat \ {0}
  BY DEF MemOK
<1>3. MemOK(n)
  BY <1>1, <1>2 DEF MemOK
<1> QED  BY <1>1, <1>3 DEF SameFlags

\* The envelope is synchronised (PushFlushes).
LEMMA PushFlushesKeepsShape ==
    ASSUME ShapeInv, PushFlushes
    PROVE  ShapeInv'
<1> DEFINE rec == Envelope(call.intent)
<1>1. /\ step = "flush" /\ Flushed(rec) /\ step' = "store_snapshot" /\ call' = call
      /\ status' = status /\ disk' = disk /\ peers' = peers /\ succeeded' = succeeded
      /\ mem' = IF call.caller = "local" THEN [mem EXCEPT !.envelope = mem.envelope + 1]
                ELSE mem
  BY DEF PushFlushes, Continue
<1>2. rec \in ToSet(log) /\ writer.queue = <<>> /\ writer.started
  BY <1>1 DEF ShapeInv, CallOK, Publishing
<1>3. /\ WriterSteps /\ rec \in Confirmed' /\ writer'.queue = <<>> /\ writer'.started
  BY <1>1, <1>2, FlushedGrows DEF ShapeInv
<1>4. Carried(disk, disk', 0)
  BY <1>1, SameCarried DEF ShapeInv, DiskOK, Images
<1>5. MemOK(mem') /\ SameFlags(mem, mem')
  <2>1. CASE call.caller = "local"
    <3>1. mem' = [mem EXCEPT !.envelope = mem.envelope + 1] /\ MemOK(mem)
      BY <1>1, <2>1 DEF ShapeInv
    <3> QED  BY <3>1, EnvelopeMem, Zenon
  <2>2. CASE call.caller # "local"
    BY <1>1, <2>2 DEF ShapeInv, SameFlags
  <2> QED  BY <2>1, <2>2
<1>6. CallOK'
  BY <1>1, <1>3, <1>5 DEF ShapeInv, CallOK, Publishing, SameFlags
<1>7. PeersOK'
  BY <1>1 DEF ShapeInv, PeersOK
<1> QED  BY <1>1, <1>3, <1>4, <1>5, <1>6, <1>7, ShapeKept DEF ShapeInv

\* The history is stored, or not (StoreSnapshot).
LEMMA StoreSnapshotKeepsShape ==
    ASSUME ShapeInv, StoreSnapshot
    PROVE  ShapeInv'
<1>1. PICK outcome \in Outcomes("snapshot") :
        /\ disk' = Replaced(disk, "snapshot", <<call.intent.history>>, outcome)
        /\ IF outcome = "ok" THEN Continue("clear_pending") /\ UNCHANGED mem ELSE CallFails
  BY DEF StoreSnapshot
<1>2. /\ step = "store_snapshot" /\ UNCHANGED <<log, synced, published, writer>>
      /\ peers' = peers /\ succeeded' = succeeded
  BY DEF StoreSnapshot, ghostVars
<1>3. Carried(disk, disk', 0)
  <2>1. Images(disk) /\ outcome \in WriteResult
    BY FileOutcomes DEF ShapeInv, DiskOK, Images
  <2> QED  BY <1>1, <2>1, SnapshotCarried
<1>4. WriterSteps
  BY <1>2, WriterSame DEF ShapeInv
<1>5. PeersOK'
  BY <1>2 DEF ShapeInv, PeersOK
<1>6. CallOK' /\ MemOK(mem')
  <2>1. CASE outcome = "ok"
    <3>1. step' = "clear_pending" /\ call' = call /\ status' = status /\ mem' = mem
      BY <1>1, <2>1 DEF Continue
    <3>2. disk'.now.pending = disk.now.pending
      BY <1>3 DEF Carried
    <3>3. CallOK'
      BY <1>2, <3>1, <3>2 DEF ShapeInv, CallOK, Publishing, Confirmed
    <3> QED  BY <3>1, <3>3 DEF ShapeInv
  <2>2. CASE outcome # "ok"
    <3>1. CallFails /\ step \in Publishing
      BY <1>1, <1>2, <2>2 DEF Publishing
    <3> QED  BY <3>1, CallFailsOK DEF ShapeInv
  <2> QED  BY <2>1, <2>2
<1> QED  BY <1>2, <1>3, <1>4, <1>5, <1>6, ShapeKept DEF ShapeInv

\* The intent is cleared, or not (ClearPending).
LEMMA ClearPendingKeepsShape ==
    ASSUME ShapeInv, ClearPending
    PROVE  ShapeInv'
<1>1. PICK outcome \in Outcomes("clear") :
        /\ disk' = Replaced(disk, "pending", <<>>, outcome)
        /\ \/ /\ outcome # "ok" /\ CallFails
              /\ UNCHANGED succeeded
           \/ /\ outcome = "ok" /\ call.caller = "local"
              /\ step' = "idle" /\ call' = Idle
              /\ succeeded' = succeeded \cup {call.intent.op}
              /\ UNCHANGED <<status, mem>>
           \/ /\ outcome = "ok" /\ call.caller # "local"
              /\ Continue("replay")
              /\ mem' = [mem EXCEPT !.blocked = FALSE]
              /\ UNCHANGED succeeded
  BY DEF ClearPending
<1>2. step = "clear_pending" /\ UNCHANGED <<log, synced, published, writer, peers>>
  BY DEF ClearPending
<1>3. IntentWritten(disk, disk', <<>>, outcome)
  <2>1. IntentOK(<<>>)
    BY DEF IntentOK
  <2>2. Images(disk) /\ outcome \in WriteResult
    BY FileOutcomes DEF ShapeInv, DiskOK, Images
  <2> QED  BY <1>1, <2>1, <2>2, PendingReplaced
<1>4. DiskOK'
  BY <1>3 DEF IntentWritten, Images, DiskOK
<1>5. LogOK' /\ PeersOK' /\ Confirmed' = Confirmed
  BY <1>2 DEF ShapeInv, LogOK, Confirmed, PeersOK
<1>6. WriterOK'
  <2>1. writer.queue = <<>>
    BY <1>2 DEF ShapeInv, CallOK, Publishing
  <2>2. writer'.queue \in Seq(Owed')
    BY <1>2, <2>1
  <2> QED  BY <1>2, <2>2 DEF ShapeInv, WriterOK, WriterShape
<1>7. SuccessOK'
  <2>1. Envelope(call.intent) \in Confirmed /\ Envelope(call.intent).op = call.intent.op
    BY <1>2 DEF ShapeInv, CallOK, Envelope
  <2> QED  BY <1>1, <1>5, <2>1 DEF ShapeInv, SuccessOK
<1>8. CallOK' /\ MemOK(mem')
  <2>1. CASE outcome # "ok"
    <3>1. CallFails /\ step \in Publishing
      BY <1>1, <1>2, <2>1 DEF Publishing
    <3> QED  BY <3>1, CallFailsOK DEF ShapeInv
  <2>2. CASE outcome = "ok" /\ call.caller = "local"
    <3>1. step' = "idle" /\ status' = status /\ mem' = mem /\ disk'.now.pending = <<>>
      BY <1>1, <1>3, <2>2 DEF IntentWritten
    <3>2. status = "open" /\ (mem.complete => ~mem.blocked)
      BY <1>2, <2>2 DEF ShapeInv, CallOK
    <3> QED  BY <3>1, <3>2, IdleCall DEF ShapeInv
  <2>3. CASE outcome = "ok" /\ call.caller # "local"
    <3>1. /\ step' = "replay" /\ call' = call /\ status' = status
          /\ mem' = [mem EXCEPT !.blocked = FALSE] /\ disk'.now.pending = <<>>
      BY <1>1, <1>3, <2>3 DEF Continue, IntentWritten
    <3>2. MemOK(mem') /\ mem'.blocked = FALSE
      BY <3>1, UnblockedMem DEF ShapeInv
    <3>3. CallOK'
      BY <1>2, <2>3, <3>1, <3>2 DEF ShapeInv, CallOK, Publishing
    <3> QED  BY <3>2, <3>3
  <2> QED  BY <2>1, <2>2, <2>3
<1> QED  BY <1>4, <1>5, <1>6, <1>7, <1>8 DEF ShapeInv

\* Opening and recovering start with the stored intent (Reconcile).
LEMMA ReconcileOK ==
    ASSUME DiskOK, NEW caller \in {"open", "recover"}, NEW m, MemOK(m), Reconcile(caller, m),
           disk' = disk,
           IF caller = "open" THEN status' = "opening" ELSE status' = "open",
           m.complete => ~m.blocked,
           caller = "recover" /\ disk.now.pending # <<>> => m.blocked \/ m.poisoned
    PROVE  CallOK' /\ MemOK(mem')
<1> DEFINE pending == disk.now.pending
<1>0. pending # <<>> => pending = <<pending[1]>>
  BY DEF DiskOK, ImageOK, IntentOK
<1>1. CASE /\ pending = <<>>
           /\ mem' = [m EXCEPT !.blocked = FALSE]
           /\ step' = "replay"
           /\ call' = [caller |-> caller, intent |-> NoIntent]
  <2>1. MemOK(mem') /\ mem'.blocked = FALSE
    BY <1>1, UnblockedMem
  <2>2. call'.caller = caller
    BY <1>1
  <2> QED  BY <1>1, <2>1, <2>2 DEF CallOK, Publishing
<1>2. CASE /\ pending # <<>>
           /\ mem' = [m EXCEPT !.blocked = TRUE, !.complete = FALSE]
           /\ step' = "replay"
           /\ call' = [caller |-> caller, intent |-> NoIntent]
  <2>1. MemOK(mem') /\ mem'.blocked = TRUE /\ mem'.complete = FALSE
    BY <1>2, BlockedMem
  <2>2. call'.caller = caller
    BY <1>2
  <2> QED  BY <1>2, <2>1, <2>2 DEF CallOK, Publishing
<1>3. CASE /\ pending # <<>>
           /\ mem' = m
           /\ step' = "push"
           /\ call' = [caller |-> caller, intent |-> pending[1]]
  <2>1. call'.caller = caller /\ call'.intent = pending[1]
    BY <1>3
  <2>2. disk'.now.pending = <<call'.intent>>
    BY <1>0, <1>3, <2>1
  <2>3. CallOK'
    BY <1>3, <2>1, <2>2 DEF CallOK, Publishing
  <2> QED  BY <1>3, <2>3
<1> QED  BY <1>1, <1>2, <1>3 DEF Reconcile

\* A session is opened (Open).
LEMMA OpenKeepsShape ==
    ASSUME ShapeInv, Open
    PROVE  ShapeInv'
<1>1. /\ status' = "opening" /\ Reconcile("open", Fresh(disk.now.counter))
      /\ writer' = NoWriter /\ disk' = disk /\ peers' = peers /\ succeeded' = succeeded
      /\ UNCHANGED <<log, synced, published>>
  BY DEF Open, diskVars, ghostVars
<1>2. disk.now.counter \in Nat \ {0}
  BY DEF ShapeInv, DiskOK, ImageOK
<1>3. MemOK(Fresh(disk.now.counter)) /\ Fresh(disk.now.counter).complete = FALSE
  BY <1>2, FreshMem DEF Fresh
<1>4. CallOK' /\ MemOK(mem')
  <2> DEFINE m == Fresh(disk.now.counter)
  <2>1. MemOK(m) /\ (m.complete => ~m.blocked) /\ Reconcile("open", m)
    BY <1>1, <1>3
  <2> HIDE DEF m
  <2> QED  BY <1>1, <2>1, ReconcileOK DEF ShapeInv
<1>5. WriterSteps
  <2>1. LogGrows
    BY <1>1, SameGrows DEF ShapeInv
  <2> QED  BY <1>1, <2>1, NewWriterShape DEF WriterSteps
<1>6. Carried(disk, disk', 0)
  BY <1>1, SameCarried DEF ShapeInv, DiskOK, Images
<1>7. PeersOK'
  BY <1>1 DEF ShapeInv, PeersOK
<1> QED  BY <1>1, <1>4, <1>5, <1>6, <1>7, ShapeKept DEF ShapeInv

\* An open session is recovered (Recover).
LEMMA RecoverKeepsShape ==
    ASSUME ShapeInv, Recover
    PROVE  ShapeInv'
<1>1. /\ status = "open" /\ step = "idle" /\ status' = status /\ Reconcile("recover", mem)
      /\ disk' = disk /\ peers' = peers /\ succeeded' = succeeded
      /\ UNCHANGED <<log, synced, published, writer>>
  BY DEF Recover, diskVars, ghostVars
<1>2. /\ MemOK(mem) /\ (mem.complete => ~mem.blocked)
      /\ disk.now.pending # <<>> => mem.blocked \/ mem.poisoned
  BY <1>1 DEF ShapeInv, CallOK
<1>3. CallOK' /\ MemOK(mem')
  BY <1>1, <1>2, ReconcileOK DEF ShapeInv
<1>4. WriterSteps
  BY <1>1, WriterSame DEF ShapeInv
<1>5. Carried(disk, disk', 0)
  BY <1>1, SameCarried DEF ShapeInv, DiskOK, Images
<1>6. PeersOK'
  BY <1>1 DEF ShapeInv, PeersOK
<1> QED  BY <1>1, <1>3, <1>4, <1>5, <1>6, ShapeKept DEF ShapeInv

\* What the log holds is in memory, and the session is open (Replay).
LEMMA ReplayKeepsShape ==
    ASSUME ShapeInv, Replay
    PROVE  ShapeInv'
<1> DEFINE m == Replayed(mem)
           snapshot == disk.now.snapshot
           n == IF snapshot = <<>> THEN m ELSE [m EXCEPT !.history = snapshot[1]]
<1>1. /\ step = "replay" /\ mem' = Completed(n)
      /\ status' = "open" /\ step' = "idle" /\ disk' = disk /\ peers' = peers
      /\ succeeded' = succeeded /\ UNCHANGED <<log, synced, published, writer>>
  BY DEF Replay, diskVars, ghostVars
<1>2. MemOK(m) /\ SameFlags(mem, m)
  BY ReplayedMem DEF ShapeInv
<1> HIDE DEF m
<1>3. MemOK(n) /\ SameFlags(m, n)
  <2>1. CASE snapshot = <<>>
    BY <1>2, <2>1 DEF SameFlags
  <2>2. CASE snapshot # <<>>
    <3>1. n = [m EXCEPT !.history = snapshot[1]]
      BY <2>2
    <3> HIDE DEF n
    <3> QED  BY <1>2, <3>1, HistoryMem, Zenon
  <2> QED  BY <2>1, <2>2
<1> HIDE DEF n
<1>4. /\ MemOK(mem') /\ mem'.poisoned = mem.poisoned /\ mem'.blocked = mem.blocked
      /\ (mem'.complete => ~mem'.blocked)
  BY <1>1, <1>2, <1>3, CompletedMem DEF SameFlags
<1>5. CallOK'
  <2>1. ~mem'.blocked => disk'.now.pending = <<>>
    BY <1>1, <1>4 DEF ShapeInv, CallOK
  <2> QED  BY <1>1, <1>4, <2>1, IdleCall
<1>6. WriterSteps
  BY <1>1, WriterSame DEF ShapeInv
<1>7. Carried(disk, disk', 0)
  BY <1>1, SameCarried DEF ShapeInv, DiskOK, Images
<1>8. PeersOK'
  BY <1>1 DEF ShapeInv, PeersOK
<1> QED  BY <1>1, <1>4, <1>5, <1>6, <1>7, <1>8, ShapeKept DEF ShapeInv

\* Replay or the stored history is refused (ReplayFails).
LEMMA ReplayFailsKeepsShape ==
    ASSUME ShapeInv, ReplayFails
    PROVE  ShapeInv'
<1>1. /\ step = "replay" /\ step' = "idle" /\ disk' = disk /\ peers' = peers
      /\ succeeded' = succeeded /\ UNCHANGED <<log, synced, published, writer>>
  BY DEF ReplayFails, diskVars, ghostVars
<1>2. CallOK' /\ MemOK(mem')
  <2>1. CASE call.caller = "open"
    <3>1. status' = "down" /\ mem' = Fresh(1)
      BY <2>1 DEF ReplayFails
    <3>2. MemOK(mem') /\ mem'.complete = FALSE
      BY <3>1, FreshMem DEF Fresh
    <3> QED  BY <1>1, <3>1, <3>2, IdleCall
  <2>2. CASE call.caller # "open"
    <3>1. mem' = Replayed(mem) /\ status' = status
      BY <2>2 DEF ReplayFails
    <3>2. MemOK(mem') /\ SameFlags(mem, mem')
      BY <3>1, ReplayedMem DEF ShapeInv
    <3>3. status = "open" /\ (~mem.blocked => disk.now.pending = <<>>)
          /\ (mem.complete => ~mem.blocked)
      BY <1>1, <2>2 DEF ShapeInv, CallOK
    <3> QED  BY <1>1, <3>1, <3>2, <3>3, IdleCall DEF SameFlags
  <2> QED  BY <2>1, <2>2
<1>6. WriterSteps
  BY <1>1, WriterSame DEF ShapeInv
<1>7. Carried(disk, disk', 0)
  BY <1>1, SameCarried DEF ShapeInv, DiskOK, Images
<1>8. PeersOK'
  BY <1>1 DEF ShapeInv, PeersOK
<1> QED  BY <1>1, <1>2, <1>6, <1>7, <1>8, ShapeKept DEF ShapeInv

\* The history is changed and stored (AcknowledgeUndoRetirements, CoalesceLastUndo).
LEMMA StoreHistoryKeepsShape ==
    ASSUME ShapeInv, Ready, NEW history, StoreHistory(history),
           published' = published, succeeded' = succeeded
    PROVE  ShapeInv'
<1>1. PICK outcome \in Outcomes("snapshot") :
        /\ disk' = Replaced(disk, "snapshot", <<history>>, outcome)
        /\ mem' = [mem EXCEPT !.history = history, !.poisoned = outcome # "ok"]
  BY DEF StoreHistory
<1>2. /\ UNCHANGED <<log, synced, writer>> /\ peers' = peers
      /\ status' = status /\ step' = step /\ status = "open" /\ step = "idle"
      /\ mem.complete /\ ~mem.poisoned
  BY DEF StoreHistory, Ready
<1>3. MemOK(mem) /\ ~mem.blocked /\ disk.now.pending = <<>>
  BY <1>2 DEF ShapeInv, CallOK
<1>4. Carried(disk, disk', 0)
  <2>1. Images(disk) /\ outcome \in WriteResult
    BY FileOutcomes DEF ShapeInv, DiskOK, Images
  <2> QED  BY <1>1, <2>1, SnapshotCarried
<1>5. MemOK(mem') /\ mem'.blocked = mem.blocked
  <2> DEFINE flag == outcome # "ok"
  <2>1. flag \in BOOLEAN /\ mem' = [mem EXCEPT !.history = history, !.poisoned = flag]
    BY <1>1
  <2> HIDE DEF flag
  <2>2. /\ DOMAIN mem' = DOMAIN mem /\ mem'.next = mem.next /\ mem'.stuck = mem.stuck
        /\ mem'.seen = mem.seen /\ mem'.envelope = mem.envelope
        /\ mem'.poisoned = flag /\ mem'.blocked = mem.blocked /\ mem'.complete = mem.complete
    BY <1>3, <2>1 DEF MemOK
  <2> QED  BY <1>3, <2>1, <2>2 DEF MemOK
<1>6. CallOK'
  <2>1. disk'.now.pending = <<>> /\ ~mem'.blocked
    BY <1>3, <1>4, <1>5 DEF Carried
  <2> QED  BY <1>2, <2>1, IdleCall
<1>7. WriterSteps
  BY <1>2, WriterSame DEF ShapeInv
<1>8. PeersOK'
  BY <1>2 DEF ShapeInv, PeersOK
<1> QED  BY <1>4, <1>5, <1>6, <1>7, <1>8, ShapeKept DEF ShapeInv

\* An operation of a peer is integrated (Poll).
LEMMA PolledMem ==
    ASSUME MemOK(mem), NEW c \in Nat, NEW n,
           n = [mem EXCEPT !.seen = mem.seen \cup {c}, !.next = Observing(mem, {c})]
    PROVE  MemOK(n) /\ SameFlags(mem, n) /\ mem.next <= n.next /\ n.envelope = mem.envelope
<1> DEFINE next == Observing(mem, {c})
<1>1. next \in Nat \ {0} /\ mem.next <= next /\ (mem.stuck \/ \A d \in {c} : d < next)
  <2>1. {c} \subseteq Nat /\ \A d \in {c} : d <= c
    OBVIOUS
  <2> QED  BY <2>1, ObservingPasses
<1>2. n = [mem EXCEPT !.seen = mem.seen \cup {c}, !.next = next]
  OBVIOUS
<1> HIDE DEF next
<1>3. /\ DOMAIN n = DOMAIN mem /\ n.next = next /\ n.stuck = mem.stuck
      /\ n.seen = mem.seen \cup {c} /\ n.envelope = mem.envelope
      /\ n.poisoned = mem.poisoned /\ n.blocked = mem.blocked /\ n.complete = mem.complete
  BY <1>2 DEF MemOK
<1>4. n.stuck \/ \A d \in n.seen : d < n.next
  <2>1. CASE mem.stuck
    BY <1>3, <2>1
  <2>2. CASE ~mem.stuck
    <3>1. mem.next \in Nat /\ \A d \in mem.seen : d \in Nat /\ d < mem.next
      BY <2>2 DEF MemOK
    <3> QED  BY <1>1, <1>3, <2>2, <3>1
  <2> QED  BY <2>1, <2>2
<1>5. MemOK(n)
  BY <1>1, <1>3, <1>4 DEF MemOK
<1> QED  BY <1>1, <1>3, <1>5 DEF SameFlags

\* The same for the whole step.
LEMMA PollKeepsShape ==
    ASSUME ShapeInv, Poll
    PROVE  ShapeInv'
<1>1. PICK c \in peers :
        mem' = Completed([mem EXCEPT !.seen = mem.seen \cup {c}, !.next = Observing(mem, {c})])
  BY DEF Poll
<1>2. /\ status = "open" /\ step = "idle" /\ status' = status /\ step' = step
      /\ disk' = disk /\ peers' = peers /\ succeeded' = succeeded
      /\ UNCHANGED <<log, synced, published, writer>>
  BY DEF Poll, diskVars, ghostVars
<1> DEFINE n == [mem EXCEPT !.seen = mem.seen \cup {c}, !.next = Observing(mem, {c})]
<1>3. MemOK(n) /\ SameFlags(mem, n)
  <2>1. c \in Nat /\ MemOK(mem)
    BY DEF ShapeInv, PeersOK
  <2> QED  BY <2>1, PolledMem, Zenon
<1>4. mem' = Completed(n)
  BY <1>1
<1> HIDE DEF n
<1>5. /\ MemOK(mem') /\ mem'.poisoned = mem.poisoned /\ mem'.blocked = mem.blocked
      /\ (mem'.complete => ~mem'.blocked)
  BY <1>3, <1>4, CompletedMem DEF SameFlags
<1>6. CallOK'
  <2>1. ~mem'.poisoned /\ ~mem'.blocked => disk'.now.pending = <<>>
    BY <1>2, <1>5 DEF ShapeInv, CallOK
  <2> QED  BY <1>2, <1>5, <2>1, IdleCall
<1>7. WriterSteps
  BY <1>2, WriterSame DEF ShapeInv
<1>8. Carried(disk, disk', 0)
  BY <1>2, SameCarried DEF ShapeInv, DiskOK, Images
<1>9. PeersOK'
  BY <1>2 DEF ShapeInv, PeersOK
<1> QED  BY <1>2, <1>5, <1>6, <1>7, <1>8, <1>9, ShapeKept DEF ShapeInv

\* save, close: whatever fails, the intent stays and the stored counter is not below
\* the allocator's (SaveSucceeds, SaveFails, FlushFails).
LEMMA SaveEffects ==
    ASSUME ShapeInv, NEW destroyed, FlushFails(destroyed) \/ SaveSucceeds \/ SaveFails
    PROVE  WriterSteps /\ Carried(disk, disk', mem.next)
<1>0. Images(disk) /\ mem.next \in Nat \ {0} /\ mem.next >= mem.next
  BY DEF ShapeInv, DiskOK, Images, MemOK
<1>1. CASE FlushFails(destroyed)
  <2>1. WriterSteps /\ disk' = disk
    BY <1>1, FlushFailsGrows DEF ShapeInv
  <2> QED  BY <1>0, <2>1, SameCarried
<1> DEFINE stored == Replaced(disk, "snapshot", <<mem.history>>, "ok")
<1>2. Carried(disk, stored, mem.next) /\ Images(stored)
  <2>1. "ok" \in WriteResult
    BY DEF WriteResult
  <2>2. Carried(disk, stored, mem.next)
    BY <1>0, <2>1, SnapshotCarried
  <2> QED  BY <2>2 DEF Carried
<1>3. ASSUME NEW outcome \in WriteResult,
             disk' = Replaced(stored, "counter", mem.next, outcome)
      PROVE  Carried(disk, disk', mem.next)
  <2> HIDE DEF stored
  <2>1. Carried(stored, disk', mem.next)
    BY <1>0, <1>2, <1>3, CounterCarried
  <2> QED  BY <1>2, <2>1, CarriedTwice
<1>4. CASE SaveSucceeds
  <2>1. QueueFlushed /\ disk' = Replaced(stored, "counter", mem.next, "ok")
        /\ "ok" \in WriteResult
    BY <1>4 DEF SaveSucceeds, WriteResult
  <2>2. Carried(disk, disk', mem.next)
    <3> HIDE DEF stored
    <3> QED  BY <1>3, <2>1
  <2> QED  BY <2>1, <2>2, QueueFlushedGrows DEF ShapeInv
<1>5. CASE SaveFails
  <2>1. WriterSteps
    BY <1>5, QueueFlushedGrows DEF ShapeInv, SaveFails
  <2>2. CASE \E outcome \in Outcomes("snapshot") \ {"ok"} :
               disk' = Replaced(disk, "snapshot", <<mem.history>>, outcome)
    <3>1. PICK outcome \in Outcomes("snapshot") :
               disk' = Replaced(disk, "snapshot", <<mem.history>>, outcome)
      BY <2>2
    <3>2. outcome \in WriteResult
      BY FileOutcomes
    <3> QED  BY <1>0, <2>1, <3>1, <3>2, SnapshotCarried
  <2>3. CASE \E outcome \in Outcomes("counter") \ {"ok"} :
               disk' = Replaced(stored, "counter", mem.next, outcome)
    <3> HIDE DEF stored
    <3>1. PICK outcome \in Outcomes("counter") :
               disk' = Replaced(stored, "counter", mem.next, outcome)
      BY <2>3
    <3>2. outcome \in WriteResult
      BY FileOutcomes
    <3> QED  BY <1>3, <2>1, <3>1, <3>2
  <2> QED  BY <1>5, <2>2, <2>3 DEF SaveFails
<1> QED  BY <1>1, <1>4, <1>5

\* The session is saved (Save).
LEMMA SaveKeepsShape ==
    ASSUME ShapeInv, Save
    PROVE  ShapeInv'
<1>1. /\ status = "open" /\ step = "idle" /\ status' = status /\ step' = step
      /\ mem' = mem /\ peers' = peers /\ succeeded' = succeeded
      /\ FlushFails(FALSE) \/ SaveSucceeds \/ SaveFails
  BY DEF Save
<1>2. WriterSteps /\ Carried(disk, disk', mem.next)
  BY <1>1, SaveEffects
<1>3. CallOK'
  <2>1. /\ ~mem'.poisoned /\ ~mem'.blocked => disk'.now.pending = <<>>
        /\ mem'.complete => ~mem'.blocked
    BY <1>1, <1>2 DEF ShapeInv, CallOK, Carried
  <2> QED  BY <1>1, <2>1, IdleCall
<1>4. PeersOK' /\ MemOK(mem')
  BY <1>1 DEF ShapeInv, PeersOK
<1> QED  BY <1>1, <1>2, <1>3, <1>4, ShapeKept DEF ShapeInv

\* The session is closed (Close).
LEMMA CloseKeepsShape ==
    ASSUME ShapeInv, Close
    PROVE  ShapeInv'
<1>1. /\ step = "idle" /\ status' = "down" /\ step' = step
      /\ mem' = Fresh(1) /\ peers' = peers /\ succeeded' = succeeded
      /\ FlushFails(TRUE) \/ SaveSucceeds \/ SaveFails
  BY DEF Close
<1>2. WriterSteps /\ Carried(disk, disk', mem.next)
  BY <1>1, SaveEffects
<1>3. MemOK(mem') /\ mem'.complete = FALSE
  BY <1>1, FreshMem DEF Fresh
<1>4. CallOK'
  BY <1>1, <1>3, IdleCall
<1>5. PeersOK'
  BY <1>1 DEF ShapeInv, PeersOK
<1> QED  BY <1>1, <1>2, <1>3, <1>4, <1>5, ShapeKept DEF ShapeInv

\* Another device publishes (PeerPublishes).
LEMMA PeerPublishesKeepsShape ==
    ASSUME ShapeInv, PeerPublishes
    PROVE  ShapeInv'
<1>1. /\ UNCHANGED <<disk, log, synced, status, step, call, mem, writer, published, succeeded>>
  BY DEF PeerPublishes, diskVars, ghostVars
<1>2. PICK c \in PeerCounters : peers' = peers \cup {c}
  BY DEF PeerPublishes
<1>3. PeersOK'
  <2>1. c \in Nat
    BY SessionAssumption
  <2>2. PICK b \in Nat : \A x \in peers : x <= b
    BY DEF ShapeInv, PeersOK
  <2>3. peers \subseteq Nat
    BY DEF ShapeInv, PeersOK
  <2>4. b + c \in Nat /\ \A x \in peers \cup {c} : x \in Nat /\ x <= b + c
    BY <2>1, <2>2, <2>3
  <2> QED  BY <1>2, <2>4 DEF PeersOK
<1>4. WriterSteps
  BY <1>1, WriterSame DEF ShapeInv
<1>5. Carried(disk, disk', 0)
  BY <1>1, SameCarried DEF ShapeInv, DiskOK, Images
<1>6. CallOK' /\ MemOK(mem')
  BY <1>1 DEF ShapeInv, CallOK, Confirmed
<1> QED  BY <1>1, <1>3, <1>4, <1>5, <1>6, ShapeKept DEF ShapeInv

\* The process ends (Kill).
LEMMA KillKeepsShape ==
    ASSUME ShapeInv, Kill
    PROVE  ShapeInv'
<1>1. /\ status' = "down" /\ step' = "idle" /\ mem' = Fresh(1) /\ writer' = NoWriter
      /\ UNCHANGED <<disk, log, synced, peers, published, succeeded>>
  BY DEF Kill, Stopped, diskVars, ghostVars
<1>2. MemOK(mem') /\ mem'.complete = FALSE
  BY <1>1, FreshMem DEF Fresh
<1>3. CallOK'
  BY <1>1, <1>2, IdleCall
<1>4. WriterSteps
  <2>1. LogGrows
    BY <1>1, SameGrows DEF ShapeInv
  <2> QED  BY <1>1, <2>1, NewWriterShape DEF WriterSteps
<1>5. Carried(disk, disk', 0)
  BY <1>1, SameCarried DEF ShapeInv, DiskOK, Images
<1>6. PeersOK'
  BY <1>1 DEF ShapeInv, PeersOK
<1> QED  BY <1>1, <1>2, <1>3, <1>4, <1>5, <1>6, ShapeKept DEF ShapeInv

\* The machine stops (PowerLoss): a confirmed record stays.
LEMMA PowerLossKeepsShape ==
    ASSUME ShapeInv, PowerLoss
    PROVE  ShapeInv'
<1>1. /\ status' = "down" /\ step' = "idle" /\ mem' = Fresh(1) /\ writer' = NoWriter
      /\ UNCHANGED <<peers, published, succeeded>>
  BY DEF PowerLoss, Stopped, ghostVars
<1>2. PICK d \in disk.may : disk' = [now |-> d, may |-> {d}]
  BY DEF PowerLoss
<1>3. PICK n \in synced .. Len(log) : log' = SubSeq(log, 1, n) /\ synced' = n
  BY DEF PowerLoss
<1>4. MemOK(mem') /\ mem'.complete = FALSE
  BY <1>1, FreshMem DEF Fresh
<1>5. CallOK'
  BY <1>1, <1>4, IdleCall
<1>6. DiskOK'
  BY <1>2 DEF ShapeInv, DiskOK
<1>7. log \in Seq(published) /\ synced \in Nat /\ n \in 0 .. Len(log) /\ n \in Nat
  BY DEF ShapeInv, LogOK
<1>8. /\ log' \in Seq(published) /\ Len(log') = n /\ \A i \in 1 .. n : log'[i] = log[i]
  BY <1>3, <1>7, Prefix
<1>9. LogOK'
  BY <1>1, <1>3, <1>7, <1>8 DEF ShapeInv, LogOK
<1>10. Confirmed \subseteq Confirmed'
  <2>1. \A i \in 1 .. synced : i \in 1 .. n /\ log'[i] = log[i]
    BY <1>7, <1>8
  <2> QED  BY <1>3, <2>1 DEF Confirmed
<1>11. SuccessOK'
  BY <1>1, <1>10 DEF ShapeInv, SuccessOK
<1>12. WriterOK' /\ PeersOK'
  BY <1>1, NewWriterShape DEF ShapeInv, WriterOK, PeersOK
<1> QED  BY <1>4, <1>5, <1>6, <1>9, <1>11, <1>12 DEF ShapeInv

-----------------------------------------------------------------------------

\* The empty device has the shape.
LEMMA InitHasShape == Init => ShapeInv
<1> SUFFICES ASSUME Init
             PROVE  ShapeInv
  OBVIOUS
<1> DEFINE empty == [counter |-> 1, snapshot |-> <<>>, pending |-> <<>>]
<1>1. disk = [now |-> empty, may |-> {empty}]
  BY DEF Init
<1>2. ImageOK(empty)
  BY DEF ImageOK, IntentOK
<1>3. DiskOK /\ disk.now.pending = <<>>
  <2>1. disk.now = empty /\ disk.may = {empty}
    BY <1>1
  <2> QED  BY <1>2, <2>1 DEF DiskOK
<1>4. LogOK
  BY DEF Init, LogOK
<1>5. MemOK(mem) /\ mem.complete = FALSE
  BY FreshMem DEF Init, Fresh
<1>6. PeersOK
  BY DEF Init, PeersOK
<1>7. WriterOK
  BY NewWriterShape DEF Init, WriterOK
<1>8. CallOK
  BY <1>3, <1>5 DEF Init, CallOK, Publishing
<1>9. SuccessOK
  BY DEF Init, SuccessOK
<1> QED  BY <1>3, <1>4, <1>5, <1>6, <1>7, <1>8, <1>9 DEF ShapeInv

\* Every step keeps it.
LEMMA NextKeepsShape == ShapeInv /\ [Next]_vars => ShapeInv'
<1> SUFFICES ASSUME ShapeInv, [Next]_vars
             PROVE  ShapeInv'
  OBVIOUS
<1>1. CASE ApplyLocal \/ Undo \/ Redo
  <2>1. PICK toggles, history : BeginPublish(NewOp(toggles), history)
    BY <1>1 DEF ApplyLocal, Undo, Redo
  <2> QED  BY <2>1, BeginKeepsShape
<1>2. CASE ReserveFails
  BY <1>2, ReserveFailsKeepsShape
<1>3. CASE StorePending
  BY <1>3, StorePendingKeepsShape
<1>4. CASE PushWrites
  BY <1>4, PushWritesKeepsShape
<1>5. CASE PushFlushes
  BY <1>5, PushFlushesKeepsShape
<1>6. CASE PushError
  BY <1>6, PushErrorKeepsShape
<1>7. CASE StoreSnapshot
  BY <1>7, StoreSnapshotKeepsShape
<1>8. CASE ClearPending
  BY <1>8, ClearPendingKeepsShape
<1>9. CASE Open
  BY <1>9, OpenKeepsShape
<1>10. CASE Recover
  BY <1>10, RecoverKeepsShape
<1>11. CASE Replay
  BY <1>11, ReplayKeepsShape
<1>12. CASE ReplayFails
  BY <1>12, ReplayFailsKeepsShape
<1>13. CASE AcknowledgeUndoRetirements
  BY <1>13, StoreHistoryKeepsShape DEF AcknowledgeUndoRetirements
<1>14. CASE CoalesceLastUndo
  BY <1>14, StoreHistoryKeepsShape DEF CoalesceLastUndo, ghostVars
<1>15. CASE Poll
  BY <1>15, PollKeepsShape
<1>16. CASE Save
  BY <1>16, SaveKeepsShape
<1>17. CASE Close
  BY <1>17, CloseKeepsShape
<1>18. CASE PeerPublishes
  BY <1>18, PeerPublishesKeepsShape
<1>19. CASE Kill
  BY <1>19, KillKeepsShape
<1>20. CASE PowerLoss
  BY <1>20, PowerLossKeepsShape
<1>21. CASE UNCHANGED vars
  <2>1. UNCHANGED <<disk, log, synced, peers, status, step, call, mem, writer, published, succeeded>>
    BY <1>21 DEF vars, diskVars, ghostVars
  <2>2. Confirmed' = Confirmed /\ Owed' = Owed
    BY <2>1 DEF Confirmed, Owed
  <2>3. DiskOK' /\ LogOK' /\ PeersOK' /\ WriterOK' /\ SuccessOK'
    BY <2>1, <2>2 DEF ShapeInv, DiskOK, LogOK, PeersOK, WriterOK, SuccessOK
  <2>4. CallOK' /\ MemOK(mem')
    BY <2>1, <2>2 DEF ShapeInv, CallOK
  <2> QED  BY <2>3, <2>4 DEF ShapeInv
<1> QED
  BY <1>1, <1>2, <1>3, <1>4, <1>5, <1>6, <1>7, <1>8, <1>9, <1>10, <1>11, <1>12, <1>13,
     <1>14, <1>15, <1>16, <1>17, <1>18, <1>19, <1>20, <1>21 DEF Next

\* ShapeInv is an invariant, whatever fails and whenever the device stops.
THEOREM SessionShape == Spec => []ShapeInv
<1>1. Init => ShapeInv
  BY InitHasShape
<1>2. ShapeInv /\ [Next]_vars => ShapeInv'
  BY NextKeepsShape
<1> QED  BY <1>1, <1>2, PTL DEF Spec

\* An operation whose call returned success is in the part of the log that no power
\* loss takes away (publish_local).
THEOREM SucceededStays == Spec => []SucceededIsDurable
<1>1. ShapeInv => SucceededIsDurable
  <2> SUFFICES ASSUME ShapeInv, NEW op \in succeeded
               PROVE  \E i \in 1 .. synced : log[i].op = op
    BY DEF SucceededIsDurable
  <2>1. PICK r \in Confirmed : r.op = op
    BY DEF ShapeInv, SuccessOK
  <2> QED  BY <2>1 DEF Confirmed
<1> QED  BY <1>1, SessionShape, PTL

\* A published operation is above everything its author had integrated, through
\* every restart of the allocator (observe_remote, replay_delivery).
THEOREM PublishedAboveSeen == Spec => []IdentityAboveSeen
<1>1. ShapeInv => IdentityAboveSeen
  BY DEF ShapeInv, LogOK, Sound, IdentityAboveSeen
<1> QED  BY <1>1, SessionShape, PTL

-----------------------------------------------------------------------------
(* Tokens *)

\* No store of the intent reports an error and leaves the intent visible.
IntentsAreCertain == <<"pending", "uncertain">> \notin Failures

\* The number of a record, and of the last one
SeqAt(records, n) == IF n = 0 THEN 0 ELSE records[n].seq

LastSeq(records) == SeqAt(records, Len(records))

\* The records are numbered from 1, and only copies of a record repeat its number.
Numbered(records) ==
    \A i \in 1 .. Len(records) :
        IF i = 1 THEN records[i].seq = 1
        ELSE \/ records[i].seq = records[i - 1].seq + 1
             \/ records[i] = records[i - 1]

\* rec may follow the first n records: it is the last of them once more, or the next.
Follows(records, n, rec) ==
    \/ n > 0 /\ rec = records[n]
    \/ rec.seq = SeqAt(records, n) + 1

\* A session that has replayed its log and lost nothing since
Usable == status = "open" /\ ~mem.poisoned /\ ~mem.blocked

\* The intent that the directory shows is in every image of it.
IntentIsShared ==
    disk.now.pending # <<>> => \A d \in disk.may : d.pending = disk.now.pending

\* What others may have read is confirmed or will be published again.
ShownIsKept == published \subseteq Confirmed \cup Owed

\* Whatever a power loss leaves, the intent it leaves fits the log it leaves.
IntentsFollow ==
    \A d \in disk.may : d.pending # <<>> =>
        \A n \in synced .. Len(log) : Follows(log, n, Envelope(d.pending[1]))

Distinct(p, q) == p.seq = q.seq \/ p.op.id = q.op.id => p = q

\* Intents of other images are published and confirmed.
OldIntentsAreConfirmed ==
    \A d \in disk.may : d.pending # <<>> =>
        d.pending = disk.now.pending \/ Envelope(d.pending[1]) \in Confirmed

\* The intent does not use the token of another record.
OwedIsDistinct == \A rec \in Owed : \A p \in published : Distinct(p, rec)

\* Used identities are below every counter the allocator may start from.
CountersAreAhead ==
    \A p \in published \cup Owed :
        /\ \A d \in disk.may : p.op.id.counter < d.counter
        /\ status # "down" => p.op.id.counter < mem.next

\* The next envelope is the one the log continues with.
EnvelopeIsNext ==
    /\ mem.envelope <= LastSeq(log) + 1
    /\ step = "idle" /\ Usable => mem.envelope = LastSeq(log) + 1
    /\ step \in {"store_pending", "push", "flush"} /\ call.caller = "local" =>
          call.intent.seq = mem.envelope
    /\ step \in {"store_snapshot", "clear_pending"} /\ call.caller = "local" =>
          mem.envelope = LastSeq(log) + 1

\* An intent that is not stored yet uses nothing that has been used.
IntentIsNew ==
    step = "store_pending" =>
        /\ call.intent.seq = LastSeq(log) + 1
        /\ \A p \in published : p.op.id.counter < call.intent.op.id.counter
        /\ \A d \in disk.may : call.intent.op.id.counter < d.counter
        /\ call.intent.op.id.counter < mem.next

\* What the directory and the log keep
StoredTokens ==
    /\ Numbered(log)
    /\ IntentIsShared /\ ShownIsKept /\ IntentsFollow /\ OldIntentsAreConfirmed
    /\ OneTokenPerOperation /\ OwedIsDistinct

TokenInv == StoredTokens /\ CountersAreAhead /\ EnvelopeIsNext /\ IntentIsNew

-----------------------------------------------------------------------------
(* Numbering *)

\* A set of naturals that holds 0 and every successor holds all.
LEMMA AllNumbers ==
    ASSUME NEW S \in SUBSET Nat, 0 \in S, \A n \in S : n + 1 \in S
    PROVE  S = Nat
<1> SUFFICES ASSUME Nat \ S # {}
             PROVE  FALSE
  OBVIOUS
<1>1. PICK n \in Nat \ S : \A k \in Nat \ S : ~(<<k, n>> \in OpToRel(<, Nat))
  <2>1. Nat \ S \subseteq Nat
    OBVIOUS
  <2> QED  BY <2>1, NatLessThanWellFounded, WFMin
<1>2. \A k \in Nat \ S : ~(k < n)
  BY <1>1, Zenon DEF OpToRel
<1>3. n # 0 /\ n - 1 \in Nat /\ n - 1 \notin Nat \ S
  BY <1>2
<1> QED  BY <1>3

\* The numbers of the first n records are 1 up to that of the last of them.
LEMMA NumbersAreInterval ==
    ASSUME NEW A, NEW s \in Seq(A), \A i \in 1 .. Len(s) : s[i].seq \in Nat, Numbered(s),
           NEW n \in 0 .. Len(s)
    PROVE  SeqAt(s, n) \in Nat /\ {s[i].seq : i \in 1 .. n} = 1 .. SeqAt(s, n)
<1> DEFINE seqs(k) == {s[i].seq : i \in 1 .. k}
           S == {k \in Nat : k <= Len(s) => SeqAt(s, k) \in Nat /\ seqs(k) = 1 .. SeqAt(s, k)}
<1>0. Len(s) \in Nat
  OBVIOUS
<1>1. 0 \in S
  <2>1. SeqAt(s, 0) = 0 /\ seqs(0) = {} /\ 1 .. 0 = {}
    BY DEF SeqAt
  <2> QED  BY <2>1
<1>2. ASSUME NEW k \in S
      PROVE  k + 1 \in S
  <2> SUFFICES ASSUME k + 1 <= Len(s)
               PROVE  SeqAt(s, k + 1) \in Nat /\ seqs(k + 1) = 1 .. SeqAt(s, k + 1)
    OBVIOUS
  <2>1. k \in Nat /\ k <= Len(s) /\ k + 1 \in 1 .. Len(s) /\ k + 1 # 0
    BY <1>0
  <2>2. SeqAt(s, k) \in Nat /\ seqs(k) = 1 .. SeqAt(s, k)
    BY <2>1
  <2>3. SeqAt(s, k + 1) = s[k + 1].seq /\ s[k + 1].seq \in Nat
    BY <2>1 DEF SeqAt
  <2>4. seqs(k + 1) = seqs(k) \cup {s[k + 1].seq}
    <3>1. 1 .. (k + 1) = (1 .. k) \cup {k + 1}
      BY <2>1
    <3> QED  BY <3>1
  <2>5. \/ s[k + 1].seq = SeqAt(s, k) + 1
        \/ k > 0 /\ s[k + 1].seq = SeqAt(s, k)
    <3>1. CASE k = 0
      <4>1. s[1].seq = 1
        BY <2>1, <3>1 DEF Numbered
      <4> QED  BY <3>1, <4>1 DEF SeqAt
    <3>2. CASE k # 0
      <4>1. \/ s[k + 1].seq = s[(k + 1) - 1].seq + 1
            \/ s[k + 1] = s[(k + 1) - 1]
        BY <2>1, <3>2 DEF Numbered
      <4>2. (k + 1) - 1 = k /\ SeqAt(s, k) = s[k].seq /\ k > 0
        BY <2>1, <3>2 DEF SeqAt
      <4> QED  BY <4>1, <4>2
    <3> QED  BY <3>1, <3>2
  <2> HIDE DEF seqs, S
  <2>6. CASE s[k + 1].seq = SeqAt(s, k) + 1
    <3>1. \A m \in Nat : (1 .. m) \cup {m + 1} = 1 .. (m + 1)
      OBVIOUS
    <3>2. (1 .. SeqAt(s, k)) \cup {SeqAt(s, k) + 1} = 1 .. (SeqAt(s, k) + 1)
      BY <2>2, <3>1
    <3>3. seqs(k + 1) = 1 .. s[k + 1].seq
      BY <2>2, <2>4, <2>6, <3>2, Zenon
    <3> QED  BY <2>3, <3>3
  <2>7. CASE k > 0 /\ s[k + 1].seq = SeqAt(s, k)
    <3>1. s[k + 1].seq \in seqs(k)
      <4>1. SeqAt(s, k) = s[k].seq /\ k \in 1 .. k
        BY <2>1, <2>7 DEF SeqAt
      <4> QED  BY <2>7, <4>1 DEF seqs
    <3> QED  BY <2>2, <2>3, <2>4, <2>7, <3>1
  <2> QED  BY <2>5, <2>6, <2>7
<1>3. S = Nat
  <2>1. S \in SUBSET Nat
    OBVIOUS
  <2> HIDE DEF S
  <2> QED  BY <1>1, <1>2, <2>1, AllNumbers
<1>4. n \in Nat /\ n <= Len(s)
  BY <1>0
<1> QED  BY <1>3, <1>4

\* Numbers never decrease.
LEMMA NumbersGrow ==
    ASSUME NEW A, NEW s \in Seq(A), \A i \in 1 .. Len(s) : s[i].seq \in Nat, Numbered(s),
           NEW n \in 0 .. Len(s), NEW i \in 1 .. n
    PROVE  s[i].seq \in 1 .. SeqAt(s, n)
<1>1. {s[j].seq : j \in 1 .. n} = 1 .. SeqAt(s, n)
  BY NumbersAreInterval
<1> QED  BY <1>1

\* The count of the numbers is the last one (NextSequence).
LEMMA NextIsAfterLast ==
    ASSUME LogOK, Numbered(log)
    PROVE  NextSequence(ToSet(log)) = LastSeq(log) + 1 /\ LastSeq(log) \in Nat
<1>1. /\ log \in Seq(published) /\ Len(log) \in 0 .. Len(log) /\ DOMAIN log = 1 .. Len(log)
      /\ \A i \in 1 .. Len(log) : log[i].seq \in Nat
  BY DEF LogOK, Sound
<1>2. LastSeq(log) \in Nat /\ {log[i].seq : i \in 1 .. Len(log)} = 1 .. LastSeq(log)
  BY <1>1, NumbersAreInterval DEF LastSeq
<1>3. {r.seq : r \in ToSet(log)} = 1 .. LastSeq(log)
  BY <1>1, <1>2 DEF ToSet
<1>4. Cardinality(1 .. LastSeq(log)) = LastSeq(log)
  <2>1. 1 \in Int /\ LastSeq(log) \in Int
    BY <1>2
  <2>2. Cardinality(1 .. LastSeq(log)) = IF 1 > LastSeq(log) THEN 0 ELSE LastSeq(log) - 1 + 1
    BY <2>1, FS_Interval
  <2> QED  BY <1>2, <2>2
<1> QED  BY <1>2, <1>3, <1>4 DEF NextSequence

\* The numbers of a sound log
LEMMA LogNumbers ==
    ASSUME LogOK, Numbered(log)
    PROVE  /\ Len(log) \in Nat /\ synced \in 0 .. Len(log)
           /\ \A i \in 1 .. Len(log) : log[i] \in published /\ log[i].seq \in Nat \ {0}
           /\ \A n \in 0 .. Len(log) : SeqAt(log, n) \in Nat
           /\ \A n \in 0 .. Len(log) : \A i \in 1 .. n : log[i].seq <= SeqAt(log, n)
           /\ LastSeq(log) \in Nat
           /\ \A n \in 0 .. Len(log) : SeqAt(log, n) <= LastSeq(log)
<1>1. /\ log \in Seq(published) /\ Len(log) \in Nat /\ synced \in 0 .. Len(log)
      /\ \A i \in 1 .. Len(log) : log[i] \in published /\ log[i].seq \in Nat \ {0}
  BY DEF LogOK, Sound
<1>2. \A i \in 1 .. Len(log) : log[i].seq \in Nat
  BY <1>1
<1>3. \A n \in 0 .. Len(log) : SeqAt(log, n) \in Nat
  BY <1>1, <1>2, NumbersAreInterval
<1>4. ASSUME NEW n \in 0 .. Len(log), NEW i \in 1 .. n
      PROVE  log[i].seq <= SeqAt(log, n)
  <2>1. log[i].seq \in 1 .. SeqAt(log, n)
    BY <1>1, <1>2, NumbersGrow
  <2> QED  BY <1>3, <2>1
<1>5. Len(log) \in 0 .. Len(log) /\ LastSeq(log) \in Nat
  BY <1>1, <1>3 DEF LastSeq
<1>6. ASSUME NEW n \in 0 .. Len(log)
      PROVE  SeqAt(log, n) <= LastSeq(log)
  <2>1. CASE n = 0
    BY <1>5, <2>1 DEF SeqAt
  <2>2. CASE n # 0
    <3>1. n \in 1 .. Len(log) /\ SeqAt(log, n) = log[n].seq
      BY <1>1, <2>2 DEF SeqAt
    <3> QED  BY <1>4, <1>5, <3>1 DEF LastSeq
  <2> QED  BY <2>1, <2>2
<1> QED  BY <1>1, <1>3, <1>4, <1>5, <1>6

-----------------------------------------------------------------------------
(* Steps that write no intent *)

\* "after" is "before" and some copies of rec.
Copied(before, after, rec) ==
    /\ Len(before) \in Nat /\ Len(after) \in Nat /\ Len(before) <= Len(after)
    /\ \A i \in 1 .. Len(before) : after[i] = before[i]
    /\ \A i \in 1 .. Len(after) : i > Len(before) => after[i] = rec

\* Growing the log appends copies of the record that is owed, if one is.
LEMMA GrowthCopies ==
    ASSUME LogOK, LogGrows
    PROVE  /\ Owed = {} => log' = log /\ published' = published
           /\ \A rec \in Owed : Copied(log, log', rec)
           /\ published \subseteq published' /\ published' \subseteq published \cup Owed
           /\ synced \in Nat /\ synced <= Len(log)
           /\ synced' = synced \/ synced' = Len(log')
<1>1. PICK ext \in Seq(Owed) :
        /\ log' = log \o ext
        /\ published' = published \cup ToSet(ext)
        /\ synced' = synced \/ synced' = Len(log')
  BY DEF LogGrows
<1>2. log \in Seq(published) /\ synced \in Nat /\ synced <= Len(log)
  BY DEF LogOK
<1>3. ToSet(ext) \subseteq Owed
  BY DEF ToSet
<1>4. ASSUME Owed = {}
      PROVE  log' = log /\ published' = published
  <2>1. ext = <<>>
    BY <1>4, EmptySeq
  <2>2. log \o <<>> = log
    BY <1>2
  <2> QED  BY <1>1, <1>3, <1>4, <2>1, <2>2
<1>5. ASSUME NEW rec \in Owed
      PROVE  Copied(log, log', rec)
  <2>0. Owed = {rec}
    BY DEF Owed
  <2>1. /\ log \o ext \in Seq(published \cup Owed)
        /\ Len(log \o ext) = Len(log) + Len(ext) /\ Len(log) \in Nat /\ Len(ext) \in Nat
        /\ \A i \in 1 .. Len(log) : (log \o ext)[i] = log[i]
        /\ \A i \in Len(log) + 1 .. Len(log) + Len(ext) : (log \o ext)[i] = ext[i - Len(log)]
    BY <1>2
  <2>2. \A i \in 1 .. Len(ext) : ext[i] = rec
    BY <2>0
  <2>3. \A i \in Len(log) + 1 .. Len(log) + Len(ext) : i - Len(log) \in 1 .. Len(ext)
    BY <2>1
  <2>4. log' = log \o ext
    BY <1>1
  <2> DEFINE after == log \o ext
             k == Len(log)
             l == Len(ext)
  <2> HIDE DEF after, k, l
  <2>5. \A i \in 1 .. Len(after) : i > k => after[i] = rec
    BY <2>1, <2>2, <2>3 DEF after, k, l
  <2>6. Len(after) \in Nat /\ k <= Len(after)
    BY <2>1 DEF after, k, l
  <2> QED  BY <2>1, <2>4, <2>5, <2>6 DEF Copied, after, k, l
<1> QED  BY <1>1, <1>2, <1>3, <1>4, <1>5

\* Copies of a record that may follow keep the numbering, and may follow again.
LEMMA CopiesFollow ==
    ASSUME NEW before, NEW after, NEW rec, Copied(before, after, rec), Numbered(before),
           rec.seq \in Nat, SeqAt(before, Len(before)) \in Nat,
           NEW low \in 0 .. Len(before), \A n \in low .. Len(before) : Follows(before, n, rec)
    PROVE  /\ Numbered(after) /\ SeqAt(before, Len(before)) <= SeqAt(after, Len(after))
           /\ \A n \in low .. Len(after) : Follows(after, n, rec)
<1>1. Len(before) \in Nat /\ Len(after) \in Nat /\ Len(before) <= Len(after)
  BY DEF Copied
<1>2. Follows(before, Len(before), rec)
  BY <1>1
<1>3. ASSUME NEW n \in low .. Len(after)
      PROVE  Follows(after, n, rec)
  <2>1. CASE n <= Len(before)
    <3>1. n \in low .. Len(before) /\ n \in 0 .. Len(before)
      BY <1>1, <2>1
    <3>2. n > 0 => after[n] = before[n]
      BY <1>1, <3>1 DEF Copied
    <3>3. Follows(before, n, rec)
      BY <3>1
    <3> QED  BY <3>1, <3>2, <3>3 DEF Follows, SeqAt
  <2>2. CASE n > Len(before)
    <3>1. n \in 1 .. Len(after) /\ n > 0
      BY <1>1, <2>2
    <3>2. after[n] = rec
      BY <2>2, <3>1 DEF Copied
    <3> QED  BY <3>1, <3>2 DEF Follows
  <2> QED  BY <1>1, <2>1, <2>2
<1>4. ASSUME NEW i \in 1 .. Len(after)
      PROVE  IF i = 1 THEN after[i].seq = 1
             ELSE \/ after[i].seq = after[i - 1].seq + 1
                  \/ after[i] = after[i - 1]
  <2>1. CASE i <= Len(before)
    <3>1. i \in 1 .. Len(before) /\ (i # 1 => i - 1 \in 1 .. Len(before))
      BY <1>1, <2>1
    <3>2. after[i] = before[i] /\ (i # 1 => after[i - 1] = before[i - 1])
      BY <3>1 DEF Copied
    <3> QED  BY <3>1, <3>2 DEF Numbered
  <2>2. CASE i > Len(before)
    <3>1. after[i] = rec
      BY <2>2 DEF Copied
    <3>2. CASE i - 1 > Len(before)
      <4>1. i # 1 /\ i - 1 \in 1 .. Len(after)
        BY <1>1, <3>2
      <4>2. after[i - 1] = rec
        BY <3>2, <4>1 DEF Copied
      <4> QED  BY <3>1, <4>1, <4>2
    <3>3. CASE i - 1 = Len(before)
      <4>1. CASE i = 1
        <5>1. Len(before) = 0
          BY <3>3, <4>1
        <5> QED  BY <1>2, <3>1, <4>1, <5>1 DEF Follows, SeqAt
      <4>2. CASE i # 1
        <5>1. Len(before) # 0 /\ Len(before) \in 1 .. Len(before)
          BY <1>1, <3>3, <4>2
        <5>2. after[i - 1] = before[Len(before)]
          BY <3>3, <5>1 DEF Copied
        <5> QED  BY <1>2, <3>1, <4>2, <5>1, <5>2 DEF Follows, SeqAt
      <4> QED  BY <4>1, <4>2
    <3> QED  BY <1>1, <2>2, <3>2, <3>3
  <2> QED  BY <1>1, <2>1, <2>2
<1>5. SeqAt(before, Len(before)) <= SeqAt(after, Len(after))
  <2>1. CASE Len(after) = Len(before)
    <3>1. SeqAt(after, Len(after)) = SeqAt(before, Len(before))
      <4>1. Len(before) # 0 => Len(before) \in 1 .. Len(before)
        BY <1>1
      <4> QED  BY <2>1, <4>1 DEF SeqAt, Copied
    <3> QED  BY <3>1
  <2>2. CASE Len(after) > Len(before)
    <3>1. Len(after) \in 1 .. Len(after) /\ Len(after) # 0
      BY <1>1, <2>2
    <3>2. SeqAt(after, Len(after)) = rec.seq
      BY <2>2, <3>1 DEF SeqAt, Copied
    <3>3. rec.seq >= SeqAt(before, Len(before))
      BY <1>1, <1>2 DEF Follows, SeqAt
    <3> QED  BY <3>2, <3>3
  <2> QED  BY <1>1, <2>1, <2>2
<1>6. Numbered(after)
  BY <1>4 DEF Numbered
<1> QED  BY <1>3, <1>5, <1>6

\* A step that writes no intent and does not lose power
LEMMA GrowthKeepsTokens ==
    ASSUME DiskOK, LogOK, StoredTokens, LogGrows, NEW k, Carried(disk, disk', k)
    PROVE  /\ StoredTokens' /\ LogOK'
           /\ LastSeq(log) \in Nat /\ LastSeq(log') \in Nat /\ LastSeq(log) <= LastSeq(log')
           /\ Owed = {} => log' = log /\ published' = published
           /\ Owed' = Owed /\ published' \subseteq published \cup Owed
<1>1. /\ Owed = {} => log' = log /\ published' = published
      /\ \A rec \in Owed : Copied(log, log', rec)
      /\ published \subseteq published' /\ published' \subseteq published \cup Owed
      /\ synced \in Nat /\ synced <= Len(log)
      /\ synced' = synced \/ synced' = Len(log')
  BY GrowthCopies
<1>2. disk'.now.pending = disk.now.pending
      /\ \A x \in disk'.may : \E y \in disk.may : x.pending = y.pending
  BY DEF Carried
<1>3. Owed' = Owed
  BY <1>2 DEF Owed
<1>4. LogOK' /\ Confirmed \subseteq Confirmed'
  BY GrowthKeepsLog
<1>5. LastSeq(log) \in Nat /\ Len(log) \in Nat /\ synced \in 0 .. Len(log)
  BY LogNumbers DEF StoredTokens
<1>6. IntentIsShared'
  <2> SUFFICES ASSUME disk'.now.pending # <<>>, NEW x \in disk'.may
               PROVE  x.pending = disk'.now.pending
    BY DEF IntentIsShared
  <2>1. PICK y \in disk.may : x.pending = y.pending
    BY <1>2
  <2> QED  BY <1>2, <2>1 DEF StoredTokens, IntentIsShared
<1>7. ShownIsKept'
  BY <1>1, <1>3, <1>4 DEF StoredTokens, ShownIsKept
<1>8. OldIntentsAreConfirmed'
  <2> SUFFICES ASSUME NEW x \in disk'.may, x.pending # <<>>
               PROVE  x.pending = disk'.now.pending \/ Envelope(x.pending[1]) \in Confirmed'
    BY DEF OldIntentsAreConfirmed
  <2>1. PICK y \in disk.may : x.pending = y.pending
    BY <1>2
  <2> QED  BY <1>2, <1>4, <2>1 DEF StoredTokens, OldIntentsAreConfirmed
<1>9. OneTokenPerOperation' /\ OwedIsDistinct'
  <2>1. \A p, q \in published : Distinct(p, q)
    BY DEF StoredTokens, OneTokenPerOperation, Distinct
  <2>2. \A rec \in Owed : \A p \in published : Distinct(p, rec) /\ Distinct(rec, p)
    BY DEF StoredTokens, OwedIsDistinct, Distinct
  <2>3. \A rec, r \in Owed : Distinct(rec, r)
    BY DEF Owed, Distinct
  <2>4. \A p, q \in published \cup Owed : Distinct(p, q)
    BY <2>1, <2>2, <2>3
  <2>5. OneTokenPerOperation'
    BY <1>1, <2>4 DEF OneTokenPerOperation, Distinct
  <2> QED  BY <1>1, <1>3, <2>4, <2>5 DEF OwedIsDistinct
<1>10. CASE Owed = {}
  <2>1. log' = log /\ synced' \in synced .. Len(log)
    BY <1>1, <1>5, <1>10
  <2>2. IntentsFollow'
    <3> SUFFICES ASSUME NEW x \in disk'.may, x.pending # <<>>, NEW n \in synced' .. Len(log')
                 PROVE  Follows(log', n, Envelope(x.pending[1]))
      BY DEF IntentsFollow
    <3>1. PICK y \in disk.may : x.pending = y.pending
      BY <1>2
    <3>2. n \in synced .. Len(log)
      BY <1>5, <2>1
    <3> QED  BY <2>1, <3>1, <3>2 DEF StoredTokens, IntentsFollow
  <2>3. Numbered(log')
    BY <2>1 DEF StoredTokens
  <2>4. LastSeq(log') = LastSeq(log)
    BY <2>1
  <2> QED  BY <1>1, <1>3, <1>4, <1>5, <1>6, <1>7, <1>8, <1>9, <2>2, <2>3, <2>4 DEF StoredTokens
<1>11. CASE Owed # {}
  <2>1. PICK rec \in Owed : Copied(log, log', rec)
    BY <1>1, <1>11
  <2>2. disk.now.pending # <<>> /\ rec = Envelope(disk.now.pending[1]) /\ disk.now \in disk.may
    BY DEF Owed, DiskOK
  <2>3. \A n \in synced .. Len(log) : Follows(log, n, rec)
    BY <2>2 DEF StoredTokens, IntentsFollow
  <2>4. rec.seq \in Nat
    BY OwedIsSound DEF Sound
  <2>5. /\ Numbered(log') /\ LastSeq(log) <= LastSeq(log')
        /\ \A n \in synced .. Len(log') : Follows(log', n, rec)
    BY <1>5, <2>1, <2>3, <2>4, CopiesFollow DEF StoredTokens, LastSeq
  <2>6. Len(log') \in Nat /\ synced' \in synced .. Len(log')
    <3>1. Len(log') \in Nat /\ Len(log) <= Len(log')
      BY <2>1 DEF Copied
    <3> QED  BY <1>1, <3>1
  <2>7. IntentsFollow'
    <3> SUFFICES ASSUME NEW x \in disk'.may, x.pending # <<>>, NEW n \in synced' .. Len(log')
                 PROVE  Follows(log', n, Envelope(x.pending[1]))
      BY DEF IntentsFollow
    <3>1. x.pending = disk.now.pending
      BY <1>2, <1>6, <2>2 DEF IntentIsShared
    <3>2. n \in synced .. Len(log')
      BY <1>1, <2>6
    <3> QED  BY <2>2, <2>5, <3>1, <3>2
  <2>8. LastSeq(log') \in Nat
    <3>1. log' \in Seq(published') /\ \A p \in published' : p.seq \in Nat
      BY <1>4 DEF LogOK, Sound
    <3>2. Len(log') # 0 => log'[Len(log')] \in published'
      BY <3>1
    <3> QED  BY <3>1, <3>2 DEF LastSeq, SeqAt
  <2> QED  BY <1>1, <1>3, <1>4, <1>5, <1>6, <1>7, <1>8, <1>9, <1>11, <2>5, <2>7, <2>8 DEF StoredTokens
<1> QED  BY <1>10, <1>11

\* What most steps do: the log may grow, the stored intent stays, the counters
\* never fall below the allocator's.
TokenStep ==
    /\ LogGrows
    /\ \/ disk' = disk
       \/ status # "down" /\ Carried(disk, disk', mem.next)
    /\ status' # "down" =>
          \/ status # "down" /\ mem.next <= mem'.next
          \/ mem'.next = disk.now.counter

\* What such a step keeps
CountersKept ==
    /\ StoredTokens' /\ CountersAreAhead'
    /\ LastSeq(log) \in Nat /\ LastSeq(log') \in Nat /\ LastSeq(log) <= LastSeq(log')
    /\ Owed = {} => log' = log /\ published' = published

\* Such a step keeps everything but the numbers in memory.
LEMMA StepKeeps ==
    ASSUME ShapeInv, ShapeInv', TokenInv, TokenStep
    PROVE  CountersKept
<1>1. DiskOK /\ LogOK /\ StoredTokens /\ CountersAreAhead /\ LogGrows /\ Images(disk)
  BY DEF ShapeInv, TokenInv, TokenStep, Images, DiskOK
<1>2. PICK k : Carried(disk, disk', k)
  BY <1>1, SameCarried DEF TokenStep
<1>3. /\ StoredTokens' /\ LogOK'
      /\ LastSeq(log) \in Nat /\ LastSeq(log') \in Nat /\ LastSeq(log) <= LastSeq(log')
      /\ Owed = {} => log' = log /\ published' = published
      /\ Owed' = Owed /\ published' \subseteq published \cup Owed
  BY <1>1, <1>2, GrowthKeepsTokens
<1>4. ASSUME NEW p \in published' \cup Owed'
      PROVE  /\ \A d \in disk'.may : p.op.id.counter < d.counter
             /\ status' # "down" => p.op.id.counter < mem'.next
  <2>1. p \in published \cup Owed /\ p.op.id.counter \in Nat
    BY <1>1, <1>3, OwedIsSound DEF LogOK, Sound
  <2>2. /\ \A d \in disk.may : p.op.id.counter < d.counter /\ d.counter \in Nat
        /\ status # "down" => p.op.id.counter < mem.next
    BY <1>1, <2>1 DEF CountersAreAhead, DiskOK, ImageOK
  <2>3. mem.next \in Nat /\ mem'.next \in Nat /\ \A d \in disk'.may : d.counter \in Nat
    BY DEF ShapeInv, MemOK, DiskOK, ImageOK
  <2>4. ASSUME NEW d \in disk'.may
        PROVE  p.op.id.counter < d.counter
    <3>1. CASE disk' = disk
      BY <2>2, <3>1
    <3>2. CASE status # "down" /\ Carried(disk, disk', mem.next)
      <4>1. \/ \E y \in disk.may : d.counter = y.counter
            \/ d.counter >= mem.next
        BY <3>2 DEF Carried
      <4>2. d.counter \in Nat
        BY <2>3
      <4>3. CASE \E y \in disk.may : d.counter = y.counter
        BY <2>2, <4>3
      <4>4. CASE d.counter >= mem.next
        BY <2>1, <2>2, <2>3, <3>2, <4>2, <4>4
      <4> QED  BY <4>1, <4>3, <4>4
    <3> QED  BY <3>1, <3>2 DEF TokenStep
  <2>5. status' # "down" => p.op.id.counter < mem'.next
    <3>1. CASE status # "down" /\ mem.next <= mem'.next
      BY <2>1, <2>2, <2>3, <3>1
    <3>2. CASE mem'.next = disk.now.counter
      BY <1>1, <2>2, <3>2 DEF DiskOK
    <3> QED  BY <3>1, <3>2 DEF TokenStep
  <2> QED  BY <2>4, <2>5
<1>5. CountersAreAhead'
  BY <1>4 DEF CountersAreAhead
<1> QED  BY <1>3, <1>5 DEF CountersKept

\* The numbers in memory when no local call is running after the step
LEMMA EnvelopeBetween ==
    ASSUME mem'.envelope <= LastSeq(log') + 1,
           step' = "idle" \/ (step' \in {"replay", "push"} /\ call'.caller # "local"),
           (step' = "idle" /\ Usable') => mem'.envelope = LastSeq(log') + 1
    PROVE  EnvelopeIsNext' /\ IntentIsNew'
  BY DEF EnvelopeIsNext, IntentIsNew

\* A call that failed leaves no session that may be used.
LEMMA FailedCall ==
    ASSUME CallOK, MemOK(mem), step \in Publishing \cup {"store_pending"}, CallFails
    PROVE  /\ step' = "idle" /\ status # "down" /\ ~Usable'
           /\ \/ status' = status /\ mem'.next = mem.next /\ mem'.envelope = mem.envelope
              \/ status' = "down" /\ mem'.envelope = 1
<1>0. step' = "idle" /\ step # "idle"
  BY DEF CallFails, Publishing
<1>1. CASE call.caller = "local"
  <2>1. mem' = [mem EXCEPT !.poisoned = TRUE] /\ status' = status
    BY <1>1 DEF CallFails
  <2>2. mem'.poisoned = TRUE /\ mem'.next = mem.next /\ mem'.envelope = mem.envelope
    BY <2>1, PoisonedMem
  <2>3. status # "down"
    BY <1>0 DEF CallOK
  <2> QED  BY <1>0, <2>1, <2>2, <2>3 DEF Usable
<1>2. CASE call.caller = "open"
  <2>1. status' = "down" /\ mem' = Fresh(1) /\ status # "down"
    BY <1>0, <1>2 DEF CallFails, CallOK
  <2>2. mem'.envelope = 1
    BY <2>1 DEF Fresh
  <2> QED  BY <1>0, <2>1, <2>2 DEF Usable
<1>3. CASE call.caller = "recover"
  <2>1. status' = status /\ mem' = mem /\ status # "down"
    BY <1>0, <1>3 DEF CallFails, CallOK
  <2>2. mem.blocked \/ mem.poisoned
    BY <1>3 DEF CallOK
  <2> QED  BY <1>0, <2>1, <2>2 DEF Usable
<1> QED  BY <1>0, <1>1, <1>2, <1>3 DEF CallOK

\* A step that leaves no local call running, with the numbers in order, keeps all.
LEMMA BetweenKeeps ==
    ASSUME ShapeInv, ShapeInv', TokenInv, TokenStep,
           step' = "idle" \/ (step' \in {"replay", "push"} /\ call'.caller # "local"),
           mem'.envelope \in {1, mem.envelope, LastSeq(log) + 1},
           (step' = "idle" /\ Usable') => mem'.envelope = LastSeq(log) + 1 /\ log' = log
    PROVE  TokenInv'
<1>1. CountersKept
  BY StepKeeps
<1>2. StoredTokens' /\ CountersAreAhead' /\ LastSeq(log) \in Nat /\ LastSeq(log') \in Nat
      /\ LastSeq(log) <= LastSeq(log')
  BY <1>1 DEF CountersKept
<1>3. mem'.envelope <= LastSeq(log') + 1
  <2>1. mem.envelope \in Nat /\ mem.envelope <= LastSeq(log) + 1
    BY DEF ShapeInv, MemOK, TokenInv, EnvelopeIsNext
  <2> QED  BY <1>2, <2>1
<1>4. EnvelopeIsNext' /\ IntentIsNew'
  <2>1. (step' = "idle" /\ Usable') => mem'.envelope = LastSeq(log') + 1
    OBVIOUS
  <2> QED  BY <1>3, <2>1, EnvelopeBetween
<1> QED  BY <1>2, <1>4 DEF TokenInv

\* The failure of a call keeps the numbers.
LEMMA FailedCallKeeps ==
    ASSUME ShapeInv, ShapeInv', TokenInv, step \in Publishing \cup {"store_pending"}, CallFails,
           LogGrows, disk' = disk \/ Carried(disk, disk', mem.next)
    PROVE  TokenInv'
<1>1. /\ step' = "idle" /\ status # "down" /\ ~Usable'
      /\ \/ status' = status /\ mem'.next = mem.next /\ mem'.envelope = mem.envelope
         \/ status' = "down" /\ mem'.envelope = 1
  BY FailedCall DEF ShapeInv
<1>2. TokenStep
  <2>1. mem.next <= mem.next
    BY DEF ShapeInv, MemOK
  <2> QED  BY <1>1, <2>1 DEF TokenStep
<1>3. mem'.envelope \in {1, mem.envelope, LastSeq(log) + 1}
  BY <1>1
<1> QED  BY <1>1, <1>2, <1>3, BetweenKeeps

-----------------------------------------------------------------------------
(* Every step keeps the tokens *)

\* The counter that is stored is the one in every image.
LEMMA CounterStored ==
    ASSUME NEW d, ImageOK(d.now), NEW value \in Nat \ {0},
           NEW n, n = Replaced(d, "counter", value, "ok")
    PROVE  \A x \in n.may : x.counter = value
<1> DEFINE new == [d.now EXCEPT !["counter"] = value]
<1>1. n = [now |-> new, may |-> {new}]
  BY DEF Replaced
<1>2. new.counter = value
  BY CounterOfImage
<1> HIDE DEF new
<1> QED  BY <1>1, <1>2

\* A local operation begins (ApplyLocal, Undo, Redo).
LEMMA BeginKeepsTokens ==
    ASSUME ShapeInv, ShapeInv', TokenInv, NEW toggles, NEW history,
           BeginPublish(NewOp(toggles), history)
    PROVE  TokenInv'
<1> DEFINE op == NewOp(toggles)
<1>1. /\ status = "open" /\ step = "idle" /\ mem.complete /\ ~mem.poisoned
      /\ disk' = Replaced(disk, "counter", mem.next + 1, "ok")
      /\ mem' = [mem EXCEPT !.ops = mem.ops \cup {op}, !.history = history,
                            !.next = mem.next + 1]
      /\ step' = "store_pending" /\ status' = status
      /\ call' = [caller |-> "local",
                  intent |-> [seq |-> mem.envelope, op |-> op, history |-> history]]
      /\ UNCHANGED <<log, synced, published, writer>>
  BY DEF BeginPublish, Ready, Reserved, ghostVars
<1>2. MemOK(mem) /\ ~mem.blocked /\ ImageOK(disk.now) /\ Images(disk) /\ LogOK
  BY <1>1 DEF ShapeInv, CallOK, DiskOK, Images
<1>3. mem.next \in Nat \ {0} /\ mem.next + 1 \in Nat \ {0} /\ mem.next + 1 >= mem.next
      /\ mem.next < mem.next + 1
  BY <1>2 DEF MemOK
<1>4. Carried(disk, disk', mem.next)
  <2>1. "ok" \in WriteResult
    BY DEF WriteResult
  <2> QED  BY <1>1, <1>2, <1>3, <2>1, CounterCarried
<1>5. \A x \in disk'.may : x.counter = mem.next + 1
  BY <1>1, <1>2, <1>3, CounterStored
<1>6. mem'.next = mem.next + 1 /\ mem'.envelope = mem.envelope
  <2>1. mem' = [mem EXCEPT !.ops = mem.ops \cup {op}, !.history = history,
                           !.next = mem.next + 1]
    BY <1>1
  <2> HIDE DEF op
  <2> QED  BY <1>2, <2>1 DEF MemOK
<1>7. CountersKept
  <2>1. LogGrows
    BY <1>1, <1>2, SameGrows
  <2>2. TokenStep
    BY <1>1, <1>3, <1>4, <1>6, <2>1 DEF TokenStep
  <2> QED  BY <2>2, StepKeeps
<1>8. mem.envelope = LastSeq(log) + 1
  BY <1>1, <1>2 DEF TokenInv, EnvelopeIsNext, Usable
<1>9. call'.caller = "local" /\ call'.intent.seq = mem.envelope
      /\ call'.intent.op.id.counter = mem.next
  BY <1>1 DEF NewOp
<1>10. EnvelopeIsNext'
  <2>1. mem'.envelope <= LastSeq(log') + 1
    BY <1>1, <1>6, <1>7, <1>8 DEF CountersKept
  <2> QED  BY <1>1, <1>6, <1>9, <2>1 DEF EnvelopeIsNext
<1>11. IntentIsNew'
  <2>1. \A p \in published' : p.op.id.counter < mem.next
    BY <1>1 DEF TokenInv, CountersAreAhead
  <2>2. call'.intent.seq = LastSeq(log') + 1
    BY <1>1, <1>8, <1>9
  <2>3. \A d \in disk'.may : mem.next < d.counter
    BY <1>3, <1>5
  <2> QED  BY <1>3, <1>6, <1>9, <2>1, <2>2, <2>3 DEF IntentIsNew
<1> QED  BY <1>7, <1>10, <1>11 DEF CountersKept, TokenInv

\* The counter could not be stored (ReserveFails).
LEMMA ReserveFailsKeepsTokens ==
    ASSUME ShapeInv, ShapeInv', TokenInv, ReserveFails
    PROVE  TokenInv'
<1>1. PICK outcome \in Outcomes("counter") :
        disk' = Replaced(disk, "counter", mem.next + 1, outcome)
  BY DEF ReserveFails, Reserved
<1>2. /\ status = "open" /\ step = "idle" /\ mem.complete /\ ~mem.poisoned
      /\ mem' = [mem EXCEPT !.next = mem.next + 1, !.stuck = TRUE]
      /\ UNCHANGED <<log, synced, published, writer>>
      /\ status' = status /\ step' = step
  BY DEF ReserveFails, Ready, ghostVars
<1>3. MemOK(mem) /\ ~mem.blocked /\ Images(disk) /\ LogOK
  BY <1>2 DEF ShapeInv, CallOK, DiskOK, Images
<1>4. mem.next \in Nat \ {0} /\ mem.next + 1 \in Nat \ {0} /\ mem.next + 1 >= mem.next
      /\ mem.next <= mem.next + 1
  BY <1>3 DEF MemOK
<1>5. Carried(disk, disk', mem.next)
  BY <1>1, <1>3, <1>4, FileOutcomes, CounterCarried
<1>6. mem'.next = mem.next + 1 /\ mem'.envelope = mem.envelope
  BY <1>2, <1>3, StuckMem, Zenon
<1>7. TokenStep
  <2>1. LogGrows
    BY <1>2, <1>3, SameGrows
  <2> QED  BY <1>2, <1>4, <1>5, <1>6, <2>1 DEF TokenStep
<1>8. mem.envelope = LastSeq(log) + 1
  BY <1>2, <1>3 DEF TokenInv, EnvelopeIsNext, Usable
<1>9. step' = "idle" /\ mem'.envelope \in {1, mem.envelope, LastSeq(log) + 1}
      /\ mem'.envelope = LastSeq(log) + 1 /\ log' = log
  BY <1>2, <1>6, <1>8
<1> QED  BY <1>7, <1>9, BetweenKeeps

\* The intent is stored (StorePending): its number and its identity are new, and
\* every image has it.
LEMMA StoredIntent ==
    ASSUME ShapeInv, ShapeInv', TokenInv, step = "store_pending",
           IntentWritten(disk, disk', <<call.intent>>, "ok"),
           UNCHANGED <<log, synced, published, status>>, mem' = mem
    PROVE  StoredTokens' /\ CountersAreAhead'
<1> DEFINE rec == Envelope(call.intent)
<1>1. disk.now.pending = <<>> /\ Sound(rec) /\ LogOK /\ MemOK(mem)
  BY DEF ShapeInv, CallOK
<1>2. Owed = {} /\ published \subseteq Confirmed
  BY <1>1 DEF Owed, TokenInv, StoredTokens, ShownIsKept
<1>3. /\ disk'.now.pending = <<call.intent>> /\ \A x \in disk'.may : x.pending = <<call.intent>>
      /\ \A x \in disk'.may : \E y \in disk.may : x.counter = y.counter
  BY DEF IntentWritten
<1>4. <<call.intent>> # <<>> /\ <<call.intent>>[1] = call.intent
  OBVIOUS
<1>5. Owed' = {rec}
  BY <1>3, <1>4 DEF Owed
<1>6. rec.seq = call.intent.seq /\ rec.op = call.intent.op
  BY DEF Envelope
<1> HIDE DEF rec
<1>7. /\ rec.seq = LastSeq(log) + 1
      /\ \A p \in published : p.op.id.counter < rec.op.id.counter
      /\ \A d \in disk.may : rec.op.id.counter < d.counter
      /\ rec.op.id.counter < mem.next
  BY <1>6 DEF TokenInv, IntentIsNew
<1>8. /\ Len(log) \in Nat /\ synced \in 0 .. Len(log)
      /\ \A i \in 1 .. Len(log) : log[i] \in published /\ log[i].seq \in Nat \ {0}
      /\ \A n \in 0 .. Len(log) : SeqAt(log, n) \in Nat
      /\ \A n \in 0 .. Len(log) : \A i \in 1 .. n : log[i].seq <= SeqAt(log, n)
      /\ LastSeq(log) \in Nat
      /\ \A n \in 0 .. Len(log) : SeqAt(log, n) <= LastSeq(log)
  BY <1>1, LogNumbers DEF TokenInv, StoredTokens
<1>9. ASSUME NEW n \in synced .. Len(log)
      PROVE  Follows(log, n, rec)
  <2>1. n \in 0 .. Len(log)
    BY <1>8
  <2>2. SeqAt(log, n) = LastSeq(log)
    <3>1. CASE Len(log) = 0
      <4>1. n = 0
        BY <2>1, <3>1
      <4> QED  BY <3>1, <4>1 DEF LastSeq
    <3>2. CASE Len(log) # 0
      <4>1. Len(log) \in 1 .. Len(log) /\ LastSeq(log) = log[Len(log)].seq
        BY <1>8, <3>2 DEF LastSeq, SeqAt
      <4>2. PICK j \in 1 .. synced : log[Len(log)] = log[j]
        BY <1>2, <1>8, <4>1 DEF Confirmed
      <4>3. j \in 1 .. n
        BY <1>8
      <4>4. log[j].seq <= SeqAt(log, n)
        BY <1>8, <2>1, <4>3
      <4>5. LastSeq(log) <= SeqAt(log, n) /\ SeqAt(log, n) <= LastSeq(log)
        BY <1>8, <2>1, <4>1, <4>2, <4>4
      <4> QED  BY <1>8, <2>1, <4>5
    <3> QED  BY <3>1, <3>2
  <2> QED  BY <1>7, <2>2 DEF Follows
<1>10. ASSUME NEW p \in published
       PROVE  Distinct(p, rec)
  <2>1. PICK j \in 1 .. synced : p = log[j]
    BY <1>2 DEF Confirmed
  <2>2. j \in 1 .. Len(log) /\ Len(log) \in 0 .. Len(log)
    BY <1>8
  <2>3. p.seq \in Nat /\ p.seq <= LastSeq(log)
    BY <1>8, <2>1, <2>2 DEF LastSeq
  <2>4. p.seq # rec.seq
    BY <1>7, <1>8, <2>3
  <2>5. p.op.id.counter # rec.op.id.counter
    <3>1. p.op.id.counter \in Nat /\ rec.op.id.counter \in Nat
      BY <1>1 DEF LogOK, Sound, rec
    <3> QED  BY <1>7, <3>1
  <2> QED  BY <2>4, <2>5 DEF Distinct
<1>11. Numbered(log') /\ Confirmed' = Confirmed /\ OneTokenPerOperation'
  BY DEF TokenInv, StoredTokens, Confirmed, OneTokenPerOperation
<1>12. IntentIsShared' /\ OldIntentsAreConfirmed'
  BY <1>3 DEF IntentIsShared, OldIntentsAreConfirmed
<1>13. ShownIsKept'
  BY <1>2, <1>11 DEF ShownIsKept
<1>14. IntentsFollow'
  BY <1>3, <1>4, <1>9 DEF IntentsFollow, rec
<1>15. OwedIsDistinct'
  BY <1>5, <1>10 DEF OwedIsDistinct
<1>16. CountersAreAhead'
  <2>1. \A p \in published \cup {rec} :
          (\A d \in disk.may : p.op.id.counter < d.counter)
          /\ (status # "down" => p.op.id.counter < mem.next)
    BY <1>7 DEF TokenInv, CountersAreAhead
  <2> QED  BY <1>3, <1>5, <2>1 DEF CountersAreAhead
<1> QED  BY <1>11, <1>12, <1>13, <1>14, <1>15, <1>16 DEF StoredTokens

\* The same for the whole step, when a store of the intent that reports an error
\* has stored nothing.
LEMMA StorePendingKeepsTokens ==
    ASSUME IntentsAreCertain, ShapeInv, ShapeInv', TokenInv, StorePending
    PROVE  TokenInv'
<1>1. PICK outcome \in Outcomes("pending") :
        /\ disk' = Replaced(disk, "pending", <<call.intent>>, outcome)
        /\ IF outcome = "ok" THEN Continue("push") /\ UNCHANGED mem ELSE CallFails
  BY DEF StorePending
<1>2. step = "store_pending" /\ UNCHANGED <<log, synced, published, writer>>
  BY DEF StorePending, ghostVars
<1>3. MemOK(mem) /\ call.caller = "local" /\ Sound(Envelope(call.intent)) /\ LogOK
  BY <1>2 DEF ShapeInv, CallOK
<1>4. outcome \in {"ok", "failed"}
  <2>1. outcome \in WriteResult
    BY FileOutcomes
  <2>2. outcome # "uncertain"
    <3> SUFFICES ASSUME outcome = "uncertain"
                 PROVE  FALSE
      OBVIOUS
    <3>1. PICK f \in Failures : f[1] = "pending" /\ outcome = f[2]
      BY DEF Outcomes
    <3>2. f = <<"pending", "uncertain">>
      BY <3>1, SessionAssumption
    <3> QED  BY <3>1, <3>2 DEF IntentsAreCertain
  <2> QED  BY <2>1, <2>2 DEF WriteResult
<1>5. IntentWritten(disk, disk', <<call.intent>>, outcome)
  <2>1. IntentOK(<<call.intent>>)
    BY <1>3 DEF IntentOK
  <2>2. Images(disk) /\ outcome \in WriteResult
    BY FileOutcomes DEF ShapeInv, DiskOK, Images
  <2> QED  BY <1>1, <2>1, <2>2, PendingReplaced
<1>6. CASE outcome = "ok"
  <2>1. step' = "push" /\ UNCHANGED <<call, status>> /\ mem' = mem
    BY <1>1, <1>6 DEF Continue
  <2>2. StoredTokens' /\ CountersAreAhead'
    BY <1>2, <1>5, <1>6, <2>1, StoredIntent
  <2>3. EnvelopeIsNext'
    BY <1>2, <2>1 DEF TokenInv, EnvelopeIsNext
  <2>4. IntentIsNew'
    BY <2>1 DEF IntentIsNew
  <2> QED  BY <2>2, <2>3, <2>4 DEF TokenInv
<1>7. CASE outcome = "failed"
  <2>1. CallFails /\ disk' = disk
    BY <1>1, <1>5, <1>7 DEF IntentWritten
  <2>2. LogGrows
    BY <1>2, <1>3, SameGrows
  <2> QED  BY <1>2, <2>1, <2>2, FailedCallKeeps
<1> QED  BY <1>4, <1>6, <1>7

\* The envelope is written to the segment (PushWrites).
LEMMA PushWritesKeepsTokens ==
    ASSUME ShapeInv, ShapeInv', TokenInv, PushWrites
    PROVE  TokenInv'
<1> DEFINE rec == Envelope(call.intent)
<1>1. /\ step = "push" /\ Written(rec) /\ step' = "flush" /\ call' = call /\ status' = status
      /\ disk' = disk /\ mem' = mem
  BY DEF PushWrites, Continue
<1>2. rec \in Owed
  BY <1>1, IntentIsOwed DEF ShapeInv, Publishing
<1>3. LogGrows
  BY <1>1, <1>2, WrittenGrows DEF ShapeInv, WriterSteps
<1>4. CountersKept
  <2>1. mem.next <= mem.next /\ status # "down"
    BY <1>1 DEF ShapeInv, MemOK, CallOK
  <2>2. TokenStep
    BY <1>1, <1>3, <2>1 DEF TokenStep
  <2> QED  BY <2>2, StepKeeps
<1>5. EnvelopeIsNext'
  <2>1. mem.envelope \in Nat /\ mem.envelope <= LastSeq(log) + 1
    BY DEF ShapeInv, MemOK, TokenInv, EnvelopeIsNext
  <2>2. mem'.envelope <= LastSeq(log') + 1
    BY <1>1, <1>4, <2>1 DEF CountersKept
  <2>3. call.caller = "local" => call.intent.seq = mem.envelope
    BY <1>1 DEF TokenInv, EnvelopeIsNext
  <2> QED  BY <1>1, <2>2, <2>3 DEF EnvelopeIsNext
<1>6. IntentIsNew'
  BY <1>1 DEF IntentIsNew
<1> QED  BY <1>4, <1>5, <1>6 DEF CountersKept, TokenInv

\* The envelope could not be written or synchronised (PushError).
LEMMA PushErrorKeepsTokens ==
    ASSUME ShapeInv, ShapeInv', TokenInv, PushError
    PROVE  TokenInv'
<1> DEFINE rec == Envelope(call.intent)
<1>1. /\ step \in Publishing
      /\ WriteFails(rec) \/ SegmentFails(writer)
      /\ CallFails /\ disk' = disk
  BY DEF PushError, Publishing
<1>2. rec \in Owed
  BY <1>1, IntentIsOwed DEF ShapeInv
<1>3. LogGrows
  <2>1. CASE WriteFails(rec)
    BY <1>2, <2>1, WriteFailsGrows DEF ShapeInv, WriterSteps
  <2>2. CASE SegmentFails(writer)
    BY <2>2, SegmentFailsGrows DEF ShapeInv, WriterOK, WriterSteps
  <2> QED  BY <1>1, <2>1, <2>2
<1> QED  BY <1>1, <1>3, FailedCallKeeps

\* The envelope is synchronised (PushFlushes): it is the last one of the log.
LEMMA PushFlushesKeepsTokens ==
    ASSUME ShapeInv, ShapeInv', TokenInv, PushFlushes
    PROVE  TokenInv'
<1> DEFINE rec == Envelope(call.intent)
<1>1. /\ step = "flush" /\ Flushed(rec) /\ step' = "store_snapshot" /\ call' = call
      /\ status' = status /\ disk' = disk
      /\ mem' = IF call.caller = "local" THEN [mem EXCEPT !.envelope = mem.envelope + 1]
                ELSE mem
      /\ log' = log
  BY DEF PushFlushes, Continue, Flushed
<1>2. rec \in ToSet(log) /\ rec \in Owed /\ MemOK(mem) /\ LogOK /\ status # "down"
  BY <1>1, IntentIsOwed DEF ShapeInv, CallOK, Publishing
<1>3. LogGrows
  BY <1>1, <1>2, FlushedGrows DEF ShapeInv, WriterSteps
<1>4. /\ mem'.next = mem.next
      /\ mem'.envelope = IF call.caller = "local" THEN mem.envelope + 1 ELSE mem.envelope
  <2>1. CASE call.caller = "local"
    <3>1. mem' = [mem EXCEPT !.envelope = mem.envelope + 1]
      BY <1>1, <2>1
    <3> QED  BY <1>2, <2>1, <3>1 DEF MemOK
  <2>2. CASE call.caller # "local"
    BY <1>1, <2>2
  <2> QED  BY <2>1, <2>2
<1>5. CountersKept
  <2>1. mem.next <= mem.next
    BY <1>2 DEF MemOK
  <2>2. TokenStep
    BY <1>1, <1>2, <1>3, <1>4, <2>1 DEF TokenStep
  <2> QED  BY <2>2, StepKeeps
<1>6. LastSeq(log) = rec.seq
  <2>1. /\ Len(log) \in Nat /\ synced \in 0 .. Len(log)
        /\ \A n \in 0 .. Len(log) : \A i \in 1 .. n : log[i].seq <= SeqAt(log, n)
        /\ LastSeq(log) \in Nat
    BY <1>2, LogNumbers DEF TokenInv, StoredTokens
  <2>2. PICK i \in 1 .. Len(log) : rec = log[i]
    <3>1. DOMAIN log = 1 .. Len(log)
      BY <1>2 DEF LogOK
    <3> QED  BY <1>2, <3>1 DEF ToSet
  <2>3. rec.seq <= LastSeq(log)
    BY <2>1, <2>2 DEF LastSeq
  <2>4. Follows(log, Len(log), rec)
    <3>1. disk.now.pending # <<>> /\ rec = Envelope(disk.now.pending[1]) /\ disk.now \in disk.may
      BY <1>2 DEF Owed, ShapeInv, DiskOK
    <3>2. Len(log) \in synced .. Len(log)
      BY <2>1
    <3> QED  BY <3>1, <3>2 DEF TokenInv, StoredTokens, IntentsFollow
  <2>5. CASE rec.seq = LastSeq(log) + 1
    BY <2>1, <2>3, <2>5
  <2>6. CASE Len(log) > 0 /\ rec = log[Len(log)]
    BY <2>1, <2>6 DEF LastSeq, SeqAt
  <2> QED  BY <2>4, <2>5, <2>6 DEF Follows, LastSeq
<1>7. EnvelopeIsNext'
  <2>1. call.caller = "local" => mem.envelope = LastSeq(log)
    BY <1>1, <1>6 DEF TokenInv, EnvelopeIsNext, Envelope
  <2>2. mem.envelope <= LastSeq(log) + 1
    BY DEF TokenInv, EnvelopeIsNext
  <2>3. LastSeq(log) \in Nat
    BY <1>5 DEF CountersKept
  <2>4. call.caller = "local" => mem'.envelope = LastSeq(log') + 1
    BY <1>1, <1>4, <2>1
  <2>5. mem'.envelope <= LastSeq(log') + 1
    BY <1>1, <1>4, <2>1, <2>2, <2>3
  <2> QED  BY <1>1, <2>4, <2>5 DEF EnvelopeIsNext
<1>8. IntentIsNew'
  BY <1>1 DEF IntentIsNew
<1> QED  BY <1>5, <1>7, <1>8 DEF CountersKept, TokenInv

\* The history is stored, or not (StoreSnapshot).
LEMMA StoreSnapshotKeepsTokens ==
    ASSUME ShapeInv, ShapeInv', TokenInv, StoreSnapshot
    PROVE  TokenInv'
<1>1. PICK outcome \in Outcomes("snapshot") :
        /\ disk' = Replaced(disk, "snapshot", <<call.intent.history>>, outcome)
        /\ IF outcome = "ok" THEN Continue("clear_pending") /\ UNCHANGED mem ELSE CallFails
  BY DEF StoreSnapshot
<1>2. step = "store_snapshot" /\ UNCHANGED <<log, synced, published, writer>>
  BY DEF StoreSnapshot, ghostVars
<1>3. Carried(disk, disk', mem.next)
  <2>1. Images(disk) /\ outcome \in WriteResult
    BY FileOutcomes DEF ShapeInv, DiskOK, Images
  <2> QED  BY <1>1, <2>1, SnapshotCarried
<1>4. LogGrows /\ status # "down" /\ mem.next <= mem.next
  BY <1>2, SameGrows DEF ShapeInv, CallOK, MemOK
<1>5. CASE outcome = "ok"
  <2>1. step' = "clear_pending" /\ call' = call /\ status' = status /\ mem' = mem /\ log' = log
    BY <1>1, <1>2, <1>5 DEF Continue
  <2>2. CountersKept
    <3>1. TokenStep
      BY <1>3, <1>4, <2>1 DEF TokenStep
    <3> QED  BY <3>1, StepKeeps
  <2>3. EnvelopeIsNext'
    BY <1>2, <2>1 DEF TokenInv, EnvelopeIsNext
  <2>4. IntentIsNew'
    BY <2>1 DEF IntentIsNew
  <2> QED  BY <2>2, <2>3, <2>4 DEF CountersKept, TokenInv
<1>6. CASE outcome # "ok"
  <2>1. CallFails /\ step \in Publishing
    BY <1>1, <1>2, <1>6 DEF Publishing
  <2> QED  BY <1>3, <1>4, <2>1, FailedCallKeeps
<1> QED  BY <1>5, <1>6

\* The intent is cleared (ClearPending): its record is confirmed.
LEMMA ClearedIntent ==
    ASSUME ShapeInv, ShapeInv', TokenInv, step = "clear_pending", NEW outcome \in WriteResult,
           outcome # "failed", IntentWritten(disk, disk', <<>>, outcome),
           UNCHANGED <<log, synced, published>>,
           status' # "down" => status # "down" /\ mem'.next = mem.next
    PROVE  StoredTokens' /\ CountersAreAhead'
<1> DEFINE rec == Envelope(call.intent)
<1>1. disk.now.pending = <<call.intent>> /\ rec \in Confirmed /\ Owed = {rec}
  BY IntentIsOwed DEF ShapeInv, CallOK, Publishing
<1>2. disk'.now.pending = <<>>
      /\ \A x \in disk'.may : \E y \in disk.may :
            x.counter = y.counter /\ (x.pending = y.pending \/ x.pending = <<>>)
  BY DEF IntentWritten
<1>3. Owed' = {} /\ Confirmed' = Confirmed
  BY <1>2 DEF Owed, Confirmed
<1>4. <<call.intent>>[1] = call.intent
  OBVIOUS
<1>5. Numbered(log') /\ OneTokenPerOperation' /\ IntentIsShared' /\ OwedIsDistinct'
  BY <1>2, <1>3 DEF TokenInv, StoredTokens, OneTokenPerOperation, IntentIsShared, OwedIsDistinct
<1>6. ShownIsKept'
  BY <1>1, <1>3 DEF TokenInv, StoredTokens, ShownIsKept
<1>7. ASSUME NEW x \in disk'.may, x.pending # <<>>
      PROVE  /\ Envelope(x.pending[1]) \in Confirmed'
             /\ \A n \in synced .. Len(log) : Follows(log, n, Envelope(x.pending[1]))
  <2>1. PICK y \in disk.may : x.pending = y.pending
    BY <1>2, <1>7
  <2>2. Envelope(x.pending[1]) \in Confirmed
    BY <1>1, <1>4, <1>7, <2>1 DEF TokenInv, StoredTokens, OldIntentsAreConfirmed
  <2> QED  BY <1>3, <1>7, <2>1, <2>2 DEF TokenInv, StoredTokens, IntentsFollow
<1>8. OldIntentsAreConfirmed' /\ IntentsFollow'
  BY <1>7 DEF OldIntentsAreConfirmed, IntentsFollow
<1>9. CountersAreAhead'
  <2>1. \A p \in published :
          (\A d \in disk.may : p.op.id.counter < d.counter)
          /\ (status # "down" => p.op.id.counter < mem.next)
    BY DEF TokenInv, CountersAreAhead
  <2> QED  BY <1>2, <1>3, <2>1 DEF CountersAreAhead
<1> QED  BY <1>5, <1>6, <1>8, <1>9 DEF StoredTokens

\* The same for the whole step.
LEMMA ClearPendingKeepsTokens ==
    ASSUME ShapeInv, ShapeInv', TokenInv, ClearPending
    PROVE  TokenInv'
<1>1. PICK outcome \in Outcomes("clear") :
        /\ disk' = Replaced(disk, "pending", <<>>, outcome)
        /\ \/ outcome # "ok" /\ CallFails
           \/ /\ outcome = "ok" /\ call.caller = "local"
              /\ step' = "idle" /\ UNCHANGED <<status, mem>>
           \/ /\ outcome = "ok" /\ call.caller # "local" /\ Continue("replay")
              /\ mem' = [mem EXCEPT !.blocked = FALSE]
  BY DEF ClearPending
<1>2. step = "clear_pending" /\ UNCHANGED <<log, synced, published>>
  BY DEF ClearPending
<1>3. outcome \in WriteResult /\ MemOK(mem) /\ LogOK /\ status # "down"
      /\ step \in Publishing
  BY <1>2, FileOutcomes DEF ShapeInv, CallOK, Publishing
<1>4. IntentWritten(disk, disk', <<>>, outcome)
  <2>1. IntentOK(<<>>) /\ Images(disk)
    BY DEF IntentOK, ShapeInv, DiskOK, Images
  <2> QED  BY <1>1, <1>3, <2>1, PendingReplaced
<1>5. CASE outcome = "failed"
  <2>1. CallFails /\ disk' = disk
    BY <1>1, <1>4, <1>5 DEF IntentWritten
  <2>2. LogGrows
    BY <1>2, <1>3, SameGrows
  <2> QED  BY <1>3, <2>1, <2>2, FailedCallKeeps
<1>6. CASE outcome # "failed"
  <2>1. /\ \/ step' = "idle" /\ ~Usable'
           \/ step' = "idle" /\ call.caller = "local" /\ mem' = mem
           \/ step' = "replay" /\ call' = call /\ call.caller # "local"
        /\ \/ status' = status /\ mem'.next = mem.next /\ mem'.envelope = mem.envelope
           \/ status' = "down" /\ mem'.envelope = 1
    <3>1. CASE CallFails
      BY <1>3, <3>1, FailedCall DEF ShapeInv
    <3>2. CASE /\ call.caller = "local"
               /\ step' = "idle" /\ UNCHANGED <<status, mem>>
      BY <3>2
    <3>3. CASE /\ call.caller # "local" /\ Continue("replay")
               /\ mem' = [mem EXCEPT !.blocked = FALSE]
      <4>1. mem'.next = mem.next /\ mem'.envelope = mem.envelope
        BY <1>3, <3>3, UnblockedMem
      <4> QED  BY <3>3, <4>1 DEF Continue
    <3> QED  BY <1>1, <3>1, <3>2, <3>3
  <2>2. StoredTokens' /\ CountersAreAhead'
    <3>1. status' # "down" => status # "down" /\ mem'.next = mem.next
      BY <1>3, <2>1
    <3> QED  BY <1>2, <1>3, <1>4, <1>6, <3>1, ClearedIntent
  <2>3. EnvelopeIsNext' /\ IntentIsNew'
    <3>1. mem.envelope \in Nat /\ mem.envelope <= LastSeq(log) + 1 /\ LastSeq(log) \in Nat
      BY <1>3, LogNumbers DEF MemOK, TokenInv, StoredTokens, EnvelopeIsNext
    <3>2. mem'.envelope <= LastSeq(log') + 1
      BY <1>2, <2>1, <3>1
    <3>3. call.caller = "local" => mem.envelope = LastSeq(log) + 1
      BY <1>2 DEF TokenInv, EnvelopeIsNext
    <3>4. (step' = "idle" /\ Usable') => mem'.envelope = LastSeq(log') + 1
      BY <1>2, <2>1, <3>3
    <3>5. step' = "idle" \/ (step' \in {"replay", "push"} /\ call'.caller # "local")
      BY <2>1
    <3> QED  BY <3>2, <3>4, <3>5, EnvelopeBetween
  <2> QED  BY <2>2, <2>3 DEF TokenInv
<1> QED  BY <1>5, <1>6

\* Opening and recovering take over the numbers (Reconcile).
LEMMA ReconcileNumbers ==
    ASSUME NEW caller \in {"open", "recover"}, NEW m, MemOK(m), Reconcile(caller, m)
    PROVE  /\ mem'.next = m.next /\ mem'.envelope = m.envelope
           /\ step' \in {"replay", "push"} /\ call'.caller # "local"
<1>1. step' \in {"replay", "push"} /\ call'.caller # "local"
  <2>1. step' \in {"replay", "push"} /\ \E i : call' = [caller |-> caller, intent |-> i]
    BY Zenon DEF Reconcile
  <2>2. call'.caller = caller
    BY <2>1
  <2> QED  BY <2>1, <2>2
<1>2. CASE mem' = [m EXCEPT !.blocked = FALSE]
  <2>1. mem'.next = m.next /\ mem'.envelope = m.envelope
    BY <1>2, UnblockedMem
  <2> QED  BY <1>1, <2>1
<1>3. CASE mem' = [m EXCEPT !.blocked = TRUE, !.complete = FALSE]
  <2>1. mem'.next = m.next /\ mem'.envelope = m.envelope
    BY <1>3, BlockedMem
  <2> QED  BY <1>1, <2>1
<1>4. CASE mem' = m
  BY <1>1, <1>4
<1> QED  BY <1>2, <1>3, <1>4 DEF Reconcile

\* A session is opened (Open).
LEMMA OpenKeepsTokens ==
    ASSUME ShapeInv, ShapeInv', TokenInv, Open
    PROVE  TokenInv'
<1>1. /\ Reconcile("open", Fresh(disk.now.counter))
      /\ UNCHANGED <<disk, log, synced, published>>
  BY DEF Open, diskVars, ghostVars
<1>2. disk.now.counter \in Nat \ {0}
  BY DEF ShapeInv, DiskOK, ImageOK
<1> DEFINE m == Fresh(disk.now.counter)
<1>3. MemOK(m) /\ m.next = disk.now.counter /\ m.envelope = 1 /\ Reconcile("open", m)
  BY <1>1, <1>2, FreshMem DEF Fresh
<1> HIDE DEF m
<1>4. /\ mem'.next = disk.now.counter /\ mem'.envelope = 1
      /\ step' \in {"replay", "push"} /\ call'.caller # "local"
  BY <1>3, ReconcileNumbers
<1>5. TokenStep
  <2>1. LogGrows
    BY <1>1, SameGrows DEF ShapeInv
  <2> QED  BY <1>1, <1>4, <2>1 DEF TokenStep
<1>6. mem'.envelope \in {1, mem.envelope, LastSeq(log) + 1} /\ step' # "idle"
  BY <1>4
<1> QED  BY <1>4, <1>5, <1>6, BetweenKeeps

\* An open session is recovered (Recover).
LEMMA RecoverKeepsTokens ==
    ASSUME ShapeInv, ShapeInv', TokenInv, Recover
    PROVE  TokenInv'
<1>1. /\ status = "open" /\ Reconcile("recover", mem)
      /\ UNCHANGED <<disk, log, synced, published>>
  BY DEF Recover, diskVars, ghostVars
<1>2. /\ mem'.next = mem.next /\ mem'.envelope = mem.envelope
      /\ step' \in {"replay", "push"} /\ call'.caller # "local"
  BY <1>1, ReconcileNumbers DEF ShapeInv
<1>3. TokenStep
  <2>1. LogGrows /\ mem.next <= mem.next
    BY <1>1, SameGrows DEF ShapeInv, MemOK
  <2> QED  BY <1>1, <1>2, <2>1 DEF TokenStep
<1>4. mem'.envelope \in {1, mem.envelope, LastSeq(log) + 1} /\ step' # "idle"
  BY <1>2
<1> QED  BY <1>2, <1>3, <1>4, BetweenKeeps

\* Replaying moves the next envelope behind the log (Replayed).
LEMMA ReplayedNumbers ==
    ASSUME ShapeInv, TokenInv
    PROVE  MemOK(Replayed(mem)) /\ Replayed(mem).envelope = LastSeq(log) + 1
           /\ mem.next <= Replayed(mem).next
<1>1. /\ MemOK(Replayed(mem)) /\ mem.next <= Replayed(mem).next
      /\ Replayed(mem).envelope =
            IF mem.envelope >= NextSequence(ToSet(log)) THEN mem.envelope
            ELSE NextSequence(ToSet(log))
  BY ReplayedMem DEF ShapeInv
<1>2. NextSequence(ToSet(log)) = LastSeq(log) + 1 /\ LastSeq(log) \in Nat
  BY NextIsAfterLast DEF ShapeInv, TokenInv, StoredTokens
<1>3. mem.envelope \in Nat /\ mem.envelope <= LastSeq(log) + 1
  BY DEF ShapeInv, MemOK, TokenInv, EnvelopeIsNext
<1> QED  BY <1>1, <1>2, <1>3

\* What the log holds is in memory, and the session is open (Replay).
LEMMA ReplayKeepsTokens ==
    ASSUME ShapeInv, ShapeInv', TokenInv, Replay
    PROVE  TokenInv'
<1> DEFINE m == Replayed(mem)
           snapshot == disk.now.snapshot
           n == IF snapshot = <<>> THEN m ELSE [m EXCEPT !.history = snapshot[1]]
<1>1. /\ step = "replay" /\ mem' = Completed(n) /\ step' = "idle"
      /\ UNCHANGED <<disk, log, synced, published>>
  BY DEF Replay, diskVars, ghostVars
<1>2. MemOK(m) /\ m.envelope = LastSeq(log) + 1 /\ mem.next <= m.next
  BY ReplayedNumbers
<1> HIDE DEF m
<1>3. MemOK(n) /\ n.envelope = m.envelope /\ n.next = m.next
  <2>1. CASE snapshot = <<>>
    BY <1>2, <2>1
  <2>2. CASE snapshot # <<>>
    <3>1. n = [m EXCEPT !.history = snapshot[1]]
      BY <2>2
    <3> HIDE DEF n
    <3> QED  BY <1>2, <3>1, HistoryMem, Zenon
  <2> QED  BY <2>1, <2>2
<1> HIDE DEF n
<1>4. mem'.envelope = LastSeq(log) + 1 /\ mem.next <= mem'.next
  BY <1>1, <1>2, <1>3, CompletedMem
<1>5. TokenStep
  <2>1. LogGrows /\ status # "down"
    BY <1>1, SameGrows DEF ShapeInv, CallOK
  <2> QED  BY <1>1, <1>4, <2>1 DEF TokenStep
<1>6. mem'.envelope \in {1, mem.envelope, LastSeq(log) + 1}
  BY <1>4
<1> QED  BY <1>1, <1>4, <1>5, <1>6, BetweenKeeps

\* Replay or the stored history is refused (ReplayFails).
LEMMA ReplayFailsKeepsTokens ==
    ASSUME ShapeInv, ShapeInv', TokenInv, ReplayFails
    PROVE  TokenInv'
<1>1. step = "replay" /\ step' = "idle" /\ UNCHANGED <<disk, log, synced, published>>
  BY DEF ReplayFails, diskVars, ghostVars
<1>2. LogGrows /\ status # "down"
  BY <1>1, SameGrows DEF ShapeInv, CallOK
<1>3. CASE call.caller = "open"
  <2>1. status' = "down" /\ mem'.envelope = 1
    BY <1>3 DEF ReplayFails, Fresh
  <2>2. TokenStep /\ mem'.envelope \in {1, mem.envelope, LastSeq(log) + 1} /\ ~Usable'
    BY <1>1, <1>2, <2>1 DEF TokenStep, Usable
  <2> QED  BY <1>1, <2>2, BetweenKeeps
<1>4. CASE call.caller # "open"
  <2>1. mem' = Replayed(mem) /\ status' = status
    BY <1>4 DEF ReplayFails
  <2>2. mem'.envelope = LastSeq(log) + 1 /\ mem.next <= mem'.next
    BY <2>1, ReplayedNumbers
  <2>3. TokenStep /\ mem'.envelope \in {1, mem.envelope, LastSeq(log) + 1}
    BY <1>1, <1>2, <2>1, <2>2 DEF TokenStep
  <2> QED  BY <1>1, <2>2, <2>3, BetweenKeeps
<1> QED  BY <1>3, <1>4

\* A step between two calls that leaves the numbers alone or moves the allocator
\* forward
LEMMA IdleKeepsTokens ==
    ASSUME ShapeInv, ShapeInv', TokenInv, status = "open", step = "idle",
           status' = "open", step' = "idle", LogGrows, Carried(disk, disk', mem.next),
           mem.next <= mem'.next, mem'.envelope = mem.envelope,
           mem'.poisoned \/ mem'.poisoned = mem.poisoned, mem'.blocked = mem.blocked
    PROVE  TokenInv'
<1>1. TokenStep
  BY DEF TokenStep
<1>2. ASSUME Usable'
      PROVE  mem'.envelope = LastSeq(log) + 1 /\ log' = log
  <2>1. Usable
    BY <1>2 DEF Usable
  <2>2. Owed = {} /\ mem.envelope = LastSeq(log) + 1
    BY <2>1 DEF Usable, ShapeInv, CallOK, Owed, TokenInv, EnvelopeIsNext
  <2>3. CountersKept
    BY <1>1, StepKeeps
  <2> QED  BY <2>2, <2>3 DEF CountersKept
<1>3. mem'.envelope \in {1, mem.envelope, LastSeq(log) + 1}
  OBVIOUS
<1> QED  BY <1>1, <1>2, <1>3, BetweenKeeps

\* The history is changed and stored (AcknowledgeUndoRetirements, CoalesceLastUndo).
LEMMA StoreHistoryKeepsTokens ==
    ASSUME ShapeInv, ShapeInv', TokenInv, Ready, NEW history, StoreHistory(history),
           published' = published
    PROVE  TokenInv'
<1>1. PICK outcome \in Outcomes("snapshot") :
        /\ disk' = Replaced(disk, "snapshot", <<history>>, outcome)
        /\ mem' = [mem EXCEPT !.history = history, !.poisoned = outcome # "ok"]
  BY DEF StoreHistory
<1>2. /\ UNCHANGED <<log, synced>> /\ status' = status /\ step' = step /\ status = "open"
      /\ step = "idle" /\ ~mem.poisoned
  BY DEF StoreHistory, Ready
<1>3. Carried(disk, disk', mem.next)
  <2>1. Images(disk) /\ outcome \in WriteResult
    BY FileOutcomes DEF ShapeInv, DiskOK, Images
  <2> QED  BY <1>1, <2>1, SnapshotCarried
<1>4. /\ mem'.next = mem.next /\ mem'.envelope = mem.envelope /\ mem'.blocked = mem.blocked
      /\ mem'.poisoned \in BOOLEAN /\ mem.poisoned \in BOOLEAN
  <2> DEFINE flag == outcome # "ok"
  <2>1. flag \in BOOLEAN /\ mem' = [mem EXCEPT !.history = history, !.poisoned = flag]
        /\ MemOK(mem)
    BY <1>1 DEF ShapeInv
  <2> HIDE DEF flag
  <2> QED  BY <2>1 DEF MemOK
<1>5. mem'.poisoned \/ mem'.poisoned = mem.poisoned
  BY <1>2, <1>4
<1>6. LogGrows /\ mem.next <= mem'.next
  BY <1>2, <1>4, SameGrows DEF ShapeInv, MemOK
<1> QED  BY <1>2, <1>3, <1>4, <1>5, <1>6, IdleKeepsTokens

\* An operation of a peer is integrated (Poll).
LEMMA PollKeepsTokens ==
    ASSUME ShapeInv, ShapeInv', TokenInv, Poll
    PROVE  TokenInv'
<1>1. PICK c \in peers :
        mem' = Completed([mem EXCEPT !.seen = mem.seen \cup {c}, !.next = Observing(mem, {c})])
  BY DEF Poll
<1>2. /\ status = "open" /\ step = "idle" /\ status' = status /\ step' = step
      /\ UNCHANGED <<disk, log, synced, published>>
  BY DEF Poll, diskVars, ghostVars
<1> DEFINE n == [mem EXCEPT !.seen = mem.seen \cup {c}, !.next = Observing(mem, {c})]
<1>3. MemOK(n) /\ SameFlags(mem, n) /\ mem.next <= n.next /\ n.envelope = mem.envelope
  <2>1. c \in Nat /\ MemOK(mem)
    BY DEF ShapeInv, PeersOK
  <2> QED  BY <2>1, PolledMem, Zenon
<1>4. mem' = Completed(n)
  BY <1>1
<1> HIDE DEF n
<1>5. /\ mem'.poisoned = mem.poisoned /\ mem'.blocked = mem.blocked
      /\ mem.next <= mem'.next /\ mem'.envelope = mem.envelope
  BY <1>3, <1>4, CompletedMem DEF SameFlags
<1>6. LogGrows /\ Carried(disk, disk', mem.next)
  BY <1>2, SameGrows, SameCarried DEF ShapeInv, DiskOK, Images
<1> QED  BY <1>2, <1>5, <1>6, IdleKeepsTokens

\* The session is saved (Save).
LEMMA SaveKeepsTokens ==
    ASSUME ShapeInv, ShapeInv', TokenInv, Save
    PROVE  TokenInv'
<1>1. /\ status = "open" /\ step = "idle" /\ status' = status /\ step' = step /\ mem' = mem
      /\ FlushFails(FALSE) \/ SaveSucceeds \/ SaveFails
  BY DEF Save
<1>2. LogGrows /\ Carried(disk, disk', mem.next)
  BY <1>1, SaveEffects DEF WriterSteps
<1>3. mem.next <= mem'.next
  BY <1>1 DEF ShapeInv, MemOK
<1> QED  BY <1>1, <1>2, <1>3, IdleKeepsTokens

\* The session is closed (Close).
LEMMA CloseKeepsTokens ==
    ASSUME ShapeInv, ShapeInv', TokenInv, Close
    PROVE  TokenInv'
<1>1. /\ status = "open" /\ step = "idle" /\ status' = "down" /\ step' = step
      /\ mem'.envelope = 1
      /\ FlushFails(TRUE) \/ SaveSucceeds \/ SaveFails
  BY DEF Close, Fresh
<1>2. LogGrows /\ Carried(disk, disk', mem.next)
  BY <1>1, SaveEffects DEF WriterSteps
<1>3. TokenStep /\ mem'.envelope \in {1, mem.envelope, LastSeq(log) + 1} /\ ~Usable'
  BY <1>1, <1>2 DEF TokenStep, Usable
<1> QED  BY <1>1, <1>3, BetweenKeeps

\* Nothing of the device changes (PeerPublishes, a stuttering step).
LEMMA SameTokens ==
    ASSUME TokenInv, UNCHANGED <<disk, log, synced, status, step, call, mem, published>>
    PROVE  TokenInv'
<1>1. Confirmed' = Confirmed /\ Owed' = Owed /\ Usable' = Usable
  BY DEF Confirmed, Owed, Usable
<1>2. StoredTokens'
  BY <1>1 DEF TokenInv, StoredTokens, IntentIsShared, ShownIsKept, IntentsFollow,
              OldIntentsAreConfirmed, OneTokenPerOperation, OwedIsDistinct
<1>3. CountersAreAhead' /\ IntentIsNew'
  BY <1>1 DEF TokenInv, CountersAreAhead, IntentIsNew
<1>4. EnvelopeIsNext'
  BY <1>1 DEF TokenInv, EnvelopeIsNext
<1> QED  BY <1>2, <1>3, <1>4 DEF TokenInv

\* The process ends (Kill).
LEMMA KillKeepsTokens ==
    ASSUME ShapeInv, ShapeInv', TokenInv, Kill
    PROVE  TokenInv'
<1>1. /\ status' = "down" /\ step' = "idle" /\ mem'.envelope = 1
      /\ UNCHANGED <<disk, log, synced, published>>
  BY DEF Kill, Stopped, diskVars, ghostVars, Fresh
<1>2. LogGrows
  BY <1>1, SameGrows DEF ShapeInv
<1>3. TokenStep /\ mem'.envelope \in {1, mem.envelope, LastSeq(log) + 1} /\ ~Usable'
  BY <1>1, <1>2 DEF TokenStep, Usable
<1> QED  BY <1>1, <1>3, BetweenKeeps

\* The machine stops (PowerLoss): the image it leaves has the intent of every record
\* that was shown and is not confirmed.
LEMMA PowerLossKeepsTokens ==
    ASSUME ShapeInv, ShapeInv', TokenInv, PowerLoss
    PROVE  TokenInv'
<1>1. status' = "down" /\ step' = "idle" /\ mem'.envelope = 1 /\ published' = published
  BY DEF PowerLoss, Stopped, ghostVars, Fresh
<1>2. PICK d \in disk.may : disk' = [now |-> d, may |-> {d}]
  BY DEF PowerLoss
<1>3. PICK n \in synced .. Len(log) : log' = SubSeq(log, 1, n) /\ synced' = n
  BY DEF PowerLoss
<1>4. log \in Seq(published) /\ synced \in Nat /\ n \in 0 .. Len(log) /\ n \in Nat
      /\ Len(log) \in Nat /\ synced <= n
  BY DEF ShapeInv, LogOK
<1>5. Len(log') = n /\ \A i \in 1 .. n : log'[i] = log[i]
  BY <1>3, <1>4, Prefix
<1>6. Confirmed \subseteq Confirmed'
  <2>1. \A i \in 1 .. synced : i \in 1 .. n /\ log'[i] = log[i]
    BY <1>4, <1>5
  <2> QED  BY <1>3, <2>1 DEF Confirmed
<1>7. disk'.now = d /\ disk'.may = {d}
  BY <1>2
<1>8. Owed' \subseteq Owed \cup Confirmed /\ (Owed' = Owed \/ Owed = {})
  <2>1. Owed' = IF d.pending = <<>> THEN {} ELSE {Envelope(d.pending[1])}
    BY <1>7 DEF Owed
  <2>2. CASE disk.now.pending # <<>>
    <3>1. d.pending = disk.now.pending
      BY <2>2 DEF TokenInv, StoredTokens, IntentIsShared
    <3> QED  BY <2>1, <3>1 DEF Owed
  <2>3. CASE disk.now.pending = <<>>
    <3>1. Owed = {} /\ (d.pending # <<>> => Envelope(d.pending[1]) \in Confirmed)
      BY <2>3 DEF Owed, TokenInv, StoredTokens, OldIntentsAreConfirmed
    <3> QED  BY <2>1, <3>1
  <2> QED  BY <2>2, <2>3
<1>9. Confirmed \subseteq published
  BY <1>4 DEF Confirmed
<1>10. ShownIsKept'
  BY <1>1, <1>6, <1>8 DEF TokenInv, StoredTokens, ShownIsKept
<1>11. IntentIsShared' /\ OldIntentsAreConfirmed'
  BY <1>7 DEF IntentIsShared, OldIntentsAreConfirmed
<1>12. IntentsFollow'
  <2> SUFFICES ASSUME d.pending # <<>>, NEW k \in synced' .. Len(log')
               PROVE  Follows(log', k, Envelope(d.pending[1]))
    BY <1>7 DEF IntentsFollow
  <2>1. k = n
    BY <1>3, <1>4, <1>5
  <2>2. Follows(log, n, Envelope(d.pending[1]))
    BY DEF TokenInv, StoredTokens, IntentsFollow
  <2>3. n > 0 => log'[n] = log[n]
    BY <1>4, <1>5
  <2>4. SeqAt(log', n) = SeqAt(log, n)
    BY <1>4, <2>3 DEF SeqAt
  <2> QED  BY <2>1, <2>2, <2>3, <2>4 DEF Follows
<1>13. Numbered(log')
  <2> SUFFICES ASSUME NEW i \in 1 .. n
               PROVE  IF i = 1 THEN log'[i].seq = 1
                      ELSE \/ log'[i].seq = log'[i - 1].seq + 1
                           \/ log'[i] = log'[i - 1]
    BY <1>5 DEF Numbered
  <2>1. i \in 1 .. Len(log) /\ (i # 1 => i - 1 \in 1 .. n)
    BY <1>4
  <2>2. log'[i] = log[i] /\ (i # 1 => log'[i - 1] = log[i - 1])
    BY <1>5, <2>1
  <2> QED  BY <2>1, <2>2 DEF TokenInv, StoredTokens, Numbered
<1>14. OneTokenPerOperation' /\ OwedIsDistinct'
  <2>1. \A p, q \in published : Distinct(p, q)
    BY DEF TokenInv, StoredTokens, OneTokenPerOperation, Distinct
  <2>2. \A rec \in Owed \cup Confirmed : \A p \in published : Distinct(p, rec)
    BY <1>9, <2>1 DEF TokenInv, StoredTokens, OwedIsDistinct
  <2> QED  BY <1>1, <1>8, <2>1, <2>2 DEF OneTokenPerOperation, OwedIsDistinct, Distinct
<1>15. CountersAreAhead'
  <2>1. \A p \in published \cup Owed : p.op.id.counter < d.counter
    BY DEF TokenInv, CountersAreAhead
  <2>2. published' \cup Owed' \subseteq published \cup Owed
    BY <1>1, <1>8, <1>9
  <2> QED  BY <1>1, <1>7, <2>1, <2>2 DEF CountersAreAhead
<1>16. EnvelopeIsNext' /\ IntentIsNew'
  <2>1. LastSeq(log') \in Nat
    <3>1. n # 0 => log[n] \in published /\ log[n].seq \in Nat /\ log'[n] = log[n]
      BY <1>4, <1>5 DEF ShapeInv, LogOK, Sound
    <3> QED  BY <1>4, <1>5, <3>1 DEF LastSeq, SeqAt
  <2>2. mem'.envelope <= LastSeq(log') + 1
    BY <1>1, <2>1
  <2>3. ~Usable'
    BY <1>1 DEF Usable
  <2> QED  BY <1>1, <2>2, <2>3, EnvelopeBetween
<1> QED  BY <1>10, <1>11, <1>12, <1>13, <1>14, <1>15, <1>16 DEF TokenInv, StoredTokens

-----------------------------------------------------------------------------

\* The empty device has used no token.
LEMMA InitHasTokens == Init => TokenInv
<1> SUFFICES ASSUME Init
             PROVE  TokenInv
  OBVIOUS
<1> DEFINE empty == [counter |-> 1, snapshot |-> <<>>, pending |-> <<>>]
<1>1. disk = [now |-> empty, may |-> {empty}]
  BY DEF Init
<1>2. disk.now.pending = <<>> /\ \A d \in disk.may : d.pending = <<>>
  BY <1>1
<1>3. log = <<>> /\ synced = 0 /\ published = {} /\ status = "down" /\ step = "idle"
      /\ Len(log) = 0 /\ mem.envelope = 1
  BY DEF Init, Fresh
<1>4. Owed = {} /\ Confirmed = {}
  BY <1>2, <1>3 DEF Owed, Confirmed
<1>5. Numbered(log) /\ IntentIsShared /\ ShownIsKept /\ IntentsFollow
  BY <1>2, <1>3 DEF Numbered, IntentIsShared, ShownIsKept, IntentsFollow
<1>6. OldIntentsAreConfirmed /\ OneTokenPerOperation /\ OwedIsDistinct /\ CountersAreAhead
  BY <1>2, <1>3, <1>4
     DEF OldIntentsAreConfirmed, OneTokenPerOperation, OwedIsDistinct, CountersAreAhead
<1>7. EnvelopeIsNext /\ IntentIsNew
  BY <1>3 DEF EnvelopeIsNext, IntentIsNew, Usable, LastSeq, SeqAt
<1> QED  BY <1>5, <1>6, <1>7 DEF TokenInv, StoredTokens

\* Every step keeps TokenInv when stores of the intent are certain.
LEMMA NextKeepsTokens ==
    ASSUME IntentsAreCertain
    PROVE  ShapeInv /\ ShapeInv' /\ TokenInv /\ [Next]_vars => TokenInv'
<1> SUFFICES ASSUME ShapeInv, ShapeInv', TokenInv, [Next]_vars
             PROVE  TokenInv'
  OBVIOUS
<1>1. CASE ApplyLocal \/ Undo \/ Redo
  <2>1. PICK toggles, history : BeginPublish(NewOp(toggles), history)
    BY <1>1 DEF ApplyLocal, Undo, Redo
  <2> QED  BY <2>1, BeginKeepsTokens
<1>2. CASE ReserveFails
  BY <1>2, ReserveFailsKeepsTokens
<1>3. CASE StorePending
  BY <1>3, StorePendingKeepsTokens
<1>4. CASE PushWrites
  BY <1>4, PushWritesKeepsTokens
<1>5. CASE PushFlushes
  BY <1>5, PushFlushesKeepsTokens
<1>6. CASE PushError
  BY <1>6, PushErrorKeepsTokens
<1>7. CASE StoreSnapshot
  BY <1>7, StoreSnapshotKeepsTokens
<1>8. CASE ClearPending
  BY <1>8, ClearPendingKeepsTokens
<1>9. CASE Open
  BY <1>9, OpenKeepsTokens
<1>10. CASE Recover
  BY <1>10, RecoverKeepsTokens
<1>11. CASE Replay
  BY <1>11, ReplayKeepsTokens
<1>12. CASE ReplayFails
  BY <1>12, ReplayFailsKeepsTokens
<1>13. CASE AcknowledgeUndoRetirements
  BY <1>13, StoreHistoryKeepsTokens DEF AcknowledgeUndoRetirements
<1>14. CASE CoalesceLastUndo
  BY <1>14, StoreHistoryKeepsTokens DEF CoalesceLastUndo, ghostVars
<1>15. CASE Poll
  BY <1>15, PollKeepsTokens
<1>16. CASE Save
  BY <1>16, SaveKeepsTokens
<1>17. CASE Close
  BY <1>17, CloseKeepsTokens
<1>18. CASE PeerPublishes
  BY <1>18, SameTokens DEF PeerPublishes, diskVars, ghostVars
<1>19. CASE Kill
  BY <1>19, KillKeepsTokens
<1>20. CASE PowerLoss
  BY <1>20, PowerLossKeepsTokens
<1>21. CASE UNCHANGED vars
  BY <1>21, SameTokens DEF vars, diskVars, ghostVars
<1> QED
  BY <1>1, <1>2, <1>3, <1>4, <1>5, <1>6, <1>7, <1>8, <1>9, <1>10, <1>11, <1>12, <1>13,
     <1>14, <1>15, <1>16, <1>17, <1>18, <1>19, <1>20, <1>21 DEF Next

\* No envelope number and no identity is ever used for two operations that another
\* device may have read, whatever else fails and whenever the device stops, as long
\* as no store of the intent reports an error and leaves the intent visible
\* (next_envelope, reserve_run, reconcile_pending_history).
THEOREM TokensAreUsedOnce ==
    ASSUME IntentsAreCertain
    PROVE  Spec => []OneTokenPerOperation
<1>1. Init => TokenInv
  BY InitHasTokens
<1>2. ShapeInv /\ ShapeInv' /\ TokenInv /\ [Next]_vars => TokenInv'
  BY NextKeepsTokens
<1>3. TokenInv => OneTokenPerOperation
  BY DEF TokenInv, StoredTokens
<1> QED  BY <1>1, <1>2, <1>3, SessionShape, PTL DEF Spec
==============================================================================
