---------------------------- MODULE DevicesProofs ---------------------------
(***************************************************************************)
(* Proofs about Devices: the caches are sound whatever is plugged in and   *)
(* out, and a write that returns has reached the device.                   *)
(***************************************************************************)
EXTENDS Devices, SequenceTheorems, TLAPS

\* Where a stream comes from when its cache is reordered.
LEMMA PreparedType ==
  ASSUME TypeOK, NEW s \in Streams
  PROVE  /\ Prepared(s) \in Streams /\ Prepared(s).file = s.file
         /\ Prepared(s).of = 0 => device[s.file[1]] = 0
         /\ s.of = 0 => Prepared(s).of = device[s.file[1]]
BY DEF TypeOK, Prepared, Streams, Files

\* Opens leaves a sound cache, with the stream it is about in front.
LEMMA OpensSound ==
  ASSUME TypeOK, NEW cache \in Seq(Streams), CacheSound(cache),
         NEW f \in Files, NEW next, Opens(cache, f, next)
  PROVE  /\ next \in Seq(Streams) /\ next # <<>>
         /\ CacheSound(next)
         /\ Head(next).file = f
         /\ Head(next).of = 0 => device[f[1]] = 0
         /\ (\A i \in DOMAIN cache : cache[i].file = f => cache[i].of = 0)
              => Head(next).of = device[f[1]]
<1>1. CASE \E i \in Found(cache, f) :
       next = <<Prepared(cache[i])>> \o SubSeq(cache, 1, i - 1) \o SubSeq(cache, i + 1, Len(cache))
  <2>1. PICK i \in Found(cache, f) :
          next = <<Prepared(cache[i])>> \o SubSeq(cache, 1, i - 1) \o SubSeq(cache, i + 1, Len(cache))
    BY <1>1
  <2>2. i \in 1 .. Len(cache) /\ cache[i].file = f /\ cache[i] \in Streams
    BY DEF Found
  <2> DEFINE p == Prepared(cache[i])
             n == Len(cache)
             old(k) == IF k = 1 THEN i ELSE IF k <= i THEN k - 1 ELSE k
  <2>3. /\ p \in Streams /\ p.file = f
        /\ p.of = 0 => device[f[1]] = 0
        /\ cache[i].of = 0 => p.of = device[f[1]]
    BY <2>2, PreparedType
  <2> HIDE DEF p
  <2>4. /\ next \in Seq(Streams)
        /\ Len(next) = n
        /\ next[1] = p
        /\ \A k \in 2 .. n : next[k] = cache[old(k)]
    <3> DEFINE before == SubSeq(cache, 1, i - 1)
               after == SubSeq(cache, i + 1, n)
               front == <<p>> \o before
    <3>1. /\ before \in Seq(Streams) /\ Len(before) = i - 1
          /\ \A k \in 1 .. i - 1 : before[k] = cache[k]
      BY <2>2
    <3>2. /\ after \in Seq(Streams) /\ Len(after) = n - i
          /\ \A k \in 1 .. n - i : after[k] = cache[i + k]
      BY <2>2
    <3>3. next = front \o after
      BY <2>1 DEF p
    <3> HIDE DEF before, after
    <3>4. /\ front \in Seq(Streams) /\ Len(front) = i /\ front[1] = p
          /\ \A k \in 2 .. i : front[k] = cache[k - 1]
      BY <2>2, <2>3, <3>1
    <3> HIDE DEF front
    <3>5. next \in Seq(Streams) /\ Len(next) = n
      BY <2>2, <3>2, <3>3, <3>4
    <3>6. \A k \in 1 .. i : next[k] = front[k]
      BY <2>2, <3>2, <3>3, <3>4
    <3>7. \A k \in i + 1 .. n : next[k] = after[k - i]
      BY <2>2, <3>2, <3>3, <3>4
    <3>8. \A k \in i + 1 .. n : k - i \in 1 .. n - i /\ i + (k - i) = k
      BY <2>2
    <3>9. \A k \in i + 1 .. n : next[k] = cache[k]
      BY <3>2, <3>7, <3>8
    <3> QED BY <2>2, <3>4, <3>5, <3>6, <3>9
  <2>5. \A k \in 1 .. n : old(k) \in 1 .. n /\ next[k].file = cache[old(k)].file
    BY <2>2, <2>3, <2>4
  <2>6. \A j, k \in 1 .. n : old(j) = old(k) => j = k
    BY <2>2
  <2>7. CacheSound(next)
    <3>1. Len(next) <= CacheSize
      BY <2>4 DEF CacheSound
    <3>2. ASSUME NEW j \in 1 .. n, NEW k \in 1 .. n, next[j].file = next[k].file
          PROVE  j = k
      <4>1. old(j) \in 1 .. n /\ old(k) \in 1 .. n /\ cache[old(j)].file = cache[old(k)].file
        BY <2>5, <3>2
      <4> HIDE DEF old
      <4>2. old(j) = old(k)
        BY <4>1 DEF CacheSound
      <4> QED BY <2>6, <4>2
    <3> QED BY <2>4, <3>1, <3>2 DEF CacheSound
  <2>8. next # <<>> /\ Head(next) = p
    BY <2>2, <2>4
  <2> QED BY <2>2, <2>3, <2>4, <2>7, <2>8
<1>2. CASE /\ Found(cache, f) = {}
           /\ next = <<Prepared([file |-> f, of |-> 0])>>
                \o SubSeq(cache, 1, IF Len(cache) < CacheSize THEN Len(cache) ELSE CacheSize - 1)
  <2> DEFINE p == Prepared([file |-> f, of |-> 0])
             m == IF Len(cache) < CacheSize THEN Len(cache) ELSE CacheSize - 1
             kept == SubSeq(cache, 1, m)
  <2>1. [file |-> f, of |-> 0] \in Streams
    BY DevicesAssumption DEF Streams
  <2>2. /\ p \in Streams /\ p.file = f
        /\ p.of = device[f[1]]
    BY <2>1, PreparedType
  <2> HIDE DEF p
  <2>3. m \in 0 .. Len(cache) /\ m + 1 <= CacheSize
    BY DevicesAssumption DEF CacheSound
  <2> HIDE DEF m
  <2>4. kept \in Seq(Streams) /\ Len(kept) = m /\ \A k \in 1 .. m : kept[k] = cache[k]
    BY <2>3
  <2>5. next = <<p>> \o kept
    BY <1>2 DEF p, m
  <2> HIDE DEF kept
  <2>6. /\ next \in Seq(Streams)
        /\ Len(next) = m + 1
        /\ next[1] = p
        /\ \A k \in 2 .. m + 1 : next[k] = cache[k - 1]
    BY <2>2, <2>3, <2>4, <2>5
  <2>7. \A k \in 1 .. m : cache[k].file # f
    BY <1>2, <2>3 DEF Found
  <2>8. CacheSound(next)
    <3> SUFFICES ASSUME NEW j \in 1 .. m + 1, NEW k \in 1 .. m + 1,
                        next[j].file = next[k].file, j < k
                 PROVE  FALSE
      BY <2>3, <2>6 DEF CacheSound
    <3>1. k \in 2 .. m + 1 /\ k - 1 \in 1 .. m /\ next[k] = cache[k - 1]
      BY <2>3, <2>6
    <3>2. CASE j = 1
      BY <2>2, <2>6, <2>7, <3>1, <3>2
    <3>3. CASE j # 1
      <4>1. j - 1 \in 1 .. m /\ next[j] = cache[j - 1] /\ j - 1 # k - 1
        BY <2>3, <2>6, <3>1, <3>3
      <4> QED BY <2>3, <3>1, <4>1 DEF CacheSound
    <3> QED BY <3>2, <3>3
  <2>9. next # <<>> /\ Head(next) = p
    BY <2>3, <2>6
  <2> QED BY <2>2, <2>6, <2>8, <2>9
<1> QED BY <1>1, <1>2 DEF Opens

-----------------------------------------------------------------------------
\* A call in progress is about a file, and its stream is of a known device.
LEMMA CallFile ==
  ASSUME TypeOK, call.op \in {"get", "match", "set_int", "set_string"}
  PROVE  call.file \in Files
BY DEF TypeOK, Calls, Idle

LEMMA PathFile ==
  ASSUME TypeOK, NEW o \in Objects, path[o] # None, NEW attr \in Matched \cup Others
  PROVE  <<path[o], attr>> \in Files /\ path[o] \in Dirs
BY DEF TypeOK, Files

LEMMA InitIInv == Init => IInv
<1> SUFFICES ASSUME Init PROVE IInv
  OBVIOUS
<1>1. TypeOK
  BY DevicesAssumption DEF Init, TypeOK, Calls, Idle, Files
<1>2. CacheSound(reads) /\ CacheSound(writes)
  BY DevicesAssumption DEF Init, CacheSound
<1>3. InUse /\ JustOpened
  BY DEF Init, InUse, JustOpened, Idle
<1> QED BY <1>1, <1>2, <1>3 DEF IInv

\* A call to get: the stream is opened for reading.
LEMMA GetAttrIInv ==
  ASSUME IInv, NEW o \in Objects, NEW attr \in Matched \cup Others, GetAttr(o, attr)
  PROVE  IInv'
<1> DEFINE f == <<path[o], attr>>
<1>0. f \in Files
  BY PathFile DEF IInv, GetAttr
<1> HIDE DEF f
<1>1. /\ call' = [op |-> "get", file |-> f] /\ steady' = TRUE /\ result' = "none"
      /\ Opens(reads, f, reads')
      /\ UNCHANGED <<plugs, device, fits, stored, writes, path>>
  BY DEF GetAttr, Calling, OpenRead, kernel, f
<1>2. /\ reads' \in Seq(Streams) /\ reads' # <<>> /\ CacheSound(reads') /\ Head(reads').file = f
  BY <1>0, <1>1, OpensSound DEF IInv, TypeOK
<1>3. TypeOK'
  BY <1>0, <1>1, <1>2 DEF IInv, TypeOK, Calls
<1>4. CacheSound(reads)' /\ CacheSound(writes)'
  BY <1>1, <1>2 DEF IInv, CacheSound
<1>5. InUse' /\ JustOpened'
  BY <1>1, <1>2 DEF InUse, JustOpened
<1> QED BY <1>3, <1>4, <1>5 DEF IInv

\* set_attr_int and set_attr_string: the stream is opened for writing.
LEMMA SetAttrIInv ==
  ASSUME IInv, NEW o \in Objects, NEW attr \in Others,
         SetAttrInt(o, attr) \/ SetAttrString(o, attr)
  PROVE  IInv'
<1> DEFINE f == <<path[o], attr>>
<1>0. f \in Files
  BY PathFile DEF IInv, SetAttrInt, SetAttrString
<1> HIDE DEF f
<1>1. /\ \/ call' = [op |-> "set_int", file |-> f, attempt |-> 0]
         \/ call' = [op |-> "set_string", file |-> f]
      /\ steady' = TRUE /\ result' = "none"
      /\ Opens(writes, f, writes')
      /\ stored' = stored \ {f}
      /\ UNCHANGED <<plugs, device, fits, reads, path>>
  BY DEF SetAttrInt, SetAttrString, Calling, OpenWrite, kernel, f
<1>2. /\ writes' \in Seq(Streams) /\ writes' # <<>> /\ CacheSound(writes') /\ Head(writes').file = f
      /\ Head(writes').of = 0 => device[f[1]] = 0
  BY <1>0, <1>1, OpensSound DEF IInv, TypeOK
<1>3. TypeOK'
  <2>1. call' \in Calls
    BY <1>0, <1>1 DEF Calls
  <2> QED BY <1>1, <1>2, <2>1 DEF IInv, TypeOK
<1>4. CacheSound(reads)' /\ CacheSound(writes)'
  BY <1>1, <1>2 DEF IInv, CacheSound
<1>5. InUse'
  BY <1>1, <1>2 DEF InUse
<1>6. JustOpened'
  BY <1>1, <1>2 DEF JustOpened, IsOpen
<1> QED BY <1>3, <1>4, <1>5, <1>6 DEF IInv

\* set_attr_int's second attempt: the stream is opened anew.
LEMMA SetIntRetriesIInv ==
  ASSUME IInv, SetIntRetries
  PROVE  IInv'
<1> DEFINE f == call.file
           closed == [writes EXCEPT ![1] = [file |-> call.file, of |-> 0]]
<1>1. f \in Files /\ call.op = "set_int"
  BY CallFile DEF IInv, SetIntRetries
<1>2. /\ call' = [call EXCEPT !.attempt = 1]
      /\ Opens(closed, f, writes')
      /\ UNCHANGED <<plugs, device, fits, stored, reads, path, steady, result>>
  BY DEF SetIntRetries, kernel
<1>3. /\ writes \in Seq(Streams) /\ writes # <<>> /\ 1 \in DOMAIN writes /\ writes[1].file = f
      /\ CacheSound(writes)
  BY <1>1 DEF IInv, TypeOK, InUse
<1>4. [file |-> f, of |-> 0] \in Streams
  BY <1>1, DevicesAssumption DEF Streams
<1>5. /\ closed \in Seq(Streams) /\ Len(closed) = Len(writes)
      /\ closed[1] = [file |-> f, of |-> 0]
      /\ \A i \in 2 .. Len(writes) : closed[i] = writes[i]
  BY <1>3, <1>4
<1> HIDE DEF closed
<1>6. \A i \in 1 .. Len(writes) : closed[i].file = writes[i].file
  BY <1>3, <1>5
<1>7. CacheSound(closed)
  BY <1>3, <1>5, <1>6 DEF CacheSound
<1>8. \A i \in DOMAIN closed : closed[i].file = f => i = 1
  BY <1>3, <1>5, <1>6 DEF CacheSound
<1>9. /\ writes' \in Seq(Streams) /\ writes' # <<>> /\ CacheSound(writes') /\ Head(writes').file = f
      /\ Head(writes').of = device[f[1]]
  BY <1>1, <1>2, <1>5, <1>7, <1>8, OpensSound DEF IInv
<1>10. call' = [op |-> "set_int", file |-> f, attempt |-> 1]
  BY <1>1, <1>2 DEF IInv, TypeOK, Calls, Idle
<1> HIDE DEF f
<1>11. call' \in Calls
  BY <1>1, <1>10 DEF Calls
<1>12. TypeOK'
  BY <1>2, <1>9, <1>11 DEF IInv, TypeOK
<1>13. CacheSound(reads)' /\ CacheSound(writes)'
  BY <1>2, <1>9 DEF IInv, CacheSound
<1>14. InUse' /\ JustOpened'
  BY <1>2, <1>9, <1>10 DEF InUse, JustOpened
<1> QED BY <1>12, <1>13, <1>14 DEF IInv

\* connect opens an attribute to compare.
LEMMA ConnectOpensIInv ==
  ASSUME IInv, ConnectOpens
  PROVE  IInv'
<1>1. PICK a \in call.to_read :
        /\ call' = [op |-> "match", o |-> call.o, compared |-> call.compared,
                    left |-> call.left, to_read |-> call.to_read \ {a}, file |-> <<Candidate, a>>]
        /\ OpenRead(<<Candidate, a>>)
  BY DEF ConnectOpens
<1> DEFINE f == <<Candidate, a>>
<1>2. /\ call.o \in Objects /\ call.compared \in SUBSET Matched
      /\ call.left \in SUBSET Dirs /\ call.to_read \in SUBSET Matched
  BY DEF IInv, TypeOK, Calls, Idle, ConnectOpens
<1>3. f \in Files
  BY <1>1, <1>2 DEF IInv, TypeOK, Files, Candidate, ConnectOpens
<1> HIDE DEF f
<1>4. /\ call' = [op |-> "match", o |-> call.o, compared |-> call.compared,
                  left |-> call.left, to_read |-> call.to_read \ {a}, file |-> f]
      /\ Opens(reads, f, reads')
      /\ UNCHANGED <<plugs, device, fits, stored, writes, path, steady, result>>
  BY <1>1 DEF ConnectOpens, OpenRead, kernel, f
<1>5. /\ reads' \in Seq(Streams) /\ reads' # <<>> /\ CacheSound(reads') /\ Head(reads').file = f
  BY <1>3, <1>4, OpensSound DEF IInv, TypeOK
<1>6. call' \in Calls
  BY <1>2, <1>3, <1>4 DEF Calls
<1>7. TypeOK'
  BY <1>4, <1>5, <1>6 DEF IInv, TypeOK
<1>8. CacheSound(reads)' /\ CacheSound(writes)'
  BY <1>4, <1>5 DEF IInv, CacheSound
<1>9. InUse' /\ JustOpened'
  BY <1>4, <1>5 DEF InUse, JustOpened
<1> QED BY <1>7, <1>8, <1>9 DEF IInv

\* The steps that end a call, or go on with connect, leave the caches alone.
LEMMA QuietIInv ==
  ASSUME IInv, UNCHANGED <<plugs, device, fits, reads, writes, steady>>,
         stored' \subseteq Files, path' \in [Objects -> Dirs \cup {None}],
         result' \in {"none", "value", "nothing", "done", "refused", "error",
                     "connected", "not_connected"},
         call' \in Calls, call'.op \in {"idle", "connect"} \/ call' = call
  PROVE  IInv'
<1>1. TypeOK'
  BY DEF IInv, TypeOK
<1>2. CacheSound(reads)' /\ CacheSound(writes)'
  BY DEF IInv, CacheSound
<1>3. InUse' /\ JustOpened'
  BY DEF IInv, InUse, JustOpened, IsOpen
<1> QED BY <1>1, <1>2, <1>3 DEF IInv

LEMMA EndsIInv ==
  ASSUME IInv,
         \/ GetEnds \/ SetIntWrites \/ SetIntRefused \/ SetIntFails \/ SetStringEnds \/ ConnectEnds
  PROVE  IInv'
<1>1. /\ UNCHANGED <<plugs, device, fits, reads, writes, steady, path>>
      /\ call' = Idle
      /\ result' \in {"value", "nothing", "done", "refused", "error", "connected", "not_connected"}
  BY DEF GetEnds, SetIntWrites, SetIntRefused, SetIntFails, SetStringEnds, ConnectEnds,
         Write, Refuse, WriteFails, Returns, kernel
<1>2. stored' \subseteq Files
  BY CallFile DEF IInv, TypeOK, GetEnds, SetIntWrites, SetIntRefused, SetIntFails, SetStringEnds,
         ConnectEnds, Write, Refuse, WriteFails
<1>3. call' \in Calls /\ call'.op = "idle"
  BY <1>1 DEF Calls, Idle
<1>4. path' \in [Objects -> Dirs \cup {None}]
  BY <1>1 DEF IInv, TypeOK
<1> QED BY <1>1, <1>2, <1>3, <1>4, QuietIInv

\* What the fields of a call of connect are.
LEMMA ConnectCall ==
  ASSUME TypeOK, call.op \in {"connect", "match"}
  PROVE  /\ call.o \in Objects /\ call.compared \in SUBSET Matched
         /\ call.left \in SUBSET Dirs /\ call.to_read \in SUBSET Matched
BY DEF TypeOK, Calls, Idle

LEMMA ConnectIInv ==
  ASSUME IInv,
         ConnectTries \/ ConnectMatches
  PROVE  IInv'
<1>1. /\ call.o \in Objects /\ call.compared \in SUBSET Matched
      /\ call.left \in SUBSET Dirs /\ call.to_read \in SUBSET Matched
  BY ConnectCall DEF IInv, ConnectTries, ConnectMatches
<1>2. CASE ConnectTries
  <2>1. PICK d \in call.left :
          /\ path' = [path EXCEPT ![call.o] = d]
          /\ call' = [call EXCEPT !.left = @ \ {d}, !.to_read = Matched]
    BY <1>2 DEF ConnectTries
  <2>2. call \in [op : {"connect"}, o : Objects, compared : SUBSET Matched,
                 left : SUBSET Dirs, to_read : SUBSET Matched]
    <3>1. call \in Calls /\ call.op = "connect"
      BY <1>2 DEF IInv, TypeOK, ConnectTries
    <3>2. \A c \in [op : {"get", "set_string"}, file : Files] : c.op # "connect"
      OBVIOUS
    <3>3. \A c \in [op : {"set_int"}, file : Files, attempt : {0, 1}] : c.op # "connect"
      OBVIOUS
    <3>4. \A c \in [op : {"match"}, o : Objects, compared : SUBSET Matched,
                    left : SUBSET Dirs, to_read : SUBSET Matched, file : Files] : c.op # "connect"
      OBVIOUS
    <3>5. Idle.op # "connect"
      BY DEF Idle
    <3> QED BY <3>1, <3>2, <3>3, <3>4, <3>5, Zenon DEF Calls
  <2>3. call' \in [op : {"connect"}, o : Objects, compared : SUBSET Matched,
                  left : SUBSET Dirs, to_read : SUBSET Matched]
    BY <2>1, <2>2
  <2>4. call' \in Calls /\ call'.op = "connect"
    BY <2>3 DEF Calls
  <2>5. path' \in [Objects -> Dirs \cup {None}]
    BY <1>1, <2>1 DEF IInv, TypeOK
  <2>6. UNCHANGED <<plugs, device, fits, stored, reads, writes, steady, result>>
    BY <1>2 DEF ConnectTries, kernel
  <2> QED BY <2>4, <2>5, <2>6, QuietIInv DEF IInv, TypeOK
<1>3. CASE ConnectMatches
  <2>1. call' \in Calls /\ call'.op = "connect"
    BY <1>1, <1>3 DEF ConnectMatches, BackToConnect, Calls
  <2>2. path' \in [Objects -> Dirs \cup {None}]
    BY <1>3 DEF IInv, TypeOK, ConnectMatches
  <2>3. UNCHANGED <<plugs, device, fits, stored, reads, writes, steady, result>>
    BY <1>3 DEF ConnectMatches, kernel
  <2> QED BY <2>1, <2>2, <2>3, QuietIInv DEF IInv, TypeOK
<1> QED BY <1>2, <1>3

LEMMA StartIInv ==
  ASSUME IInv, NEW o \in Objects,
         (\E compared \in SUBSET Matched : Connect(o, compared)) \/ Destroy(o)
  PROVE  IInv'
<1>1. CASE \E compared \in SUBSET Matched : Connect(o, compared)
  <2>1. PICK compared \in SUBSET Matched : Connect(o, compared)
    BY <1>1
  <2>2. /\ call' = [op |-> "connect", o |-> o, compared |-> compared,
                    left |-> {d \in Dirs : device[d] # 0}, to_read |-> {}]
        /\ steady' = TRUE /\ result' = "none"
        /\ UNCHANGED <<plugs, device, fits, stored, reads, writes, path>>
    BY <2>1 DEF Connect, Calling, kernel
  <2>3. call' \in Calls /\ call'.op = "connect"
    BY <2>2 DEF Calls
  <2>4. TypeOK'
    BY <2>2, <2>3 DEF IInv, TypeOK
  <2>5. CacheSound(reads)' /\ CacheSound(writes)'
    BY <2>2 DEF IInv, CacheSound
  <2>6. InUse' /\ JustOpened'
    BY <2>3 DEF InUse, JustOpened
  <2> QED BY <2>4, <2>5, <2>6 DEF IInv
<1>2. CASE Destroy(o)
  <2>1. path' \in [Objects -> Dirs \cup {None}]
    BY <1>2 DEF IInv, TypeOK, Destroy
  <2>2. UNCHANGED <<plugs, device, fits, stored, reads, writes, call, steady, result>>
    BY <1>2 DEF Destroy, kernel
  <2> QED BY <2>1, <2>2, QuietIInv DEF IInv, TypeOK
<1> QED BY <1>1, <1>2

\* The kernel leaves the caches alone, and no call in progress is steady then.
LEMMA KernelIInv ==
  ASSUME IInv, NEW d \in Dirs, Plug(d) \/ Unplug(d)
  PROVE  IInv'
<1>1. /\ steady' = FALSE
      /\ UNCHANGED <<reads, writes, path, call, result>>
  BY DEF Plug, Unplug
<1>2. TypeOK'
  <2>1. CASE Plug(d)
    <3>1. plugs' \in 0 .. MaxPlugs /\ plugs + 1 \in 0 .. MaxPlugs
      BY <2>1, DevicesAssumption DEF IInv, TypeOK, Plug
    <3>2. device' \in [Dirs -> 0 .. MaxPlugs]
      BY <2>1, <3>1 DEF IInv, TypeOK, Plug
    <3>3. fits' \in [Dirs -> SUBSET Matched] /\ stored' \subseteq Files
      BY <2>1 DEF IInv, TypeOK, Plug
    <3> QED BY <1>1, <3>1, <3>2, <3>3 DEF IInv, TypeOK
  <2>2. CASE Unplug(d)
    <3>1. plugs' \in 0 .. MaxPlugs /\ device' \in [Dirs -> 0 .. MaxPlugs]
      BY <2>2, DevicesAssumption DEF IInv, TypeOK, Unplug
    <3>2. fits' \in [Dirs -> SUBSET Matched] /\ stored' \subseteq Files
      BY <2>2 DEF IInv, TypeOK, Unplug
    <3> QED BY <1>1, <3>1, <3>2 DEF IInv, TypeOK
  <2> QED BY <2>1, <2>2
<1>3. CacheSound(reads)' /\ CacheSound(writes)'
  BY <1>1 DEF IInv, CacheSound
<1>4. InUse' /\ JustOpened'
  BY <1>1 DEF IInv, InUse, JustOpened
<1> QED BY <1>2, <1>3, <1>4 DEF IInv

LEMMA NextIInv == IInv /\ [Next]_vars => IInv'
<1> SUFFICES ASSUME IInv, [Next]_vars PROVE IInv'
  OBVIOUS
<1>1. CASE \E o \in Objects, attr \in Matched \cup Others : GetAttr(o, attr)
  BY <1>1, GetAttrIInv
<1>2. CASE \E o \in Objects, attr \in Others : SetAttrInt(o, attr) \/ SetAttrString(o, attr)
  BY <1>2, SetAttrIInv
<1>3. CASE GetEnds \/ SetIntWrites \/ SetIntRefused \/ SetIntFails \/ SetStringEnds \/ ConnectEnds
  BY <1>3, EndsIInv
<1>4. CASE SetIntRetries
  BY <1>4, SetIntRetriesIInv
<1>5. CASE \E o \in Objects : (\E compared \in SUBSET Matched : Connect(o, compared)) \/ Destroy(o)
  BY <1>5, StartIInv
<1>6. CASE ConnectTries \/ ConnectMatches
  BY <1>6, ConnectIInv
<1>7. CASE ConnectOpens
  BY <1>7, ConnectOpensIInv
<1>8. CASE \E d \in Dirs : Plug(d) \/ Unplug(d)
  BY <1>8, KernelIInv
<1>9. CASE UNCHANGED vars
  <2>1. TypeOK'
    BY <1>9 DEF IInv, TypeOK, vars, kernel
  <2>2. CacheSound(reads)' /\ CacheSound(writes)'
    BY <1>9 DEF IInv, CacheSound, vars
  <2>3. InUse' /\ JustOpened'
    BY <1>9 DEF IInv, InUse, JustOpened, IsOpen, vars, kernel
  <2> QED BY <2>1, <2>2, <2>3 DEF IInv
<1> QED BY <1>1, <1>2, <1>3, <1>4, <1>5, <1>6, <1>7, <1>8, <1>9 DEF Next

(***************************************************************************)
(* The caches of ev3dev.cpp stay within their size, never hold two streams *)
(* for one file, and the stream a call opened is in front until it is      *)
(* used, for any number of directories, attributes, objects and devices.   *)
(***************************************************************************)
THEOREM DevicesInvariant == Spec => []IInv
<1>1. Init => IInv
  BY InitIInv
<1>2. IInv /\ [Next]_vars => IInv'
  BY NextIInv
<1> QED BY <1>1, <1>2, PTL DEF Spec

-----------------------------------------------------------------------------
\* No result of an earlier call is left while a call is in progress.
Pending == call # Idle => result = "none"

LEMMA PendingInvariant == Spec => []Pending
<1>1. Init => Pending
  BY DEF Init, Pending
<1>2. Pending /\ [Next]_vars => Pending'
  <2> SUFFICES ASSUME Pending, [Next]_vars PROVE Pending'
    OBVIOUS
  <2>1. CASE UNCHANGED <<call, result>>
    BY <2>1 DEF Pending
  <2>2. CASE result' = "none" \/ call' = Idle
    BY <2>2 DEF Pending
  <2>3. CASE call.op # "idle" /\ UNCHANGED result
    BY <2>3 DEF Pending, Idle
  <2>4. ASSUME Next
        PROVE  \/ UNCHANGED <<call, result>>
               \/ result' = "none" \/ call' = Idle
               \/ call.op # "idle" /\ UNCHANGED result
    <3>1. CASE \E o \in Objects, attr \in Matched \cup Others : GetAttr(o, attr)
      BY <3>1 DEF GetAttr, Calling
    <3>2. CASE \E o \in Objects, attr \in Others : SetAttrInt(o, attr) \/ SetAttrString(o, attr)
      BY <3>2 DEF SetAttrInt, SetAttrString, Calling
    <3>3. CASE GetEnds \/ SetIntWrites \/ SetIntRefused \/ SetIntFails \/ SetStringEnds \/ ConnectEnds
      BY <3>3 DEF GetEnds, SetIntWrites, SetIntRefused, SetIntFails, SetStringEnds, ConnectEnds,
                  Write, Refuse, WriteFails, Returns
    <3>4. CASE SetIntRetries \/ ConnectTries \/ ConnectOpens \/ ConnectMatches
      BY <3>4 DEF SetIntRetries, ConnectTries, ConnectOpens, ConnectMatches
    <3>5. CASE \E o \in Objects, compared \in SUBSET Matched : Connect(o, compared)
      BY <3>5 DEF Connect, Calling
    <3>6. CASE (\E o \in Objects : Destroy(o)) \/ (\E d \in Dirs : Plug(d) \/ Unplug(d))
      BY <3>6 DEF Destroy, Plug, Unplug
    <3> QED BY <2>4, <3>1, <3>2, <3>3, <3>4, <3>5, <3>6 DEF Next
  <2>5. CASE UNCHANGED vars
    BY <2>1, <2>5 DEF vars
  <2> QED BY <2>1, <2>2, <2>3, <2>4, <2>5
<1> QED BY <1>1, <1>2, PTL DEF Spec

\* A call that ends in this step was not ended before it, and which step it is.
LEMMA EndOfCall ==
  ASSUME Pending, [Next]_vars, call # Idle, result' \in {"done", "error"}
  PROVE  \/ GetEnds \/ SetIntWrites \/ SetIntRefused \/ SetIntFails \/ SetStringEnds \/ ConnectEnds
<1>1. result = "none"
  BY DEF Pending
<1>2. CASE \E o \in Objects, attr \in Matched \cup Others : GetAttr(o, attr)
  BY <1>2 DEF GetAttr, Calling
<1>3. CASE \E o \in Objects, attr \in Others : SetAttrInt(o, attr) \/ SetAttrString(o, attr)
  BY <1>3 DEF SetAttrInt, SetAttrString, Calling
<1>4. CASE SetIntRetries \/ ConnectTries \/ ConnectOpens \/ ConnectMatches
  BY <1>1, <1>4 DEF SetIntRetries, ConnectTries, ConnectOpens, ConnectMatches
<1>5. CASE \E o \in Objects, compared \in SUBSET Matched : Connect(o, compared)
  BY <1>5 DEF Connect, Calling
<1>6. CASE (\E o \in Objects : Destroy(o)) \/ (\E d \in Dirs : Plug(d) \/ Unplug(d))
  BY <1>1, <1>6 DEF Destroy, Plug, Unplug
<1>7. CASE UNCHANGED vars
  BY <1>1, <1>7 DEF vars
<1> QED BY <1>2, <1>3, <1>4, <1>5, <1>6, <1>7 DEF Next

(***************************************************************************)
(* set_attr_int and set_attr_string lose no write in a stale stream, with  *)
(* any number of directories, attributes, objects and plugged devices.     *)
(***************************************************************************)
THEOREM WritesLand == Spec => WritesTakeEffect
<1>1. ASSUME IInv, Pending, [Next]_vars, call # Idle, result' = "done"
      PROVE  device[call.file[1]] # 0 /\ call.file \in stored'
  <2>1. GetEnds \/ SetIntWrites \/ SetIntRefused \/ SetIntFails \/ SetStringEnds \/ ConnectEnds
    BY <1>1, EndOfCall
  <2>2. /\ call.op \in {"set_int", "set_string"}
        /\ Write(call.file)
    BY <1>1, <2>1 DEF GetEnds, SetIntWrites, SetIntRefused, SetIntFails, SetStringEnds, ConnectEnds,
                      Refuse, WriteFails, Returns
  <2>3. Head(writes).file = call.file
    BY <1>1, <2>2 DEF IInv, InUse
  <2> QED BY <2>2, <2>3 DEF Write, Works, IsOpen
<1>2. IInv /\ Pending /\ [Next]_vars =>
        [call # Idle /\ result' = "done" =>
           device[call.file[1]] # 0 /\ call.file \in stored']_vars
  BY <1>1
<1> QED BY <1>2, DevicesInvariant, PendingInvariant, PTL DEF Spec, WritesTakeEffect

(***************************************************************************)
(* set_attr_int fails only if the device is not there, or something was    *)
(* plugged in or out while it ran: one retry makes up for a stale stream.  *)
(***************************************************************************)
THEOREM RetryOnce == Spec => OneRetryIsEnough
<1>1. ASSUME IInv, Pending, [Next]_vars, call.op = "set_int", result' = "error"
      PROVE  ~ steady \/ device[call.file[1]] = 0
  <2>1. call # Idle
    BY <1>1 DEF Idle
  <2>2. GetEnds \/ SetIntWrites \/ SetIntRefused \/ SetIntFails \/ SetStringEnds \/ ConnectEnds
    BY <1>1, <2>1, EndOfCall
  <2>3. SetIntFails
    BY <1>1, <2>2 DEF GetEnds, SetIntWrites, SetIntRefused, SetStringEnds, ConnectEnds,
                      Write, Refuse, Returns
  <2>4. Head(writes).file = call.file
    BY <1>1 DEF IInv, InUse
  <2>5. steady => Head(writes).of = device[call.file[1]]
    BY <1>1, <2>3 DEF IInv, JustOpened, SetIntFails
  <2> QED BY <1>1, <2>3, <2>4, <2>5 DEF SetIntFails, WriteFails, Works, IsOpen, IInv, TypeOK
<1>2. IInv /\ Pending /\ [Next]_vars =>
        [call.op = "set_int" /\ result' = "error" =>
           ~ steady \/ device[call.file[1]] = 0]_vars
  BY <1>1
<1> QED BY <1>2, DevicesInvariant, PendingInvariant, PTL DEF Spec, OneRetryIsEnough

-----------------------------------------------------------------------------
(***************************************************************************)
(* What connect() knows as long as nothing is plugged in or out: the       *)
(* directories it has left have a device, and the attributes it has read   *)
(* of the candidate are what was asked for; the one it has opened next is  *)
(* the candidate's, whatever happens.                                      *)
(***************************************************************************)
Read(a) == a \notin call.to_read /\ (call.op = "match" => a # call.file[2])

Matching ==
  call.op \in {"connect", "match"} =>
    /\ call.op = "match" => Candidate # None /\ call.file[1] = Candidate
    /\ steady =>
         /\ \A d \in call.left : device[d] # 0
         /\ Candidate # None =>
              /\ device[Candidate] # 0
              /\ \A a \in call.compared : Read(a) => a \in fits[Candidate]

LEMMA ConnectTypes ==
  ASSUME TypeOK, call.op \in {"connect", "match"}
  PROVE  /\ call.o \in Objects /\ call.compared \in SUBSET Matched
         /\ call.left \in SUBSET Dirs /\ call.to_read \in SUBSET Matched
         /\ Candidate \in Dirs \cup {None}
         /\ call.op = "connect" =>
              call \in [op : {"connect"}, o : Objects, compared : SUBSET Matched,
                        left : SUBSET Dirs, to_read : SUBSET Matched]
BY DEF TypeOK, Calls, Idle, Candidate

\* A call is connect()'s only by a step of connect(), or because it was.
LEMMA MatchingStep ==
  ASSUME TypeOK, Matching, [Next]_vars
  PROVE  Matching'
<1>1. CASE call'.op \notin {"connect", "match"}
  BY <1>1 DEF Matching
<1>2. CASE UNCHANGED <<call, path, device, fits>> /\ (steady' => steady)
  BY <1>2 DEF Matching, Read, Candidate
<1>3. ASSUME NEW o \in Objects, NEW compared \in SUBSET Matched, Connect(o, compared)
      PROVE  Matching'
  <2>1. /\ call' = [op |-> "connect", o |-> o, compared |-> compared,
                    left |-> {d \in Dirs : device[d] # 0}, to_read |-> {}]
        /\ path'[o] = None /\ UNCHANGED device
    BY <1>3 DEF Connect, Calling, kernel
  <2>2. Candidate' = None
    BY <2>1 DEF Candidate
  <2>3. QED
    BY <2>1, <2>2 DEF Matching
<1>4. CASE ConnectTries
  <2>1. PICK d \in call.left :
          /\ path' = [path EXCEPT ![call.o] = d]
          /\ call' = [call EXCEPT !.left = @ \ {d}, !.to_read = Matched]
    BY <1>4 DEF ConnectTries
  <2>2. /\ call.op = "connect" /\ UNCHANGED <<device, fits, steady>>
    BY <1>4 DEF ConnectTries, kernel
  <2>3. /\ call'.op = "connect" /\ call'.o = call.o /\ call'.compared = call.compared
        /\ call'.left = call.left \ {d} /\ call'.to_read = Matched
    BY <2>1, <2>2, ConnectTypes
  <2>4. Candidate' = d
    BY <2>1, <2>2, <2>3, ConnectTypes DEF Candidate, TypeOK
  <2>5. QED
    BY <2>2, <2>3, <2>4, ConnectTypes DEF Matching, Read
<1>5. CASE ConnectOpens
  <2>1. PICK a \in call.to_read :
          call' = [op |-> "match", o |-> call.o, compared |-> call.compared,
                   left |-> call.left, to_read |-> call.to_read \ {a}, file |-> <<Candidate, a>>]
    BY <1>5 DEF ConnectOpens
  <2>2. call.op = "connect" /\ Candidate # None /\ UNCHANGED <<device, fits, steady, path>>
    BY <1>5 DEF ConnectOpens, kernel
  <2>3. Candidate' = Candidate
    BY <2>1, <2>2 DEF Candidate
  <2>4. QED
    BY <2>1, <2>2, <2>3 DEF Matching, Read
<1>6. CASE ConnectMatches
  <2>1. /\ call.op = "match" /\ call' = BackToConnect
        /\ path' = IF Matches(call.file) THEN path ELSE [path EXCEPT ![call.o] = None]
        /\ UNCHANGED <<device, fits, steady>>
    BY <1>6 DEF ConnectMatches, kernel
  <2>2. CASE Matches(call.file)
    <3>1. Candidate' = Candidate
      BY <2>1, <2>2 DEF Candidate, BackToConnect
    <3>2. call.file[1] = Candidate /\ (call.file[2] \in call.compared => call.file[2] \in fits[Candidate])
      BY <2>1, <2>2 DEF Matching, Matches
    <3>3. QED
      BY <2>1, <3>1, <3>2 DEF Matching, Read, BackToConnect
  <2>3. CASE ~ Matches(call.file)
    <3>1. Candidate' = None
      BY <2>1, <2>3, ConnectTypes DEF Candidate, BackToConnect, TypeOK
    <3>2. QED
      BY <2>1, <3>1 DEF Matching, BackToConnect
  <2>4. QED
    BY <2>2, <2>3
<1>7. CASE \E o \in Objects, attr \in Matched \cup Others : GetAttr(o, attr)
  BY <1>1, <1>7 DEF GetAttr, Calling
<1>8. CASE \E o \in Objects, attr \in Others : SetAttrInt(o, attr) \/ SetAttrString(o, attr)
  BY <1>1, <1>8 DEF SetAttrInt, SetAttrString, Calling
<1>9. CASE GetEnds \/ SetIntWrites \/ SetIntRefused \/ SetIntFails \/ SetStringEnds \/ ConnectEnds
  BY <1>1, <1>9 DEF GetEnds, SetIntWrites, SetIntRefused, SetIntFails, SetStringEnds, ConnectEnds,
                    Write, Refuse, WriteFails, Returns, Idle
<1>10. CASE SetIntRetries
  <2>1. call.op = "set_int" /\ call'.op = "set_int"
    BY <1>10 DEF SetIntRetries, TypeOK, Calls, Idle
  <2>2. QED
    BY <1>1, <2>1
<1>11. CASE \E o \in Objects : Destroy(o)
  BY <1>1, <1>11 DEF Destroy, Idle
<1>12. CASE \E d \in Dirs : Plug(d) \/ Unplug(d)
  BY <1>12 DEF Plug, Unplug, Matching, Candidate
<1>13. CASE UNCHANGED vars
  BY <1>2, <1>13 DEF vars, kernel
<1>14. QED
  BY <1>3, <1>4, <1>5, <1>6, <1>7, <1>8, <1>9, <1>10, <1>11, <1>12, <1>13 DEF Next

(***************************************************************************)
(* connect() returns true exactly when the object has a directory, which   *)
(* is then one of a device with the values that were asked for, unless     *)
(* something was plugged in or out while it looked: no directory a         *)
(* mismatch was found in, and no stale value, is ever taken.               *)
(***************************************************************************)
THEOREM ConnectsToMatch == Spec => ConnectedToMatch
<1>1. Init => Matching
  BY DEF Init, Matching, Idle
<1>2. Spec => []Matching
  <2>1. IInv /\ Matching /\ [Next]_vars => Matching'
    BY MatchingStep DEF IInv
  <2>2. QED
    BY <1>1, <2>1, DevicesInvariant, PTL DEF Spec
<1>3. ASSUME IInv, Matching, [Next]_vars, call.op = "connect", call' = Idle
      PROVE  /\ result' = "connected" <=> Candidate # None
             /\ steady /\ Candidate # None =>
                  device[Candidate] # 0 /\ call.compared \subseteq fits[Candidate]
  <2>1. call # Idle /\ call' # call
    BY <1>3 DEF Idle
  <2>2. ConnectEnds
    <3>1. CASE \E o \in Objects, attr \in Matched \cup Others : GetAttr(o, attr)
      BY <2>1, <3>1 DEF GetAttr, Calling
    <3>2. CASE \E o \in Objects, attr \in Others : SetAttrInt(o, attr) \/ SetAttrString(o, attr)
      BY <2>1, <3>2 DEF SetAttrInt, SetAttrString, Calling
    <3>3. CASE GetEnds \/ SetIntWrites \/ SetIntRefused \/ SetIntFails \/ SetStringEnds \/ SetIntRetries
      BY <1>3, <3>3 DEF GetEnds, SetIntWrites, SetIntRefused, SetIntFails, SetStringEnds, SetIntRetries
    <3>4. CASE ConnectTries \/ ConnectOpens \/ ConnectMatches
      <4>1. call.op = "connect" /\ call' = Idle => ~ ConnectTries
        BY ConnectTypes, <1>3 DEF ConnectTries, IInv, Idle
      <4>2. QED
        BY <1>3, <3>4, <4>1 DEF ConnectOpens, ConnectMatches, Idle
    <3>5. CASE \E o \in Objects : (\E compared \in SUBSET Matched : Connect(o, compared)) \/ Destroy(o)
      BY <2>1, <3>5 DEF Connect, Calling, Destroy
    <3>6. CASE (\E d \in Dirs : Plug(d) \/ Unplug(d)) \/ UNCHANGED vars
      BY <2>1, <3>6 DEF Plug, Unplug, vars
    <3>7. QED
      BY <1>3, <3>1, <3>2, <3>3, <3>4, <3>5, <3>6 DEF Next
  <2>3. result' = "connected" <=> Candidate # None
    BY <2>2 DEF ConnectEnds, Returns
  <2>4. Candidate # None => call.to_read = {}
    BY <2>2 DEF ConnectEnds
  <2>5. QED
    BY <1>3, <2>3, <2>4 DEF Matching, Read
<1>4. IInv /\ Matching /\ [Next]_vars =>
        [call.op = "connect" /\ call' = Idle =>
           /\ result' = "connected" <=> Candidate # None
           /\ steady /\ Candidate # None =>
                device[Candidate] # 0 /\ call.compared \subseteq fits[Candidate]]_vars
  BY <1>3
<1>5. QED
  BY <1>2, <1>4, DevicesInvariant, PTL DEF Spec, ConnectedToMatch
=============================================================================
