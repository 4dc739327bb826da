------------------------------- MODULE Devices ------------------------------
(***************************************************************************)
(* class device of ev3dev.cpp: attributes of ev3dev devices, which are     *)
(* files below the directory of the device.  Open files are kept in two    *)
(* least-recently-used caches, one of streams to read from and one of      *)
(* streams to write to, and found there by their path.  The kernel takes   *)
(* a directory away when the device is unplugged and may create it again:  *)
(* a stream that was opened before is then stale, and fails.               *)
(*                                                                         *)
(* One thread uses the library.  What the kernel does may fall between the *)
(* opening of a stream and its use.                                        *)
(***************************************************************************)
EXTENDS Naturals, Sequences

CONSTANTS
  Dirs,        \* directories devices appear at
  Matched,     \* the attributes connect() reads: address, driver_name
  Others,      \* other attributes
  Objects,     \* bound: objects of class device, or derived from it
  CacheSize,   \* FSTREAM_CACHE_SIZE, scaled down
  MaxPlugs,    \* bound: devices plugged in
  None

Files == Dirs \X (Matched \cup Others)

ASSUME DevicesAssumption ==
  /\ CacheSize \in Nat \ {0}
  /\ MaxPlugs \in Nat
  /\ Matched \cap Others = {}
  /\ None \notin Dirs

VARIABLES
  plugs,   \* devices plugged in so far, which numbers them
  device,  \* the device at every directory; 0: none
  fits,    \* the attributes of it with the values connect() looks for
  stored,  \* ghost: files that hold what was written to them last
  reads,   \* ifstream_cache, the stream used last first
  writes,  \* ofstream_cache
  path,    \* device::_path of every object
  call,    \* the member function being executed
  steady,  \* ghost: nothing was plugged or unplugged since it was called
  result   \* how the last one ended

kernel == <<plugs, device, fits>>
vars == <<kernel, stored, reads, writes, path, call, steady, result>>

Idle == [op |-> "idle"]

Init ==
  /\ plugs = 0
  /\ device = [d \in Dirs |-> 0]
  /\ fits = [d \in Dirs |-> {}]
  /\ stored = {}
  /\ reads = <<>>
  /\ writes = <<>>
  /\ path = [o \in Objects |-> None]
  /\ call = Idle
  /\ steady = TRUE
  /\ result = "none"

-----------------------------------------------------------------------------
(***************************************************************************)
(* lru_cache::get, followed by prepare: the stream for file f comes to the *)
(* front; if there is none, a closed one is put there, and when there is   *)
(* no room the last ones are dropped.  "of" is the device a stream was     *)
(* opened for, 0 if it is closed; prepare opens it if there is a file.     *)
(***************************************************************************)
Streams == [file : Files, of : 0 .. MaxPlugs]

Prepared(stream) == IF stream.of # 0 THEN stream ELSE [file |-> stream.file, of |-> device[stream.file[1]]]

Found(cache, f) == {i \in DOMAIN cache : cache[i].file = f}

\* Mutant of Opens: no room is made for a stream that is not found.
OpensUnbounded(cache, f, next) ==
  \/ \E i \in Found(cache, f) :
       next = <<Prepared(cache[i])>> \o SubSeq(cache, 1, i - 1) \o SubSeq(cache, i + 1, Len(cache))
  \/ /\ Found(cache, f) = {}
     /\ next = <<Prepared([file |-> f, of |-> 0])>> \o cache

Opens(cache, f, next) ==
  \/ \E i \in Found(cache, f) :
       next = <<Prepared(cache[i])>> \o SubSeq(cache, 1, i - 1) \o SubSeq(cache, i + 1, Len(cache))
  \/ /\ Found(cache, f) = {}
     /\ next = <<Prepared([file |-> f, of |-> 0])>>
                 \o SubSeq(cache, 1, IF Len(cache) < CacheSize THEN Len(cache) ELSE CacheSize - 1)

IsOpen(cache) == Head(cache).of # 0
Works(cache) == IsOpen(cache) /\ Head(cache).of = device[Head(cache).file[1]]

OpenRead(f) == Opens(reads, f, reads') /\ UNCHANGED writes
OpenWrite(f) == Opens(writes, f, writes') /\ UNCHANGED reads

\* The function returns, or throws.
Returns(how) == call' = Idle /\ result' = how

Calling(c) ==
  /\ call = Idle
  /\ call' = c
  /\ result' = "none"
  /\ steady' = TRUE

-----------------------------------------------------------------------------
(***************************************************************************)
(* get_attr_int, get_attr_string, get_attr_line.  With no device the       *)
(* object throws at once.  A stream throws no exceptions of its own: what  *)
(* is read from a stale one is zero or empty, and it stays open.           *)
(***************************************************************************)
GetAttr(o, attr) ==
  /\ path[o] # None
  /\ Calling([op |-> "get", file |-> <<path[o], attr>>])
  /\ OpenRead(<<path[o], attr>>)
  /\ UNCHANGED <<kernel, stored, path>>

GetEnds ==
  /\ call.op = "get"
  /\ Returns(IF Works(reads) THEN "value" ELSE IF IsOpen(reads) THEN "nothing" ELSE "error")
  /\ UNCHANGED <<kernel, stored, reads, writes, path, steady>>

(***************************************************************************)
(* set_attr_int: a first failure that says the device is gone closes the   *)
(* stream, so that the second attempt opens it anew.                       *)
(***************************************************************************)
SetAttrInt(o, attr) ==
  /\ path[o] # None
  /\ Calling([op |-> "set_int", file |-> <<path[o], attr>>, attempt |-> 0])
  /\ OpenWrite(<<path[o], attr>>)
  /\ stored' = stored \ {<<path[o], attr>>}
  /\ UNCHANGED <<kernel, path>>

Write(f) ==
  /\ Works(writes)
  /\ stored' = stored \cup {f}
  /\ Returns("done")
  /\ UNCHANGED <<kernel, reads, writes, path, steady>>

\* The device refuses the value.
Refuse ==
  /\ Works(writes)
  /\ Returns("refused")
  /\ UNCHANGED <<kernel, stored, reads, writes, path, steady>>

WriteFails ==
  /\ ~ Works(writes)
  /\ Returns("error")
  /\ UNCHANGED <<kernel, stored, reads, writes, path, steady>>

SetIntWrites == call.op = "set_int" /\ Write(call.file)

SetIntRefused == call.op = "set_int" /\ Refuse

\* Mutants of SetIntRetries: the stream is not closed; the loop ends after
\* the first failure, and so does the function, without a word.
SetIntRetriesOpen ==
  /\ call.op = "set_int"
  /\ IsOpen(writes) /\ ~ Works(writes)
  /\ call.attempt = 0
  /\ OpenWrite(call.file)
  /\ call' = [call EXCEPT !.attempt = 1]
  /\ UNCHANGED <<kernel, stored, path, steady, result>>

SetIntRetriesNever ==
  /\ call.op = "set_int"
  /\ IsOpen(writes) /\ ~ Works(writes)
  /\ call.attempt = 0
  /\ Returns("done")
  /\ UNCHANGED <<kernel, stored, reads, writes, path, steady>>

SetIntRetries ==
  /\ call.op = "set_int"
  /\ IsOpen(writes) /\ ~ Works(writes)
  /\ call.attempt = 0
  /\ Opens([writes EXCEPT ![1] = [file |-> call.file, of |-> 0]], call.file, writes')
  /\ call' = [call EXCEPT !.attempt = 1]
  /\ UNCHANGED <<kernel, stored, reads, path, steady, result>>

SetIntFails ==
  /\ call.op = "set_int"
  /\ ~ IsOpen(writes) \/ call.attempt = 1
  /\ WriteFails

(***************************************************************************)
(* set_attr_string has one attempt, and leaves the stream open.            *)
(***************************************************************************)
SetAttrString(o, attr) ==
  /\ path[o] # None
  /\ Calling([op |-> "set_string", file |-> <<path[o], attr>>])
  /\ OpenWrite(<<path[o], attr>>)
  /\ stored' = stored \ {<<path[o], attr>>}
  /\ UNCHANGED <<kernel, path>>

SetStringEnds ==
  /\ call.op = "set_string"
  /\ Write(call.file) \/ Refuse \/ WriteFails

-----------------------------------------------------------------------------
(***************************************************************************)
(* connect goes through the directories in any order; "left" are those to  *)
(* come.  For each it sets _path and reads the attributes to match, of     *)
(* which "to_read" are left, and compares some of them: an empty address   *)
(* matches everything.  The first that matches is kept.  A failure to open *)
(* an attribute throws, is caught, and means no match.                     *)
(***************************************************************************)
Connect(o, compared) ==
  /\ path[o] = None
  /\ Calling([op |-> "connect", o |-> o, compared |-> compared,
              left |-> {d \in Dirs : device[d] # 0}, to_read |-> {}])
  /\ UNCHANGED <<kernel, stored, reads, writes, path>>

Candidate == path[call.o]

ConnectTries ==
  /\ call.op = "connect"
  /\ Candidate = None
  /\ \E d \in call.left :
       /\ path' = [path EXCEPT ![call.o] = d]
       /\ call' = [call EXCEPT !.left = @ \ {d}, !.to_read = Matched]
  /\ UNCHANGED <<kernel, stored, reads, writes, steady, result>>

\* The attribute has been opened and is read in a step of its own.
ConnectOpens ==
  /\ call.op = "connect"
  /\ Candidate # None
  /\ \E a \in call.to_read :
       /\ call' = [op |-> "match", o |-> call.o, compared |-> call.compared,
                   left |-> call.left, to_read |-> call.to_read \ {a}, file |-> <<Candidate, a>>]
       /\ OpenRead(<<Candidate, a>>)
  /\ UNCHANGED <<kernel, stored, path, steady, result>>

Matches(f) ==
  /\ IsOpen(reads)
  /\ f[2] \in call.compared => Works(reads) /\ f[2] \in fits[f[1]]

BackToConnect ==
  [op |-> "connect", o |-> call.o, compared |-> call.compared,
   left |-> call.left, to_read |-> call.to_read]

\* Mutant of ConnectMatches: a mismatch ends the comparison as a match does.
ConnectMatchesKeeps ==
  /\ call.op = "match"
  /\ IF Matches(call.file)
     THEN call' = BackToConnect
     ELSE call' = [BackToConnect EXCEPT !.to_read = {}]
  /\ UNCHANGED <<kernel, stored, reads, writes, path, steady, result>>

ConnectMatches ==
  /\ call.op = "match"
  /\ call' = BackToConnect
  /\ path' = IF Matches(call.file) THEN path ELSE [path EXCEPT ![call.o] = None]
  /\ UNCHANGED <<kernel, stored, reads, writes, steady, result>>

ConnectEnds ==
  /\ call.op = "connect"
  /\ \/ Candidate # None /\ call.to_read = {} /\ Returns("connected")
     \/ Candidate = None /\ call.left = {} /\ Returns("not_connected")
  /\ UNCHANGED <<kernel, stored, reads, writes, path, steady>>

\* The object is destroyed; another takes its place.
Destroy(o) ==
  /\ call = Idle
  /\ path[o] # None
  /\ path' = [path EXCEPT ![o] = None]
  /\ UNCHANGED <<kernel, stored, reads, writes, call, steady, result>>

-----------------------------------------------------------------------------
(***************************************************************************)
(* The kernel: a device appears at a directory, or goes away.              *)
(***************************************************************************)
Plug(d) ==
  /\ device[d] = 0
  /\ plugs < MaxPlugs
  /\ plugs' = plugs + 1
  /\ device' = [device EXCEPT ![d] = plugs + 1]
  /\ \E matching \in SUBSET Matched : fits' = [fits EXCEPT ![d] = matching]
  /\ steady' = FALSE
  /\ UNCHANGED <<stored, reads, writes, path, call, result>>

Unplug(d) ==
  /\ device[d] # 0
  /\ device' = [device EXCEPT ![d] = 0]
  /\ fits' = [fits EXCEPT ![d] = {}]
  /\ stored' = {f \in stored : f[1] # d}
  /\ steady' = FALSE
  /\ UNCHANGED <<plugs, reads, writes, path, call, result>>

Next ==
  \/ \E o \in Objects, attr \in Matched \cup Others : GetAttr(o, attr)
  \/ \E o \in Objects, attr \in Others : SetAttrInt(o, attr) \/ SetAttrString(o, attr)
  \/ GetEnds
  \/ SetIntWrites \/ SetIntRefused \/ SetIntRetries \/ SetIntFails
  \/ SetStringEnds
  \/ \E o \in Objects, compared \in SUBSET Matched : Connect(o, compared)
  \/ ConnectTries \/ ConnectOpens \/ ConnectMatches \/ ConnectEnds
  \/ \E o \in Objects : Destroy(o)
  \/ \E d \in Dirs : Plug(d) \/ Unplug(d)

Spec == Init /\ [][Next]_vars
-----------------------------------------------------------------------------
Calls ==
  {Idle} \cup [op : {"get", "set_string"}, file : Files]
    \cup [op : {"set_int"}, file : Files, attempt : {0, 1}]
    \cup [op : {"connect"}, o : Objects, compared : SUBSET Matched,
          left : SUBSET Dirs, to_read : SUBSET Matched]
    \cup [op : {"match"}, o : Objects, compared : SUBSET Matched,
          left : SUBSET Dirs, to_read : SUBSET Matched, file : Files]

TypeOK ==
  /\ plugs \in 0 .. MaxPlugs
  /\ device \in [Dirs -> 0 .. MaxPlugs]
  /\ fits \in [Dirs -> SUBSET Matched]
  /\ stored \subseteq Files
  /\ reads \in Seq(Streams)
  /\ writes \in Seq(Streams)
  /\ path \in [Objects -> Dirs \cup {None}]
  /\ call \in Calls
  /\ steady \in BOOLEAN
  /\ result \in {"none", "value", "nothing", "done", "refused", "error", "connected", "not_connected"}

(***************************************************************************)
(* The caches never hold more streams than they may nor two for one file,  *)
(* and the stream a call has opened stays at the front of its cache until  *)
(* it is used: the reference handed out by ifstream_open does not dangle.  *)
(***************************************************************************)
CacheSound(cache) ==
  /\ Len(cache) <= CacheSize
  /\ \A i, j \in DOMAIN cache : cache[i].file = cache[j].file => i = j

InUse ==
  /\ call.op \in {"get", "match"} => reads # <<>> /\ Head(reads).file = call.file
  /\ call.op \in {"set_int", "set_string"} => writes # <<>> /\ Head(writes).file = call.file

(***************************************************************************)
(* A stream set_attr_int has just opened is one for the device there now.  *)
(***************************************************************************)
JustOpened ==
  call.op = "set_int" /\ steady /\ (~ IsOpen(writes) \/ call.attempt = 1) =>
    Head(writes).of = device[call.file[1]]

IInv == TypeOK /\ CacheSound(reads) /\ CacheSound(writes) /\ InUse /\ JustOpened

(***************************************************************************)
(* A set_attr_int or set_attr_string that returns without an exception has *)
(* changed the attribute of the device that is plugged in then, whatever   *)
(* was unplugged, plugged in or pushed out of the cache before or while it *)
(* ran: no write gets lost in a stale stream.                              *)
(***************************************************************************)
WritesTakeEffect ==
  [][call # Idle /\ result' = "done" =>
       device[call.file[1]] # 0 /\ call.file \in stored']_vars

(***************************************************************************)
(* One retry is enough: if the device is there during all of the call,     *)
(* set_attr_int reaches it, stale as its stream may be.                    *)
(***************************************************************************)
OneRetryIsEnough ==
  [][call.op = "set_int" /\ result' = "error" =>
       ~ steady \/ device[call.file[1]] = 0]_vars

(***************************************************************************)
(* An object is connected when connect() says so and not otherwise, and to *)
(* a device that has what was asked for, unless something was unplugged    *)
(* while it looked.                                                        *)
(***************************************************************************)
ConnectedToMatch ==
  [][call.op = "connect" /\ call' = Idle =>
       /\ result' = "connected" <=> Candidate # None
       /\ steady /\ Candidate # None =>
            device[Candidate] # 0 /\ call.compared \subseteq fits[Candidate]]_vars
=============================================================================
