----------------------------- MODULE DirectFiles -----------------------------
(***************************************************************************)
(* The files of a conversation: internal/messages/files.go, with           *)
(* service.go's pull, serve and File.  An entry announces a file, which    *)
(* waits with its author; the other asks for it a span of pieces at a      *)
(* time, from where it stopped, and pieces come over a channel of their    *)
(* own.  A file that is wiped is removed.                                  *)
(*                                                                         *)
(* Entries only arrive while the two are connected.  The connection loses  *)
(* what is on its way when it ends, and not what reached the queue of a    *)
(* service, which does its work in order.  Pieces are genuine: a file that *)
(* fails its SHA-256 is out of the model.                                  *)
(***************************************************************************)
EXTENDS Conversation, Sequences

LOCAL INSTANCE SequencesExt   \* SetToSeq

CONSTANTS
  Pieces,   \* the pieces of a file
  Span      \* how many are asked for at once

ASSUME FilesAssumption ==
  /\ Pieces \in Nat \ {0} /\ Span \in Nat \ {0}
  /\ \A o \in Occasions : o.breaks \in Nat /\ o.failures \in Nat   \* bounds: connections that
                    \* end, and pieces that cannot be written

VARIABLES
  up,        \* whether they are connected
  got,       \* got[p]: how many pieces p holds of each file it has an entry for
  asked,     \* asked[p]: the files p asked for, and where the span asked for ends
  work,      \* the queue of each service: a connection ready, requests and pieces
  wire,      \* requests on their way to each
  channel,   \* pieces on their way to each
  wants,     \* wants[p]: whether files are p's reason to be connected
  stopped,   \* for the properties: who stopped since they were connected
  troubles   \* connections ended and pieces failed, for the bounds

files == <<up, got, asked, work, wire, channel, wants, stopped, troubles>>
fileVars == <<vars, files>>

-----------------------------------------------------------------------------
Request(m, offset) ==
  [type |-> "request", file |-> m, offset |-> offset,
   length |-> IF Pieces - offset < Span THEN Pieces - offset ELSE Span]
Chunk(m, offset) == [type |-> "chunk", file |-> m, offset |-> offset]
ReadyWork == [type |-> "ready"]

FilesOf(p, entries) == {m \in entries : m.kind = "file" /\ m.author = p}

(* Files of the other's p shows and does not hold whole.                   *)
Wanted(p, pieces) ==
  {m \in FilesOf(Other(p), held'[p]) \ hidden'[p] :
     ~Deleted(held'[p], wiped'[p], m) /\ pieces[m] < Pieces}

Asks(p, pieces, asking) ==
  LET missing == {m \in Wanted(p, pieces) : \A a \in asking : a.file # m}
      requests == {Request(m, pieces[m]) : m \in missing}
  IN  IF up
      THEN /\ wire' = [wire EXCEPT ![Other(p)] = @ \o SetToSeq(requests)]
           /\ asked' = [asked EXCEPT ![p] =
                          asking \cup {[file |-> r.file, end |-> r.offset + r.length] : r \in requests}]
      ELSE asked' = [asked EXCEPT ![p] = asking] /\ UNCHANGED wire

(* pull: the next span of each file wanted, but those being asked for.     *)
(* Files are a reason to be connected while any is wanted.                 *)
Pull(p, pieces, asking) ==
  /\ wants' = [wants EXCEPT ![p] = Wanted(p, pieces) # {}]
  /\ Asks(p, pieces, asking)

Complete(p, m) == got[p][m] = Pieces

(* Sends: a file of p's own, whole, shown and not deleted.                 *)
Sends(p, m) ==
  /\ m \in Own(p) \ hidden[p] /\ Complete(p, m)
  /\ ~Deleted(held[p], wiped[p], m)

(* Read: a span of a file kept whole, a piece at a time.                   *)
Spanned(m, offset, length) == [i \in 1..length |-> Chunk(m, offset + i - 1)]
Read(p, r) == IF Complete(p, r.file) THEN Spanned(r.file, r.offset, r.length) ELSE <<>>

(* Pieces go over a channel of their own, after those that wait there.     *)
Flushed(p, chunks) == [channel EXCEPT ![Other(p)] = @ \o chunks]
SendFile(p, chunks) == channel' = IF up THEN Flushed(p, chunks) ELSE channel

-----------------------------------------------------------------------------
FilesInit ==
  /\ Init
  /\ up = FALSE
  /\ got = [p \in People |-> <<>>] /\ asked = [p \in People |-> {}]
  /\ work = [p \in People |-> <<>>]
  /\ wire = [p \in People |-> <<>>] /\ channel = [p \in People |-> <<>>]
  /\ wants = [p \in People |-> FALSE] /\ stopped = {}
  /\ troubles = [broke |-> 0, failed |-> 0]

(* What a step of the conversation does to files: one's own are written    *)
(* whole before their entry is, of another's nothing is held yet, and those *)
(* wiped are removed.                                                      *)
Attached == Pieces
Inserted(p, m) == IF m.author = p THEN Attached ELSE 0
Unfiled(p) == wiped'[p] \ wiped[p]

Stores ==
  got' = [p \in People |->
            [m \in FilesOf(ann, held'[p]) \cup FilesOf(bob, held'[p]) |->
               IF m \in Unfiled(p) THEN 0
               ELSE IF m \in held[p] THEN got[p][m] ELSE Inserted(p, m)]]

Converse(p) ==
  /\ Call(p) \/ Add(p) \/ Delivered(p) \/ Compact(p) \/ Forget(p) \/ MarkRead(p)
  /\ Stores
  /\ UNCHANGED <<up, asked, work, wire, channel, wants, stopped, troubles>>

(* Entries come after the service was told that the connection is ready;   *)
(* a file just announced is asked for.                                     *)
ReceiveEntry(p) ==
  /\ up /\ \A i \in DOMAIN work[p] : work[p][i] # ReadyWork
  /\ Receive(p) /\ Stores
  /\ UNCHANGED <<up, asked, work, wire, channel, wants, stopped, troubles>>

ObserveEntry(p) ==
  /\ ObserveIt(p)
  /\ IF \E e \in observing[p] \ wiped[p] : e.kind = "file"
     THEN Pull(p, got[p], asked[p]) ELSE UNCHANGED <<asked, wire, wants>>
  /\ UNCHANGED <<up, got, work, channel, stopped, troubles>>

-----------------------------------------------------------------------------
(* The service of p takes the next of its work.                            *)
Takes(p, type) ==
  /\ ServiceFree(p) /\ work[p] # <<>> /\ Head(work[p]).type = type
  /\ work' = [work EXCEPT ![p] = Tail(@)]

(* Whatever was asked for over the last connection is asked for again.     *)
AskedStays(p) == asked[p]   \* a mistake: nothing is asked for again

AskedBefore(p) == {a \in asked[p] : a.file \notin Wanted(p, got[p])}

HandleReady(p) ==
  /\ Takes(p, "ready") /\ UNCHANGED vars
  /\ Pull(p, got[p], AskedBefore(p))
  /\ stopped' = stopped \ {p}
  /\ UNCHANGED <<up, got, channel, troubles>>

(* serve: the span asked for, a piece at a time; nothing, if p does not    *)
(* send the file.                                                          *)
Serve(p) ==
  /\ Takes(p, "request")
  /\ LET r == Head(work[p])
     IN  SendFile(p, IF Sends(p, r.file) THEN Read(p, r) ELSE <<>>)
  /\ UNCHANGED <<vars, up, got, asked, wire, wants, stopped, troubles>>

(* Arrived: a piece is kept if it is where the file stops.                 *)
Fits(p, c) == c.offset = got[p][c.file]
Put(p, c) == got' = [got EXCEPT ![p][c.file] = @ + 1]

Arrived(p, c) == Fits(p, c) /\ Put(p, c) /\ UNCHANGED troubles
NotKept(p, c) ==
  /\ ~Fits(p, c) \/ troubles.failed < occasion.failures
  /\ troubles' = [troubles EXCEPT !.failed = IF Fits(p, c) THEN @ + 1 ELSE @]
  /\ UNCHANGED got

(* When the span ended the next is asked for, and when the piece was not   *)
(* kept the same again.                                                    *)
File(p) ==
  /\ Takes(p, "chunk") /\ UNCHANGED vars
  /\ LET c == Head(work[p])
         ended == \A a \in asked[p] : a.file = c.file => c.offset + 1 >= a.end
         others == {a \in asked[p] : a.file # c.file}
     IN  \/ /\ Arrived(p, c)
            /\ IF got'[p][c.file] = Pieces \/ ended
               THEN Pull(p, got'[p], others) ELSE UNCHANGED <<asked, wire, wants>>
         \/ NotKept(p, c) /\ Pull(p, got[p], others)
  /\ UNCHANGED <<up, channel, stopped>>

FileWork(p) == HandleReady(p) \/ Serve(p) \/ File(p)

ArriveRequest(p) ==
  /\ wire[p] # <<>>
  /\ work' = [work EXCEPT ![p] = Append(@, Head(wire[p]))]
  /\ wire' = [wire EXCEPT ![p] = Tail(@)]
  /\ UNCHANGED <<vars, up, got, asked, channel, wants, stopped, troubles>>

ArrivePiece(p) ==
  /\ channel[p] # <<>>
  /\ work' = [work EXCEPT ![p] = Append(@, Head(channel[p]))]
  /\ channel' = [channel EXCEPT ![p] = Tail(@)]
  /\ UNCHANGED <<vars, up, got, asked, wire, wants, stopped, troubles>>

-----------------------------------------------------------------------------
Connect ==
  /\ ~up /\ up' = TRUE
  /\ work' = [p \in People |-> Append(work[p], ReadyWork)]
  /\ UNCHANGED <<vars, got, asked, wire, channel, wants, stopped, troubles>>

Ends ==
  /\ troubles.broke < occasion.breaks /\ troubles' = [troubles EXCEPT !.broke = @ + 1]
  /\ up' = FALSE
  /\ wire' = [p \in People |-> <<>>] /\ channel' = [p \in People |-> <<>>]

Disconnect == up /\ Ends /\ UNCHANGED <<vars, got, asked, work, wants, stopped>>

(* Only what waits to be sent is a reason to be connected once it starts   *)
(* again: a file that is wanted is none before they are.                   *)
Stop(p) ==
  /\ Ends /\ Restart(p)
  /\ asked' = [asked EXCEPT ![p] = {}] /\ work' = [work EXCEPT ![p] = <<>>]
  /\ wants' = [wants EXCEPT ![p] = FALSE] /\ stopped' = stopped \cup {p}
  /\ UNCHANGED got

FilesNext ==
  \/ \E p \in People :
       Converse(p) \/ ReceiveEntry(p) \/ ObserveEntry(p) \/ FileWork(p) \/ ArriveRequest(p) \/ ArrivePiece(p) 
         \/ Stop(p)
  \/ Connect \/ Disconnect

(* Services get through their work, what is sent arrives and entries are   *)
(* stored and wiped, unless the connection ends or the application stops.  *)
(* Apart, the two need only connect again while files are a reason to:     *)
(* what waits to be sent is DirectMessages' matter.                        *)
FilesSpec ==
  /\ FilesInit /\ [][FilesNext]_fileVars /\ WF_fileVars(Connect /\ \E p \in People : wants[p])
  /\ \A p \in People :
       /\ WF_fileVars(FileWork(p)) /\ WF_fileVars(ArriveRequest(p)) /\ WF_fileVars(ArrivePiece(p))
       /\ WF_fileVars(ReceiveEntry(p)) /\ WF_fileVars(ObserveEntry(p))
       /\ WF_fileVars((Add(p) \/ Compact(p)) /\ Converse(p))

-----------------------------------------------------------------------------
(* A file somebody was told of comes to be held whole, or is deleted by    *)
(* either, though connections break and pieces fail (service.go's pull),   *)
(* unless they stop and nothing else brings the two together again.        *)
Settled(p, m) ==
  \/ got[p][m] = Pieces
  \/ \E q \in People : m \in hidden[q] \/ Deleted(held[q], wiped[q], m)

FilesArrive ==
  <>[](\A p \in People : \A m \in FilesOf(Other(p), held[p]) : Settled(p, m) \/ (p \in stopped /\ ~up))

(* ADR 0036: "an interrupted transfer resumes", whoever stopped.           *)
TransfersResume == <>[](\A p \in People : \A m \in FilesOf(Other(p), held[p]) : Settled(p, m))

(* No piece is asked for twice at once, so that little is ever in flight   *)
(* (files.go's Span).                                                      *)
LittleInFlight ==
  \A p \in People :
    LET sent == wire[Other(p)] \o work[Other(p)]
    IN  \A i, j \in DOMAIN sent :
          i # j /\ sent[i].type = "request" /\ sent[j].type = "request" => sent[i].file # sent[j].file

(* A file both know to be deleted is kept by neither (ADR 0034).           *)
DeletedFilesAreRemoved ==
  \A p \in People : \A m \in held[p] :
    m.kind = "file" /\ m \in wiped[p] => got[p][m] = 0
=============================================================================
