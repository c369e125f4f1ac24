---------------------------- MODULE RamDownloads ----------------------------
(* A client downloads a file from ram, resumes a download that broke off and   *)
(* asks whether its copy is still good, while the file is written in place,    *)
(* replaced by another file and deleted (ram: handle_send_file and             *)
(* extract_cache_headers of server.rs, parse_range of utils.rs).               *)
(*                                                                             *)
(* The contents of a file are a sequence of parts, each labelled with the      *)
(* version of the file that it belongs to. A modification time counts          *)
(* milliseconds; a second has Second of them.                                  *)
EXTENDS Integers, Sequences, FiniteSets

CONSTANTS
    Parts,        \* parts of a version
    Second,       \* milliseconds in a second
    MaxVersion,   \* bound: versions of the file
    MaxTime       \* bound: milliseconds

ASSUME DownloadsAssumption ==
    {Parts, Second} \subseteq Nat \ {0} /\ {MaxVersion, MaxTime} \subseteq Nat

VARIABLES
    inode,        \* the files there have been: [mtime, data]
    disk,         \* the file the path names, or Gone
    putting,      \* an upload that writes the file in place, or NoPut
    now,
    last,         \* the last version
    had,          \* history: what the path has named, and when each was written
    moved,        \* history: what was moved in, with the time it was written elsewhere
    request,      \* the request that runs
    copy          \* what the client has

downloadVars == <<inode, disk, putting, now, last, had, moved, request, copy>>

Gone == 0
NoPut == [file |-> Gone, version |-> 0]
NoTag == [mtime |-> -1, size |-> 0]
NoCopy == [tag |-> NoTag, data |-> <<>>, full |-> FALSE, mixed |-> FALSE]
NoDownload == [phase |-> "idle"]

\* extract_cache_headers
Tag(file) == [mtime |-> file.mtime, size |-> Len(file.data)]
Date(tag) == tag.mtime \div Second

DownloadInit ==
    /\ inode = <<[mtime |-> 0, data |-> [n \in 1..Parts |-> 1]]>>
    /\ disk = 1 /\ putting = NoPut /\ now = 0 /\ last = 1
    /\ had = {inode[1]} /\ moved = {}
    /\ request = NoDownload /\ copy = NoCopy

-----------------------------------------------------------------------------
(* The file *)

Tick == now < MaxTime /\ now' = now + 1 /\ UNCHANGED <<inode, disk, putting, last, had, moved, request, copy>>

Becomes(i, data) ==
    /\ inode' = [inode EXCEPT ![i] = [mtime |-> now, data |-> data]]
    /\ had' = had \cup {inode'[i]} /\ UNCHANGED moved
    /\ copy' = [copy EXCEPT !.mixed = @ \/ (request.phase = "stream" /\ request.file = i)]

\* handle_upload truncates the file and writes it part by part.
PutFile ==
    /\ putting = NoPut /\ disk # Gone /\ last < MaxVersion
    /\ last' = last + 1 /\ putting' = [file |-> disk, version |-> last']
    /\ Becomes(disk, <<>>)
    /\ UNCHANGED <<disk, now, request>>

PutPart ==
    /\ putting # NoPut
    /\ LET data == Append(inode[putting.file].data, putting.version)
       IN /\ Becomes(putting.file, data)
          /\ putting' = IF Len(data) = Parts THEN NoPut ELSE putting
    /\ UNCHANGED <<disk, now, last, request>>

\* handle_move: another file takes the name, with the time that it was last written.
MoveIn ==
    /\ last < MaxVersion /\ last' = last + 1
    /\ \E mtime \in 0..now, size \in 1..Parts :
         inode' = Append(inode, [mtime |-> mtime, data |-> [n \in 1..size |-> last']])
    /\ disk' = Len(inode')
    /\ had' = had \cup {inode'[disk']} /\ moved' = moved \cup {inode'[disk']}
    /\ UNCHANGED <<putting, now, request, copy>>

DeleteFile == disk # Gone /\ disk' = Gone /\ UNCHANGED <<inode, putting, now, last, had, moved, request, copy>>

-----------------------------------------------------------------------------
(* The client *)

Asks(tag, date, ranges) ==
    /\ request = NoDownload
    /\ request' = [phase |-> "look", file |-> Gone, opened |-> FALSE, seen |-> NoTag, content |-> <<>>,
                   looked |-> FALSE, tag |-> tag, date |-> date, ranges |-> ranges]
    /\ UNCHANGED <<inode, disk, putting, now, last, had, moved, copy>>

Fetch == copy = NoCopy /\ Asks(NoTag, FALSE, <<>>)

\* If-None-Match with the tag, alone or, as browsers send it, with If-Modified-Since.
Revalidate == copy.full /\ \E date \in BOOLEAN : Asks(copy.tag, date, <<>>)

\* Range for what is missing, in each of the forms it has, with If-Range. A position
\* is counted from 0; Open stands for none.
Open == -1
Resume ==
    /\ copy.tag # NoTag /\ ~copy.full
    /\ LET from == Len(copy.data)
           size == copy.tag.size
       IN \E range \in {[first |-> from, last |-> Open], [first |-> from, last |-> size - 1],
                        [first |-> Open, last |-> size - from]} :
            Asks(copy.tag, FALSE, <<range>>)

Forget == request = NoDownload /\ copy # NoCopy /\ copy' = NoCopy /\ UNCHANGED <<inode, disk, putting, now, last, had, moved, request>>

-----------------------------------------------------------------------------
(* The server *)

\* tokio::join! opens the path and asks for its metadata, in either order.
OpenFile ==
    /\ request.phase = "look" /\ ~request.opened
    /\ request' = IF disk = Gone THEN NoDownload ELSE [request EXCEPT !.opened = TRUE, !.file = disk]
    /\ UNCHANGED <<inode, disk, putting, now, last, had, moved, copy>>

Metadata ==
    /\ request.phase = "look" /\ ~request.looked
    /\ request' = IF disk = Gone THEN NoDownload
                  ELSE [request EXCEPT !.looked = TRUE, !.seen = Tag(inode[disk]), !.content = inode[disk].data]
    /\ UNCHANGED <<inode, disk, putting, now, last, had, moved, copy>>

\* parse_range: the range of positions asked for, or NoRange.
NoRange == <<>>
ParseOne(range, size) ==
    IF range.first = Open
    THEN IF range.last > 0 /\ range.last <= size THEN <<size - range.last, size - 1>> ELSE NoRange
    ELSE IF range.first >= size THEN NoRange
    ELSE IF range.last = Open THEN <<range.first, size - 1>>
    ELSE IF range.last < size /\ range.first <= range.last THEN <<range.first, range.last>> ELSE NoRange
ParseRange(ranges, size) ==
    LET parsed == [n \in DOMAIN ranges |-> ParseOne(ranges[n], size)]
    IN IF size = 0 \/ \E n \in DOMAIN parsed : parsed[n] = NoRange THEN <<>> ELSE parsed

\* The conditions, in the order the code tries them: the date, in whole seconds, is
\* believed before the tag is looked at.
NotModified ==
    \/ request.date /\ Date(request.seen) <= Date(request.tag)
    \/ request.ranges = <<>> /\ request.tag # NoTag /\ request.seen = request.tag

\* Mutant: If-Range is not looked at.
UseRange_Always == request.ranges # <<>>

UseRange == request.ranges # <<>> /\ request.seen = request.tag

Stream(first, final) == request' = [phase |-> "stream", file |-> request.file, at |-> first, until |-> final]

\* What is streamed is read from the file that was opened, what is said of it is what
\* the metadata say.
Differs == Tag(inode[request.file]) # request.seen

Answer ==
    /\ request.phase = "look" /\ request.opened /\ request.looked
    /\ IF NotModified
         THEN request' = [phase |-> "same", content |-> request.content,
                         seen |-> request.seen, date |-> request.date] /\ UNCHANGED copy
       ELSE IF ~UseRange
         THEN /\ Stream(0, request.seen.size - 1)
              /\ copy' = [tag |-> request.seen, data |-> <<>>, full |-> request.seen.size = 0, mixed |-> Differs]
       ELSE LET parsed == ParseRange(request.ranges, request.seen.size)
            IN IF parsed = <<>> THEN request' = NoDownload /\ copy' = NoCopy
               ELSE /\ Stream(parsed[1][1], parsed[1][2])
                    /\ copy' = [copy EXCEPT !.mixed = @ \/ Differs]
    /\ UNCHANGED <<inode, disk, putting, now, last, had, moved>>

SendPart ==
    /\ request.phase = "stream" /\ request.at <= request.until
    /\ IF request.at < Len(inode[request.file].data)
         THEN /\ LET data == Append(copy.data, inode[request.file].data[request.at + 1])
                 IN copy' = [copy EXCEPT !.data = data, !.full = Len(data) = copy.tag.size]
              /\ request' = [request EXCEPT !.at = @ + 1]
         ELSE request' = NoDownload /\ UNCHANGED copy
    /\ UNCHANGED <<inode, disk, putting, now, last, had, moved>>

\* The answer has been read, or the connection breaks.
Close == request.phase \in {"stream", "same"} /\ request' = NoDownload /\ UNCHANGED <<inode, disk, putting, now, last, had, moved, copy>>

DownloadNext ==
    \/ Tick \/ PutFile \/ PutPart \/ MoveIn \/ DeleteFile
    \/ Fetch \/ Revalidate \/ Resume \/ Forget
    \/ OpenFile \/ Metadata \/ Answer \/ SendPart \/ Close

DownloadSpec == DownloadInit /\ [][DownloadNext]_downloadVars

-----------------------------------------------------------------------------
(* Properties *)

\* Two contents of the file had one time and one size: written twice within a millisecond, or moved
\* in with those of the file before.
Twins == \E h, k \in had : h # k /\ h.mtime = k.mtime /\ Len(h.data) = Len(k.data)

\* A copy that is complete, in one piece or resumed however often, is one version of
\* the file from its first part on, as long as no two contents have one time and size and no
\* download of it met a write (between the opening of the file and the reading of its
\* metadata, or while it was streamed).
CopyIsOneVersion ==
    copy.full /\ ~copy.mixed /\ ~Twins => \E h \in had : h.data = copy.data

\* "命中缓存时可以返回 304，客户端就不用重新下载文件" (server.rs, handle_send_file): a client
\* that is told its copy is good has what the file has, with the same exceptions.  One that
\* sends the date with the tag is judged by the date alone when that is not older: it may be
\* told so, too, of a file that was written after its copy within the same second, or moved
\* in with the time it was written elsewhere, and of no other.
NotModifiedIsTrue ==
    request.phase = "same" /\ ~copy.mixed /\ ~Twins =>
        \/ copy.data = request.content
        \/ /\ request.date
           /\ \/ Date(request.seen) = Date(copy.tag)
              \/ [mtime |-> request.seen.mtime, data |-> request.content] \in moved

\* What a client has in the end, and what it is told of it, is what the file is.
CopiesAreTrue == CopyIsOneVersion /\ NotModifiedIsTrue
=============================================================================
