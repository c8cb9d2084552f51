----------------------------- MODULE LanServer ------------------------------
(***************************************************************************)
(* The agent's direct LAN server (lan_server.rs) beside the tunnel: a read *)
(* of a file looks up its size, sends the header with the length of the    *)
(* body, and only then opens the file and copies it cell by cell, while    *)
(* commands from the tunnel may write, delete or recreate it.  An error    *)
(* after the header is not reported: the body ends early.  The other LAN   *)
(* requests look at the disk once.                                         *)
(***************************************************************************)
EXTENDS Tunnel

CONSTANTS Reads,     \* LAN reads
          Ranges     \* Range headers: [start, end], end None if left open

ASSUME RangesAssumption == \A g \in Ranges : g.start \in Nat /\ g.end \in Nat \union {None}

VARIABLES lan        \* per read: its state, what it announced and saw then, the open
                     \* file and its position, what was sent; changed, sought and cut
                     \* say what happened to it

lanVars == <<vars, lan>>

NoRead == [st |-> "idle", path |-> None, ranged |-> FALSE, start |-> 0, size |-> 0,
           seen |-> <<>>, changed |-> FALSE,
           file |-> <<>>, linked |-> FALSE, at |-> 0, sought |-> TRUE,
           body |-> <<>>, cut |-> FALSE]

LanInit == Init /\ lan = [l \in Reads |-> NoRead]

AtMost(m, n) == IF m < n THEN m ELSE n

(* parse_range: the first and the last cell asked for, or None. *)
\* Mutant: the end is cut at the size instead of the last cell.
ParseRange_OneMore(range, total) ==
  LET end == IF range.end = None THEN total ELSE AtMost(range.end, total)
  IN  IF range.start <= end /\ range.start < total THEN <<range.start, end>> ELSE None

ParseRange(range, total) ==
  LET last == IF total = 0 THEN 0 ELSE total - 1
      end  == IF range.end = None THEN last ELSE AtMost(range.end, last)
  IN  IF range.start <= end /\ range.start < total THEN <<range.start, end>> ELSE None

(* handle_connection up to the header: 206 with the range, 200 with all of the
   file if there is no range that fits.  range is None without the header. *)
LanHeader(l, p, range) ==
  /\ lan[l].st = "idle"
  /\ IsFile(disk, p)
  /\ LET total == Len(disk[p].data)
         fit   == IF range = None THEN None ELSE ParseRange(range, total)
     IN  lan' = [lan EXCEPT ![l] =
                   [NoRead EXCEPT !.st = "announced", !.path = p, !.seen = disk[p].data,
                      !.ranged = (fit # None),
                      !.start = IF fit = None THEN 0 ELSE fit[1],
                      !.size  = IF fit = None THEN total ELSE fit[2] - fit[1] + 1]]
  /\ UNCHANGED vars

(* The file is opened by its name again; an error sends nothing.  The position
   for a range is set next, and an error of that leaves it at the start. *)
LanOpen(l) ==
  /\ lan[l].st = "announced"
  /\ LET p == lan[l].path
     IN  \/ lan' = [lan EXCEPT ![l].st = "sent", ![l].cut = TRUE]
         \/ /\ IsFile(disk, p)
            /\ \E at \in {lan[l].start, 0} :
                 lan' = [lan EXCEPT ![l].st = "open", ![l].file = disk[p].data,
                                    ![l].linked = TRUE, ![l].at = at,
                                    ![l].sought = (at = lan[l].start)]
  /\ UNCHANGED vars

(* More of the open file is to be sent: a range is cut at the announced
   length, the whole file is copied to its end. *)
More(read) == read.at < Len(read.file) /\ (read.ranged => Len(read.body) < read.size)

(* The copy is over, or cut short by an error of the file or the stream. *)
LanEnds(l, cut) ==
  /\ lan' = [lan EXCEPT ![l].st = "sent", ![l].cut = cut, ![l].file = <<>>,
                        ![l].linked = FALSE, ![l].at = 0]
  /\ UNCHANGED vars

(* One cell of the copy; a command may run between two. *)
LanCopy(l) ==
  /\ lan[l].st = "open"
  /\ IF More(lan[l])
       THEN /\ lan' = [lan EXCEPT ![l].at = @ + 1,
                                  ![l].body = Append(@, lan[l].file[lan[l].at + 1])]
            /\ UNCHANGED vars
       ELSE LanEnds(l, FALSE)

LanCut(l) == lan[l].st = "open" /\ LanEnds(l, TRUE)

(* What a command leaves of a read: the name announced may stand for other
   contents, or none, and an open file follows what is written in place, while
   its contents stay when its name goes. *)
Followed(read) ==
  LET p    == read.path
      same == IsFile(disk', p) /\ disk'[p].data = disk[p].data
  IN  CASE read.st = "announced" /\ IsFile(disk, p) /\ ~same ->
             [read EXCEPT !.changed = TRUE]
        [] read.st = "open" /\ read.linked /\ ~same ->
             IF IsFile(disk', p)
               THEN [read EXCEPT !.file = disk'[p].data, !.changed = TRUE]
               ELSE [read EXCEPT !.linked = FALSE]
        [] OTHER -> read

LanAnswer(l, p, a) ==
  /\ lan[l].st = "idle"
  /\ a.ok
  /\ lan' = [lan EXCEPT ![l] = [NoRead EXCEPT !.st = "answered", !.path = p, !.body = a.val]]
  /\ UNCHANGED vars

(* A listing, or the metadata of an entry; a root that is not permitted, a path
   that does not resolve and an error of the handler are refused. *)
LanLook(l, p) == LanAnswer(l, p, ListDir(disk, p)) \/ LanAnswer(l, p, Stat(disk, p))

LanChecksum(l, p) == LanAnswer(l, p, Checksum(disk, p))

LanStep ==
  \E l \in Reads :
    \/ LanOpen(l) \/ LanCopy(l) \/ LanCut(l)
    \/ \E p \in Paths : \/ \E g \in Ranges \union {None} : LanHeader(l, p, g)
                       \/ LanLook(l, p)
                       \/ LanChecksum(l, p)

LanNext == (Next /\ lan' = [l \in Reads |-> Followed(lan[l])]) \/ LanStep

LanSpec == LanInit /\ [][LanNext]_lanVars

(* What a LAN read has sent is the beginning of what its header announced, as the
   file was then, and all of it once the copy ends: unless a command changed the
   file after the header, the position could not be set, or, for the end, an
   error cut it short.  A file deleted while it is open is still sent in full.
   A range is never longer than announced, whatever happened. *)
LanBodyAsAnnounced ==
  \A l \in Reads :
    LET read == lan[l]
    IN  read.st \in {"open", "sent"} =>
          /\ ~read.changed /\ read.sought =>
               /\ Len(read.body) <= read.size
               /\ \A k \in 1 .. Len(read.body) : read.body[k] = read.seen[read.start + k]
               /\ read.st = "sent" /\ ~read.cut => Len(read.body) = read.size
          /\ read.ranged => Len(read.body) <= read.size
=============================================================================
