------------------------------ MODULE Backups ------------------------------
(***************************************************************************)
(* Encrypted backup files (packages/privacy/backup.ts): a header and a     *)
(* sequence of authenticated frames.  A frame is bound to its file's       *)
(* header and to its number in it; the last one is empty.                  *)
(*                                                                         *)
(* The dump is a sequence of chunks 1, 2, ... ; a frame cut in two is a    *)
(* frame missing, since the reader waits for all of its bytes.             *)
(***************************************************************************)
EXTENDS Naturals, SequencesExt

End == 0   \* the empty frame

\* encryptBackup after n chunks, the final frame not included.
Frames(header, n) == [i \in 1..n |-> [header |-> header, number |-> i, data |-> i]]

\* encryptBackup once its source has ended.
Sealed(header, n) ==
  Append(Frames(header, n), [header |-> header, number |-> n + 1, data |-> End])

\* decryptBackup returns: the input ends with the first empty frame.
Ends(frames) == frames # <<>> /\ Last(frames).data = End

\* The frame's tag is right for this header and this number.
Opens(header, frames, i) == frames[i].header = header /\ frames[i].number = i

Accepted(file) ==
  /\ Ends(file.frames)
  /\ \A i \in 1..Len(file.frames) :
       /\ Opens(file.header, file.frames, i)
       /\ i < Len(file.frames) => file.frames[i].data # End

\* What the reader hands on before it returns: the frames before the first empty one.
Restored(file) ==
  LET Whole == {i \in 1..Len(file.frames) : \A k \in 1..i : file.frames[k].data # End}
  IN [i \in Whole |-> file.frames[i].data]

\* What may become of a file: it is cut short, loses a frame, has two frames
\* change places, or it is followed by itself or by another file.
Damaged(file) ==
  LET with(frames) == [file EXCEPT !.frames = frames]
      Positions == 1..Len(file.frames)
  IN {with(SubSeq(file.frames, 1, k)) : k \in 0..Len(file.frames)}
     \cup {with(RemoveAt(file.frames, k)) : k \in Positions}
     \cup {with([file.frames EXCEPT ![j] = file.frames[k], ![k] = file.frames[j]])
             : j, k \in Positions}
     \cup {with(file.frames \o file.frames)}
     \cup {with(file.frames \o Sealed(file.header + 1, n)) : n \in 0..1}
============================================================================
