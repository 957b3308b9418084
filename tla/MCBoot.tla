------------------------------- MODULE MCBoot -------------------------------
(***************************************************************************)
(* Blocks of four bytes, two to a page, and sizes of two octal digits at   *)
(* and around the boundaries of a block, a page and a digit, up to the     *)
(* largest that fits the word; archives of up to three files, names in any *)
(* order and repeated.  A program may hold the magic of a video.  Tables   *)
(* of four entries: heap, video and program lie in regions of their own,   *)
(* and a large video crosses into the next tables.  From no frame to one   *)
(* more than is ever needed.                                               *)
(***************************************************************************)
EXTENDS Boot

MCNames == {"init.kex", "video.bad"}
Exe(size, kex, bad) == [name |-> "init.kex", size |-> size, kex |-> kex, bad |-> bad]
Video(size, bad) == [name |-> "video.bad", size |-> size, kex |-> FALSE, bad |-> bad]
MCFiles == {Exe(3, FALSE, -1), Exe(5, TRUE, -1), Exe(8, TRUE, 4),
            Video(0, -1), Video(4, 0), Video(8, 0), Video(9, 0), Video(60, 0), Video(5, -1)}
MCArchives == UNION {[1..m -> MCFiles] : m \in 0..3}

MCMachines == [frames : 0..21, modules : {1}]
                \cup [frames : {5, 20}, modules : {0}]
MCHeapPages == <<192, 193>>
MCProgram == <<1, 2>>

MCVectors == {0, 1, 8, 13, 14, 32, 33, 128}
\* Every byte of an address is another one.
MCIsr == [v \in {0, 13, 14, 32, 33, 128} |-> [k \in 1..8 |-> 8 * (v % 31) + k - 1]]
MCTssEntry == <<161, 162, 163, 164, 165, 166, 167, 168>>
MCKernelRsp == <<177, 178, 179, 180, 181, 182, 183, 184>>
=============================================================================
