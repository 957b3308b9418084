------------------------------- MODULE VmSpec -------------------------------
(***************************************************************************)
(* What the page tables promise the rest of the kernel: one mapping from   *)
(* pages to entries.  Switching to the kernel's own tables keeps the       *)
(* kernel's half of what the bootloader had mapped and nothing else; from  *)
(* then on the calls are served in their order, one at a time, each page   *)
(* is what was last asked for it, and mapping one page changes no other.   *)
(***************************************************************************)
EXTENDS Sequences

CONSTANTS
  Pages,
  KernelPages,  \* the pages of the upper half
  Entries       \* a frame with its flags

VARIABLES
  switched,
  calls,        \* [virt, phys, flags] for the calls still to come
  asked,        \* the page and the entry of the call being served, or Nothing
  mapping       \* page |-> entry, for the pages mapped

vars == <<switched, calls, asked, mapping>>

Nothing == <<>>

Switch ==
  /\ ~ switched
  /\ switched' = TRUE
  /\ mapping' = [v \in DOMAIN mapping \cap KernelPages |-> mapping[v]]
  /\ UNCHANGED <<calls, asked>>

\* The next call asks for a present entry with its flags and its frame; a call
\* that names none leaves the frame open.
Ask ==
  /\ switched
  /\ asked = Nothing
  /\ calls # <<>>
  /\ LET c == Head(calls) IN
     \E e \in Entries :
       /\ e.flags = c.flags \cup {"P"}
       /\ c.phys # 0 => e.frame = c.phys
       /\ asked' = <<c.virt, e>>
  /\ calls' = Tail(calls)
  /\ UNCHANGED <<switched, mapping>>

\* The page gets the entry asked for it, whatever it had before.
Map ==
  /\ asked # Nothing
  /\ mapping' = [v \in DOMAIN mapping \cup {asked[1]} |->
                   IF v = asked[1] THEN asked[2] ELSE mapping[v]]
  /\ asked' = Nothing
  /\ UNCHANGED <<switched, calls>>

Init == switched = FALSE /\ asked = Nothing /\ DOMAIN mapping \subseteq Pages

Next == Switch \/ Ask \/ Map

Spec == Init /\ [][Next]_vars
=============================================================================
