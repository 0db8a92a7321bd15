----------------------------- MODULE UartInput -----------------------------
(***************************************************************************)
(* Serial input of the C Forths on an AVR: misc/c/avr.h with               *)
(* misc/c/ringbuffer.c between them.  The receive interrupt puts bytes     *)
(* into the ring and asks the sender to pause, the main program takes them *)
(* out and asks it to go on.                                               *)
(*                                                                         *)
(* The interrupt handler runs to its end before the main program goes on,  *)
(* except that it waits for the transmitter; the main program makes one    *)
(* shared access per step.  The positions are two bytes wide, but the high *)
(* byte is always zero, so a load or store of one is a single access.      *)
(***************************************************************************)
EXTENDS Integers, Sequences

CONSTANTS
  Size,      (* UART_BUFFER_SIZE                                           *)
  Bytes,     (* what the sender sends                                      *)
  High,      (* the bytes above 0x7F: negative as a char                   *)
  NoByte,
  MaxLine    (* bound: the bytes on their way                              *)

ASSUME UartAssumption ==
  /\ Size \in Nat \ {0, 1}
  /\ High \subseteq Bytes
  /\ NoByte \notin Bytes
  /\ MaxLine \in Nat \ {0}

VARIABLES
  rpos, wpos,
  buffer,
  pc,        (* the main program's next access                             *)
  spinning,  (* in the while loop of uart_rb_getchar, after xon            *)
  out,       (* the character the main program hands to xputchar           *)
  got,       (* the byte that ring_buffer_get read last                    *)
  isr,       (* "idle", or "xoff" while the handler waits for UDRE0        *)
  udr,       (* the transmitter's data register, or "empty"                *)
  said,      (* history: the last flow character written to it; "late" is  *)
             (* an xon that found the ring filled again                    *)
  sender,    (* whether the other end is sending or pausing                *)
  line       (* the bytes on their way from the other end                  *)

ringVars == <<rpos, wpos, buffer>>
mainVars == <<pc, spinning, out, got>>
portVars == <<udr, said, sender, line>>
uartVars == <<rpos, wpos, buffer, pc, spinning, out, got, isr, udr, said,
              sender, line>>

Positions == 0 .. Size - 1

Init ==
  /\ rpos = 0 /\ wpos = 0
  /\ buffer = [i \in Positions |-> NoByte]
  /\ pc = "idle" /\ spinning = FALSE /\ out = "text" /\ got = NoByte
  /\ isr = "idle" /\ udr = "empty" /\ said = "xon"
  /\ sender = "sending" /\ line = <<>>

Following(n) == (1 + n) % Size
Empty == rpos = wpos
Full  == Following(wpos) = rpos

-----------------------------------------------------------------------------
(* The other end and the wire: external, as xon and xoff expect them.      *)
Send(b) ==
  /\ sender = "sending"
  /\ Len(line) < MaxLine
  /\ line' = Append(line, b)
  /\ UNCHANGED <<ringVars, mainVars, isr, udr, said, sender>>

Transmit ==
  /\ udr # "empty"
  /\ udr' = "empty"
  /\ sender' = CASE udr = "xon"  -> "sending"
                 [] udr = "xoff" -> "pausing"
                 [] OTHER        -> sender
  /\ UNCHANGED <<ringVars, mainVars, isr, said, line>>

-----------------------------------------------------------------------------
(* uart_rx_full: how far apart the positions are, which is not how many    *)
(* bytes there are once wpos has wrapped.                                  *)
Distant(r, w) == (IF r > w THEN r - w ELSE w - r) > Size \div 2

(* Mutant: a byte is stored into a full ring.                              *)
PutRegardless(b) ==
  /\ buffer' = [buffer EXCEPT ![wpos] = b]
  /\ wpos' = Following(wpos)
  /\ isr' = IF Distant(rpos, Following(wpos)) THEN "xoff" ELSE "idle"

(* Mutant: only a byte that was dropped makes the handler ask for a pause. *)
PutAlone(b) ==
  \/ /\ Full
     /\ isr' = "xoff"
     /\ UNCHANGED <<buffer, wpos>>
  \/ /\ ~Full
     /\ buffer' = [buffer EXCEPT ![wpos] = b]
     /\ wpos' = Following(wpos)
     /\ isr' = "idle"

(* ring_buffer_put answers 0 for a byte it drops and 1 for every one it    *)
(* stores, the last one included: its last comparison repeats its first.   *)
(* The handler goes on to xoff for a 0, and when uart_rx_full says so.     *)
Put(b) ==
  \/ /\ Full
     /\ isr' = "xoff"
     /\ UNCHANGED <<buffer, wpos>>
  \/ /\ ~Full
     /\ buffer' = [buffer EXCEPT ![wpos] = b]
     /\ wpos' = Following(wpos)
     /\ isr' = IF Distant(rpos, Following(wpos)) THEN "xoff" ELSE "idle"

(* ISR(USART_RX_vect)                                                      *)
Receive ==
  /\ isr = "idle"
  /\ line # <<>>
  /\ Put(Head(line))
  /\ line' = Tail(line)
  /\ UNCHANGED <<rpos, mainVars, udr, said, sender>>

(* xputchar in the handler: nobody comes between the test and the store.   *)
Xoff ==
  /\ isr = "xoff"
  /\ udr = "empty"
  /\ udr' = "xoff"
  /\ said' = "xoff"
  /\ isr' = "idle"
  /\ UNCHANGED <<ringVars, mainVars, sender, line>>

-----------------------------------------------------------------------------
(* uart_rb_getchar is called.                                              *)
Getchar ==
  /\ pc = "idle"
  /\ pc' = "test"
  /\ spinning' = FALSE
  /\ got' = NoByte
  /\ UNCHANGED <<ringVars, out, isr, portVars>>

(* The program writes a character of its own.                              *)
Putchar ==
  /\ pc = "idle"
  /\ pc' = "ready"
  /\ out' = "text"
  /\ UNCHANGED <<ringVars, spinning, got, isr, portVars>>

(* Mutant: getchar waits without asking for more.                          *)
NoXon ==
  /\ pc' = "test"
  /\ spinning' = TRUE
  /\ UNCHANGED out

(* Nothing to return: xon the first time, then the loop.                   *)
Nothing ==
  \/ ~spinning /\ pc' = "ready" /\ out' = "xon" /\ UNCHANGED spinning
  \/ spinning /\ pc' = "test" /\ UNCHANGED <<out, spinning>>

(* ring_buffer_get: test, read the byte, advance.                          *)
Test ==
  /\ pc = "test" /\ isr = "idle"
  /\ \/ Empty /\ Nothing
     \/ ~Empty /\ pc' = "read" /\ UNCHANGED <<out, spinning>>
  /\ UNCHANGED <<ringVars, got, isr, portVars>>

Read ==
  /\ pc = "read" /\ isr = "idle"
  /\ got' = buffer[rpos]
  /\ pc' = "advance"
  /\ UNCHANGED <<ringVars, spinning, out, isr, portVars>>

(* Mutant: the position does not wrap.                                     *)
AdvanceStraight ==
  /\ pc = "advance" /\ isr = "idle"
  /\ rpos' = 1 + rpos
  /\ pc' = "idle"
  /\ UNCHANGED <<wpos, buffer, spinning, out, got, isr, portVars>>

(* A byte above 0x7F comes out of the char buffer negative, and getchar    *)
(* takes it for an empty ring.                                             *)
Advance ==
  /\ pc = "advance" /\ isr = "idle"
  /\ rpos' = Following(rpos)
  /\ \/ got \in High /\ Nothing
     \/ got \notin High /\ pc' = "idle" /\ UNCHANGED <<out, spinning>>
  /\ UNCHANGED <<wpos, buffer, got, isr, portVars>>

(* Mutant: xputchar does not wait for UDRE0.                               *)
ReadyAtOnce ==
  /\ pc = "ready" /\ isr = "idle"
  /\ pc' = "write"
  /\ UNCHANGED <<ringVars, spinning, out, got, isr, portVars>>

(* xputchar in the main program: the handler may come between the test and *)
(* the store, and a store to a data register in use is ignored.            *)
Ready ==
  /\ pc = "ready" /\ isr = "idle"
  /\ udr = "empty"
  /\ pc' = "write"
  /\ UNCHANGED <<ringVars, spinning, out, got, isr, portVars>>

Write ==
  /\ pc = "write" /\ isr = "idle"
  /\ udr' = IF udr = "empty" THEN out ELSE udr
  /\ said' = CASE udr # "empty" \/ out # "xon" -> said
               [] Empty -> "xon"
               [] OTHER -> "late"
  /\ IF out = "xon" THEN pc' = "test" /\ spinning' = TRUE
                    ELSE pc' = "idle" /\ UNCHANGED spinning
  /\ UNCHANGED <<ringVars, out, got, isr, sender, line>>

Main == Test \/ Read \/ Advance \/ Ready \/ Write

Next ==
  \/ \E b \in Bytes : Send(b)
  \/ Transmit \/ Receive \/ Xoff
  \/ Getchar \/ Putchar \/ Main

(* The transmitter and the handler run; after a handler the processor      *)
(* always executes an instruction of the main program, so no storm of      *)
(* interrupts stops it; and the interpreter keeps reading.                 *)
Fairness ==
  /\ WF_uartVars(Transmit) /\ WF_uartVars(Receive) /\ WF_uartVars(Xoff)
  /\ SF_uartVars(Main) /\ SF_uartVars(Getchar)

Spec == Init /\ [][Next]_uartVars /\ Fairness

-----------------------------------------------------------------------------
UartTypeOK ==
  /\ rpos \in Positions /\ wpos \in Positions
  /\ buffer \in [Positions -> Bytes \cup {NoByte}]
  /\ pc \in {"idle", "test", "read", "advance", "ready", "write"}
  /\ spinning \in BOOLEAN
  /\ out \in {"text", "xon"}
  /\ got \in Bytes \cup {NoByte}
  /\ isr \in {"idle", "xoff"}
  /\ udr \in {"empty", "text", "xon", "xoff"}
  /\ said \in {"xon", "xoff", "late"}
  /\ sender \in {"sending", "pausing"}
  /\ line \in Seq(Bytes) /\ Len(line) <= MaxLine

Count == (wpos - rpos) % Size
Contents == [k \in 1 .. Count |-> buffer[(rpos + k - 1) % Size]]
Taken == IF pc = "advance" THEN NoByte ELSE got

Queue == INSTANCE Channel WITH
  Msgs <- Bytes, NoMsg <- NoByte, Capacity <- Size - 1,
  queue <- Contents, taken <- Taken

(* Whatever the handler does between two accesses of the main program,     *)
(* ring_buffer_get takes the stored bytes in order, each once.             *)
UartQueue == Queue!Spec

(* What ring_buffer_put's last comparison, and the test that prints        *)
(* "Filled" at an answer of 0, are for: a ring that is full has been       *)
(* announced to the sender, so that a byte is dropped only if it was       *)
(* already on its way.  An xon that was decided on before bytes came in is *)
(* left aside.  The code does not keep it: wpos may come round from behind *)
(* without ever being more than half the size away from rpos.              *)
FullIsAnnounced == Full /\ isr = "idle" => said # "xon"

(* What it does keep: a ring that is full without an announcement has its  *)
(* read position in the upper half, whatever the main program read while   *)
(* the handler filled it.  Below, wpos has been too far away on its way to *)
(* the end of the buffer.                                                  *)
LowerHalf == 0 .. Size - 2 - Size \div 2
LowerHalfAnnounced ==
  Full /\ isr = "idle" /\ rpos \in LowerHalf => said # "xon"

(* The main program never waits for a sender that waits for it: not when   *)
(* an xoff overtakes an xon, nor when a character is lost because the      *)
(* handler used the transmitter between xputchar's test and its store.     *)
(* The exception is a loop that has discarded bytes above 0x7F: it may     *)
(* have emptied the ring without saying xon.                               *)
NoStandoff ==
  (pc = "test" /\ spinning /\ got \notin High /\ Empty /\ isr = "idle"
     /\ line = <<>>)
    => sender = "sending" \/ udr = "xon"

(* A sender that pauses goes on some time, unless it sends bytes above     *)
(* 0x7F for ever.                                                          *)
AsciiOnly ==
  /\ \A k \in DOMAIN Contents : Contents[k] \notin High
  /\ \A k \in DOMAIN line : line[k] \notin High
  /\ got \notin High
SenderResumes == <>[]AsciiOnly => (sender = "pausing" ~> sender = "sending")
=============================================================================
