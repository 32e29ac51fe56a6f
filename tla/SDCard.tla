------------------------------- MODULE SDCard -------------------------------
(***************************************************************************)
(* The SD card of the simulator (sim/sim.c, devices 4 and 5), and Disk.Mod, *)
(* which moves sectors of the file system over it, one exchange of a byte   *)
(* or a word at a time.  Between two exchanges the simulator may be ended   *)
(* and started again, or halted and told to go on in another program. A     *)
(* word is a number below 256, which is all that tests on words look at; a   *)
(* sector of the file system is two blocks of the card of K words. Exchanges *)
(* with no card selected (SPIIdle) leave no trace and are left out.          *)
(***************************************************************************)
EXTENDS Integers, Sequences

CONSTANTS
  K,            \* words in a block (128)
  Polls,        \* exchanges that SPICmd waits for an answer (32)
  Tries,        \* exchanges that WriteSD waits for one (10000)
  FSoffset,     \* block where the file system begins
  Sectors,      \* sectors in use
  Buffers,      \* what is put into them: pairs of blocks
  MaxCalls,     \* bound (checking only): calls of GetSector and PutSector
  MaxStops      \* bound (checking only): times the simulator or its program is stopped

ASSUME SDCardAssumption ==
  /\ K \in Nat \ {0} /\ Polls \in Nat \ {0} /\ Tries \in Nat \ {0} /\ FSoffset \in Nat
  /\ Buffers \subseteq [{0, 1} -> [1 .. K -> 0 .. 255]] /\ Buffers # {} /\ Sectors \subseteq Nat

VARIABLES
  card,      \* state, rxBuf, txBuf, txIdx; pos, the sector sought; error: the simulator has ended
  image,     \* the disk image: blocks
  drv,       \* the driver: its call, the place in it, data, and what is read or written
  allowed,   \* history: what each block may hold
  lost,      \* history: a program was stopped where the card cannot be brought back
  calls, stops

sdVars == << card, image, drv, allowed, lost, calls, stops >>

FF == 255
Blocks == {FSoffset + 2 * s + h : s \in Sectors, h \in {0, 1}}

----------------------------------------------------------------------------
(* The card: each operator takes it to its next state.                       *)

diskInit == [state |-> "CMD", rxBuf |-> << >>, txBuf |-> << >>, txIdx |-> 0, pos |-> 0, error |-> FALSE]
Answer(c, words) == [c EXCEPT !.rxBuf = << >>, !.txBuf = words, !.txIdx = -1]
(* Far behind the end of the answer the index is not counted on.             *)
Counted(c) == [c EXCEPT !.txIdx = IF @ > Len(c.txBuf) THEN @ ELSE @ + 1]

csd == << 64, 14, 0, 50, 91, 89, 0, 0, 0, 0, 127, 128, 10, 64, 64, 195 >>

(* rx holds the six words of the command; of the block, the low two bytes.    *)
diskRunCmd(c, rx) ==
  LET arg == rx[4] * 256 + rx[5]
  IN CASE rx[1] = 64 + 9 -> Answer([c EXCEPT !.state = "READ"], << 0, 254 >> \o csd)
       [] rx[1] = 64 + 17 /\ arg \in DOMAIN image ->
            Answer([c EXCEPT !.state = "READ", !.pos = arg], << 0, 254 >> \o image[arg])
       [] rx[1] = 64 + 17 /\ arg \notin DOMAIN image -> [c EXCEPT !.error = TRUE]
       [] rx[1] = 64 + 24 -> Answer([c EXCEPT !.state = "WRT0", !.pos = arg], << 0 >>)
       [] OTHER -> Answer(c, << 0 >>)

diskRead(c) == IF c.txIdx \in 0 .. Len(c.txBuf) - 1 THEN c.txBuf[c.txIdx + 1] ELSE FF

diskWrite(c, value) ==
  LET next == Counted(c)
      rx == Append(c.rxBuf, value)
  IN CASE c.state = "CMD" ->
            IF value = FF /\ c.rxBuf = << >> THEN next
            ELSE IF Len(rx) = 6 THEN diskRunCmd(next, rx) ELSE [next EXCEPT !.rxBuf = rx]
       [] c.state = "READ" ->
            IF next.txIdx = Len(c.txBuf) THEN [next EXCEPT !.state = "CMD", !.txBuf = << >>, !.txIdx = 0] ELSE next
       [] c.state = "WRT0" -> IF value = 254 THEN [next EXCEPT !.state = "WRT1"] ELSE next
       [] c.state = "WRT1" ->
            IF Len(rx) = K + 2 THEN Answer([c EXCEPT !.state = "CMD"], << 5 >>) ELSE [next EXCEPT !.rxBuf = rx]

(* diskWriteSector: the last word of the block has come, the checksum has not. *)
diskWriteSector(c) ==
  IF c.state = "WRT1" /\ Len(c.rxBuf) = K
  THEN [b \in DOMAIN image \cup {c.pos} |-> IF b = c.pos THEN c.rxBuf ELSE image[b]] ELSE image

(* Write spiData and read it, the card being selected: what is read is taken   *)
(* by the driver's step.                                                       *)
Exchange(value) ==
  /\ ~card.error
  /\ card' = diskWrite(card, value)
  /\ image' = diskWriteSector(card')
  /\ UNCHANGED << lost, calls, stops >>
Received(value) == diskRead(diskWrite(card, value))

----------------------------------------------------------------------------
(* The driver. at is the place in the call; n counts the exchanges there.     *)

NoCall == [call |-> "none", at |-> "idle", sector |-> 0, half |-> 0, block |-> 0,
         cmd |-> 58, n |-> 0, buf |-> << >>, src |-> << >>]
Go(at) == [drv EXCEPT !.at = at, !.n = 0]
Begin(d, half) ==
  [d EXCEPT !.at = "flush", !.half = half, !.block = FSoffset + 2 * d.sector + half, !.cmd = 58, !.n = 0]

SDInit ==
  /\ card = diskInit /\ drv = NoCall /\ lost = FALSE /\ calls = 0 /\ stops = 0
  /\ \E b \in Buffers : image = [k \in Blocks |-> b[(k - FSoffset) % 2]]
  /\ allowed = [b \in Blocks |-> {image[b]}]

Free == drv.at \in {"idle", "trap"} /\ ~card.error /\ calls < MaxCalls /\ calls' = calls + 1
GetSector(s) ==
  /\ Free
  /\ drv' = Begin([NoCall EXCEPT !.call = "get", !.sector = s], 0)
  /\ UNCHANGED << card, image, allowed, lost, stops >>
PutSector(s, src) ==
  /\ Free
  /\ drv' = Begin([NoCall EXCEPT !.call = "put", !.sector = s, !.src = src], 0)
  /\ allowed' = [b \in DOMAIN allowed |-> IF b - FSoffset \in {2 * s, 2 * s + 1}
                                  THEN allowed[b] \cup {src[(b - FSoffset) % 2]} ELSE allowed[b]]
  /\ UNCHANGED << card, image, lost, stops >>

(* SPICmd, after SPIIdle: flush while selected, send the command, wait for     *)
(* the answer.                                                                 *)
SPICmdFlush_Once ==
  drv.at = "flush" /\ Exchange(FF) /\ drv' = Go("send") /\ UNCHANGED allowed
SPICmdFlush ==
  /\ drv.at = "flush" /\ Exchange(FF)
  /\ drv' = IF Received(FF) = FF THEN Go("send") ELSE drv
  /\ UNCHANGED allowed
SPICmdSend ==
  /\ drv.at = "send"
  /\ LET arg == IF drv.cmd = 58 THEN 0 ELSE drv.block
         words == << 64 + drv.cmd, 0, 0, arg \div 256, arg % 256, FF >>
     IN Exchange(words[drv.n + 1])
  /\ drv' = IF drv.n < 5 THEN [drv EXCEPT !.n = @ + 1] ELSE Go("poll")
  /\ UNCHANGED allowed
SPICmdPoll ==
  /\ drv.at = "poll" /\ Exchange(FF)
  /\ LET data == Received(FF)
     IN drv' = CASE data >= 128 /\ drv.n + 1 < Polls -> [drv EXCEPT !.n = @ + 1]
                 [] (data < 128 \/ drv.n + 1 = Polls) /\ drv.cmd = 58 -> Go("capacity")
                 [] (data < 128 \/ drv.n + 1 = Polls) /\ drv.cmd # 58 ->
                      Go(IF data # 0 THEN "trap" ELSE IF drv.call = "get" THEN "marker" ELSE "start")
  /\ UNCHANGED allowed

(* The rest of SDShift: the first byte of the capacity is looked at before and  *)
(* after an exchange; the block becomes a byte address unless it says SDHC.     *)
SDShift ==
  /\ drv.at = "capacity" /\ Exchange(FF)
  /\ LET sdhc == diskRead(card) = 0 /\ (Received(FF) \div 64) % 2 = 1
     IN drv' = CASE drv.n = 0 -> [drv EXCEPT !.n = 1, !.block = IF sdhc THEN @ ELSE @ * 512]
                 [] drv.n = 1 -> [drv EXCEPT !.n = 2]
                 [] drv.n = 2 -> [Go("flush") EXCEPT !.cmd = IF drv.call = "get" THEN 17 ELSE 24]
  /\ UNCHANGED allowed

ReadSDMarker ==
  /\ drv.at = "marker" /\ Exchange(FF)
  /\ drv' = IF Received(FF) = 254 THEN Go("words") ELSE drv
  /\ UNCHANGED allowed
ReadSDWords ==
  /\ drv.at = "words" /\ drv.call = "get" /\ Exchange(FF)
  /\ drv' = [(IF drv.n + 1 < K THEN [drv EXCEPT !.n = @ + 1] ELSE Go("checksum"))
               EXCEPT !.buf = Append(@, Received(FF))]
  /\ UNCHANGED allowed
ReadSDEnd ==
  /\ drv.at = "checksum" /\ drv.call = "get" /\ Exchange(FF)
  /\ drv' = CASE drv.n = 0 -> [drv EXCEPT !.n = 1]
              [] drv.n = 1 /\ drv.half = 0 -> Begin(drv, 1)
              [] drv.n = 1 /\ drv.half = 1 -> Go("idle")
  /\ UNCHANGED allowed

WriteSDStart ==
  /\ drv.at = "start" /\ Exchange(254) /\ drv' = Go("words") /\ UNCHANGED allowed
WriteSDWords ==
  /\ drv.at = "words" /\ drv.call = "put" /\ Exchange(drv.src[drv.half][drv.n + 1])
  /\ drv' = IF drv.n + 1 < K THEN [drv EXCEPT !.n = @ + 1] ELSE Go("checksum")
  /\ UNCHANGED allowed
WriteSDChecksum ==
  /\ drv.at = "checksum" /\ drv.call = "put" /\ Exchange(FF)
  /\ drv' = IF drv.n = 0 THEN [drv EXCEPT !.n = 1] ELSE Go("response")
  /\ UNCHANGED allowed
WriteSDResponse ==
  /\ drv.at = "response" /\ Exchange(FF)
  /\ LET ok == Received(FF) % 32 = 5
         b == FSoffset + 2 * drv.sector + drv.half
     IN /\ drv' = CASE ~ok /\ drv.n + 1 < Tries -> [drv EXCEPT !.n = @ + 1]
                    [] ~ok /\ drv.n + 1 = Tries -> Go("trap")
                    [] ok /\ drv.half = 0 -> Begin(drv, 1)
                    [] ok /\ drv.half = 1 -> Go("idle")
        /\ allowed' = IF ok THEN [allowed EXCEPT ![b] = {drv.src[drv.half]}] ELSE allowed

----------------------------------------------------------------------------
(* The program is stopped at the console and another one started: the card     *)
(* stays as it is. Whatever comes next is taken for the rest of a command, or of *)
(* a block that is written; of a block that is read, SPICmd flushes the rest, but *)
(* stops at a word of 255.                                                       *)
StopProgram ==
  /\ stops < MaxStops /\ stops' = stops + 1 /\ drv.at # "idle" /\ ~card.error
  /\ drv' = NoCall
  /\ lost' = \/ lost \/ card.rxBuf # << >> \/ card.state \in {"WRT0", "WRT1"}
             \/ card.state = "READ" /\ \E k \in DOMAIN card.txBuf : card.txBuf[k] = FF
  /\ UNCHANGED << card, image, allowed, calls >>

(* The simulator is ended and started again: the image is what is left.       *)
Restart ==
  /\ stops < MaxStops /\ stops' = stops + 1
  /\ drv' = NoCall /\ card' = diskInit /\ lost' = FALSE
  /\ allowed' = IF lost THEN [b \in DOMAIN image |-> {image[b]}] ELSE allowed
  /\ UNCHANGED << image, calls >>

SDNext ==
  \/ \E s \in Sectors : GetSector(s) \/ \E src \in Buffers : PutSector(s, src)
  \/ SPICmdFlush \/ SPICmdSend \/ SPICmdPoll \/ SDShift
  \/ ReadSDMarker \/ ReadSDWords \/ ReadSDEnd
  \/ WriteSDStart \/ WriteSDWords \/ WriteSDChecksum \/ WriteSDResponse
  \/ StopProgram \/ Restart
SDSpec == SDInit /\ [][SDNext]_sdVars

----------------------------------------------------------------------------
(* Every block of the image holds what was put there last, or, of a call that   *)
(* did not come to its end, what it held before; what GetSector returns is what *)
(* the image holds; and no assertion fails and the simulator goes on, whatever  *)
(* reads and commands were stopped before: SPICmd, ReadSD, WriteSD, diskWrite.  *)
CardKeepsBlocks ==
  ~lost =>
    /\ drv.at # "trap" /\ ~card.error
    /\ DOMAIN image = DOMAIN allowed /\ \A b \in DOMAIN image : image[b] \in allowed[b]
    /\ drv.call = "get" /\ drv.at = "idle" =>
         drv.buf = image[FSoffset + 2 * drv.sector] \o image[FSoffset + 2 * drv.sector + 1]
=============================================================================
