------------------------------ MODULE SosDisplay ------------------------------
(***************************************************************************)
(* display_sos_led_matrix, the last thing task 2 does: the framebuffer of  *)
(* the Sense HAT is looked for by name, and SOS scrolls over its 8 x 8     *)
(* pixels.  Every call of the system may fail, a write may be short or     *)
(* interrupted.                                                            *)
(***************************************************************************)
EXTENDS Integers

CONSTANT Framebuffers     \* how many devices are looked at

ASSUME FramebuffersAssumption == Framebuffers \in Nat

VARIABLES
  names,        \* of each device its name file: missing, empty or with a name
  pc,
  index,        \* the device looked at
  name_file,    \* number of open name files
  framebuffer,  \* number of open framebuffers
  message_x,    \* where the left edge of the message is
  drawn,        \* pixels of the frame written so far
  shown,        \* the pixels that are lit
  failed        \* that a frame of the message could not be written

led_vars == <<names, pc, index, name_file, framebuffer, message_x, drawn, shown, failed>>

MATRIX_WIDTH == 8
MATRIX_HEIGHT == 8
MESSAGE_WIDTH == 11
Size == MATRIX_WIDTH * MATRIX_HEIGHT

sos == << <<1, 1, 1, 0, 1, 1, 1, 0, 1, 1, 1>>,
          <<1, 0, 0, 0, 1, 0, 1, 0, 1, 0, 0>>,
          <<1, 1, 1, 0, 1, 0, 1, 0, 1, 1, 1>>,
          <<0, 0, 1, 0, 1, 0, 1, 0, 0, 0, 1>>,
          <<1, 1, 1, 0, 1, 1, 1, 0, 1, 1, 1>> >>

Letters == {p \in (0 .. MESSAGE_WIDTH - 1) \X (0 .. 4) : sos[p[2] + 1][p[1] + 1] = 1}

\* What an earlier run has left on the LEDs is taken as nothing.
LedInit ==
  /\ names \in [0 .. Framebuffers - 1 -> {"missing", "empty", "other", "sense"}]
  /\ pc = "search" /\ index = 0
  /\ name_file = 0 /\ framebuffer = 0
  /\ message_x = MATRIX_WIDTH /\ drawn = 0
  /\ shown = {} /\ failed = FALSE

-----------------------------------------------------------------------------
(* open_sense_hat_framebuffer *)

Goto(step, next) == pc = step /\ pc' = next

\* fopen of the name of a device, which may fail though there is one.
OpenName ==
  /\ index < Framebuffers /\ pc = "search"
  /\ \/ names[index] # "missing" /\ pc' = "name" /\ name_file' = name_file + 1
        /\ UNCHANGED index
     \/ pc' = "search" /\ index' = index + 1 /\ UNCHANGED name_file
  /\ UNCHANGED <<names, framebuffer, message_x, drawn, shown, failed>>

NamesClosed == 1

\* fgets and fclose.
ReadName ==
  /\ pc = "name"
  /\ name_file' = name_file - NamesClosed
  /\ IF names[index] = "sense" THEN pc' = "open" /\ UNCHANGED index
                               ELSE pc' = "search" /\ index' = index + 1
  /\ UNCHANGED <<names, framebuffer, message_x, drawn, shown, failed>>

\* Mutant: the device that could not be opened is tried again.
AfterFailedOpenAgain == index
AfterFailedOpen == index + 1

OpenFramebuffer ==
  /\ pc = "open"
  /\ \/ pc' = "frame" /\ framebuffer' = framebuffer + 1 /\ UNCHANGED index
     \/ pc' = "search" /\ index' = AfterFailedOpen /\ UNCHANGED framebuffer
  /\ UNCHANGED <<names, name_file, message_x, drawn, shown, failed>>

NotFound ==
  /\ index = Framebuffers /\ Goto("search", "returned")
  /\ UNCHANGED <<names, index, name_file, framebuffer, message_x, drawn, shown, failed>>

-----------------------------------------------------------------------------
(* create_scroll_frame and write_frame *)

\* Mutant: what is right of the matrix is not cut off.
OnScreenRight(screen_x) == screen_x >= 0
OnScreen(screen_x) == screen_x >= 0 /\ screen_x < MATRIX_WIDTH

\* pixels[y + 1][message_x + x], by index in memory.
Pixels == {MATRIX_WIDTH * (p[2] + 1) + message_x + p[1] :
             p \in {q \in Letters : OnScreen(message_x + q[1])}}

\* Mutant: the last frame is the one before the message has left the matrix.
ScrollsOnEarly == message_x > 1 - MESSAGE_WIDTH
ScrollsOn == message_x > -MESSAGE_WIDTH

Frame == IF pc = "clear" THEN {} ELSE Pixels
Writing == pc \in {"frame", "clear"}

\* lseek and write: of n pixels, or of none (EINTR).
WritePixels ==
  /\ Writing /\ drawn < Size
  /\ \E n \in {0, 1, (Size - drawn) \div 2, Size - drawn} :
       LET now == drawn .. drawn + n - 1
       IN  /\ drawn' = drawn + n
           /\ shown' = (shown \ now) \cup (Frame \cap now)
  /\ UNCHANGED <<names, pc, index, name_file, framebuffer, message_x, failed>>

\* The message is given up; of the clearing at the end the result is ignored.
WriteFails ==
  /\ Writing /\ drawn < Size
  /\ pc' = "close"
  /\ failed' = (failed \/ pc = "frame")
  /\ UNCHANGED <<names, index, name_file, framebuffer, message_x, drawn, shown>>

\* nanosleep, and the next frame.
NextFrame ==
  /\ pc = "frame" /\ drawn = Size
  /\ drawn' = 0
  /\ IF ScrollsOn THEN message_x' = message_x - 1 /\ UNCHANGED pc
                  ELSE pc' = "clear" /\ UNCHANGED message_x
  /\ UNCHANGED <<names, index, name_file, framebuffer, shown, failed>>

Cleared ==
  /\ drawn = Size /\ Goto("clear", "close")
  /\ UNCHANGED <<names, index, name_file, framebuffer, message_x, drawn, shown, failed>>

CloseFramebuffer ==
  /\ Goto("close", "returned")
  /\ framebuffer' = framebuffer - 1
  /\ UNCHANGED <<names, index, name_file, message_x, drawn, shown, failed>>

LedNext ==
  \/ OpenName \/ ReadName \/ OpenFramebuffer \/ NotFound
  \/ WritePixels \/ WriteFails \/ NextFrame \/ Cleared \/ CloseFramebuffer

\* Task 2 goes on, and a write is not interrupted for ever.
LedSpec == LedInit /\ [][LedNext]_led_vars /\ WF_led_vars(LedNext)

-----------------------------------------------------------------------------

\* A frame completely written shows the part of the message that is over the
\* matrix, one row below its top, and nothing else: no letter wraps around into
\* another row and no pixel of the frame before stays lit.
ShowsWindow ==
  pc = "frame" /\ drawn = Size =>
    \A x \in 0 .. MATRIX_WIDTH - 1, y \in 0 .. MATRIX_HEIGHT - 1 :
      MATRIX_WIDTH * y + x \in shown <=>
        /\ x - message_x \in 0 .. MESSAGE_WIDTH - 1 /\ y \in 1 .. 5
        /\ sos[y][x - message_x + 1] = 1

\* No descriptor is open that the step does not need, whatever fails, and once
\* all of the message has been shown the matrix is dark, also when the clearing
\* at the end fails.
EndsClean ==
  /\ name_file = (IF pc = "name" THEN 1 ELSE 0)
  /\ framebuffer = (IF pc \in {"frame", "clear", "close"} THEN 1 ELSE 0)
  /\ pc = "returned" /\ ~failed => shown = {}

\* Task 2 ends, so that the main program can join it.
Ends == <>(pc = "returned")

=============================================================================
