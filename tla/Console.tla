------------------------------- MODULE Console -------------------------------
(***************************************************************************)
(* The terminal on its screen: Tty composed with what draws its characters *)
(* (kernel/graphics), the keyboard interrupt that feeds it                 *)
(* (drivers/keyboard.c) and the page-fault handler (kernel/idt/idt.c),     *)
(* which reports through the same terminal.                                *)
(*                                                                         *)
(* Of a glyph the model keeps the lowest row with a pixel, -1 for one      *)
(* without.  put_pixel tests its coordinates with `x >= width && x < 0',   *)
(* which is never true: it writes wherever it is told to, and a page that  *)
(* is not mapped faults, in the middle of whatever the kernel was doing.   *)
(***************************************************************************)
EXTENDS Tty

CONSTANTS
  W_SPACE, H_SPACE,           \* DEFAULT_WIDTH_SPACING, DEFAULT_HEIGHT_SPACING
  FB_WIDTH, FB_HEIGHT, PITCH, \* the framebuffer the boot loader set up
  GLYPH_WIDTH, GLYPH_HEIGHT,  \* the font's psf2.width and psf2.height
  Ink,                        \* the lowest row with a pixel of each character
  PAGE,
  PageFault, KernelCrash, Terminating   \* the lines of exception_handler

ASSUME ConsoleAssumption ==
  /\ {W_SPACE, H_SPACE, FB_WIDTH, FB_HEIGHT, PITCH, GLYPH_WIDTH, GLYPH_HEIGHT, PAGE}
       \subseteq Nat \ {0}
  /\ Ink \in [Char \ {NL} -> -1 .. GLYPH_HEIGHT - 1]
  /\ {PageFault, KernelCrash, Terminating} \subseteq Seq(Char)

VARIABLES
  status       \* "up", "halted" by the fault handler, or "recursing": in a
               \* page fault whose handler faults in turn

allvars == <<vars, status>>

-----------------------------------------------------------------------------
Slip_mapped_bytes == ((FB_WIDTH * FB_HEIGHT) \div PAGE) * PAGE

(* init_video_memory maps whole pages from FRAMEBUFFER_ADDR on. *)
mapped_bytes == ((PITCH * FB_HEIGHT) \div PAGE) * PAGE

(* put_pixel: where the pixel ends. *)
pixel_end(x, y) == y * PITCH + 4 * x + 4

(* put_char: the last pixel of the glyph lies in memory that is not mapped. *)
put_char_faults(x, y, c) ==
  Ink[c] >= 0 /\ pixel_end(x + GLYPH_WIDTH - 1, y + Ink[c]) > mapped_bytes

(* The places of text at which terminal_putchar faults, before it moves the    *)
(* cursor. *)
Faults(cur, text) ==
  {i \in 1 .. Len(text) :
     /\ text[i] # NL
     /\ put_char_faults(Cursors(cur, text)[i][2] * W_SPACE, Cursors(cur, text)[i][1] * H_SPACE,
                        text[i])}

(* Where the cursor is once text is written, or has faulted. *)
Stops(cur, text) ==
  LET f == Faults(cur, text)
  IN Cursors(cur, text)[IF f = {} THEN Len(text) + 1 ELSE CHOOSE i \in f : \A j \in f : i <= j]

(* exception_handler for a fault in ring 0 with the cursor at cur: it halts    *)
(* after its report.  Should that fault, the handler is entered again with the *)
(* cursor where it is, and again. *)
kernel_fault(cur) ==
  LET report == PageFault \o KernelCrash
  IN /\ Stops(cur, report)[1] <= ROW_BOUND
     /\ terminal_row' = Stops(cur, report)[1]
     /\ terminal_column' = Stops(cur, report)[2]
     /\ status' = IF Faults(cur, report) = {} THEN "halted" ELSE "recursing"
     /\ UNCHANGED <<buffer, echo, waiters>>

(* Code in ring 0 faults while it writes text. *)
faults_writing(text) ==
  /\ Faults(cursor, text) # {}
  /\ kernel_fault(Stops(cursor, text))

-----------------------------------------------------------------------------
(* A key with a character other than `t'. *)
key_char ==
  \E c \in Char :
    \/ /\ ~echo
       /\ store_and_wake(c)
       /\ UNCHANGED <<echo, cursor, status>>
    \/ /\ echo /\ Faults(cursor, <<c>>) = {}
       /\ terminal_write(<<c>>)
       /\ store_and_wake(c)
       /\ UNCHANGED <<echo, status>>
    \/ echo /\ faults_writing(<<c>>)

(* A key without one: the table has NULL there, or ends before it, and then    *)
(* what lies behind it is no pointer, or one to some character. *)
key_odd == kernel_fault(cursor) \/ key_char

(* keyboard_interrupt_handler; the release of a key does nothing, and `t'      *)
(* starts a task and draws nothing. *)
keyboard_interrupt_handler == status = "up" /\ key_odd

(* terminal_write from a handler that does nothing else here. *)
output(text) ==
  \/ /\ Faults(cursor, text) = {}
     /\ terminal_write(text)
     /\ UNCHANGED <<buffer, echo, waiters, status>>
  \/ faults_writing(text)

write == status = "up" /\ \E s \in Text : output(s)

read == status = "up" /\ sys_read /\ UNCHANGED status

ioctl == status = "up" /\ sys_ioctl /\ UNCHANGED status

(* exception_handler for a fault of a ring-3 task, which it ends. *)
exception_handler == status = "up" /\ output(PageFault \o Terminating)

ConsoleInit == Init /\ status = "up"

ConsoleNext == keyboard_interrupt_handler \/ write \/ read \/ ioctl \/ exception_handler

ConsoleSpec == ConsoleInit /\ [][ConsoleNext]_allvars
-----------------------------------------------------------------------------
(* A fault of the kernel is reported as long as the cursor is on the           *)
(* terminal's rows.  Below them, where newlines take it for ever               *)
(* (tty.c:67-80), the handler's own text may fault, and it is entered again    *)
(* until the stack is used up (idt.c:26, framebuffer.c:53). *)
RecursesOnlyBelow ==
  status = "recursing" =>
    /\ terminal_row >= HEIGHT
    /\ terminal_row * H_SPACE + GLYPH_HEIGHT > FB_HEIGHT
=============================================================================
