----------------------------- MODULE SlideShow -----------------------------
(***************************************************************************)
(* The slide show, app_slideshow.c: a task blends pictures and icons into  *)
(* the frame buffer that is not displayed, one DMA2D transfer at a time,   *)
(* waits for each on a semaphore that the transfer's interrupt gives, and  *)
(* then swaps the buffers.  Positions and offsets are in pixels.  The      *)
(* task's arrays are on its stack, where it writes past the end of one.    *)
(***************************************************************************)
EXTENDS Integers, Sequences

CONSTANTS
    LCD_X_SIZE, LCD_Y_SIZE,
    NUM_IMAGES,
    AlphaLength,   \* elements of imagesAlpha
    AlphaByte,     \* values of a byte: 256 in the code
    ImageAt,       \* of each picture: its address, in bytes
    IconAt,        \* of each icon: its address
    IconX, IconY,  \* of each icon: the column and the row where it begins
    IconW, IconH,  \* of each icon: its width and height
    IconMargin     \* how far an icon leaves the screen

NUM_ICONS == 3

ASSUME ShowAssumption ==
    /\ LCD_X_SIZE \in Nat \ {0} /\ LCD_Y_SIZE \in Nat \ {0}
    /\ NUM_IMAGES \in Nat /\ AlphaLength \in Nat /\ IconMargin \in Nat
    /\ NUM_IMAGES <= AlphaLength + 2
    /\ AlphaByte \in Nat \ {0}
    /\ ImageAt \in Seq(Int) /\ Len(ImageAt) = NUM_IMAGES
    /\ \A words \in {IconAt, IconX, IconY, IconW, IconH} :
          words \in Seq(Int) /\ Len(words) = NUM_ICONS

VARIABLES
    show,          \* where the task stands
    img,           \* i: the picture or icon at hand, from 1
    local,         \* the words of the task's arrays
    behind,        \* the word that the compiler put behind imagesAlpha
    frameBuffer,   \* 0 or 1: the buffer the task draws into
    shown,         \* the buffer on display
    dma2d,         \* the transfer that runs, or Idle
    xBinSem,       \* xBinSem_DMA2DCompleted: 1 when given
    due, drawn     \* histories, per buffer: transfers of its frame asked for, done

showVars == <<show, img, local, behind, frameBuffer, shown, dma2d, xBinSem, due, drawn>>

Idle == [to |-> 2]

IconArrays == {"icons", "icons_x", "icons_y", "icons_size_x", "icons_size_y"}

Words == ({"images"} \X (1 .. NUM_IMAGES)) \union (IconArrays \X (1 .. NUM_ICONS))

Elsewhere == <<"elsewhere", 0>>

(* What the arrays are initialised with.                                   *)
Given(word) ==
    LET i == word[2]
    IN  CASE word[1] = "images"       -> ImageAt[i]
          [] word[1] = "icons"        -> IconAt[i]
          [] word[1] = "icons_x"      -> IconX[i]
          [] word[1] = "icons_y"      -> IconY[i]
          [] word[1] = "icons_size_x" -> IconW[i]
          [] OTHER                    -> IconH[i]

-----------------------------------------------------------------------------
(* myClip: what of a picture of w by h pixels at x, y is drawn, and from    *)
(* which of its pixels on.                                                 *)
Cut(at, size, screen) ==
    LET start  == IF at < 0 THEN 0 ELSE at
        length == IF at < 0 THEN size + at ELSE size
    IN  [start |-> start,
         skip  |-> start - at,
         size  |-> IF screen - 1 < start + length THEN screen - 1 - start ELSE length]

Clip(x, y, w, h) ==
    LET across == Cut(x, w, LCD_X_SIZE)
        down   == Cut(y, h, LCD_Y_SIZE)
    IN  [x |-> across.start, y |-> down.start, w |-> across.size, h |-> down.size,
         from |-> across.skip + w * down.skip]

Hidden(clip) == clip.w <= 0 \/ clip.h <= 0

WholeScreen == [x |-> 0, y |-> 0, w |-> LCD_X_SIZE, h |-> LCD_Y_SIZE, from |-> 0]

(* Mutant: vStartSlideShowTask leaves the semaphore as it was created.     *)
ShowInitGiven ==
    /\ show = "image" /\ img = 1
    /\ local = [word \in Words |-> Given(word)] /\ behind \in Words \union {Elsewhere}
    /\ frameBuffer = 1 /\ shown = 0
    /\ dma2d = Idle
    /\ xBinSem = 1
    /\ due = [b \in {0, 1} |-> <<>>] /\ drawn = [b \in {0, 1} |-> <<>>]

ShowInit ==
    /\ show = "image" /\ img = 1
    /\ local = [word \in Words |-> Given(word)] /\ behind \in Words \union {Elsewhere}
    /\ frameBuffer = 1 /\ shown = 0
    /\ dma2d = Idle
    /\ xBinSem = 0
    /\ due = [b \in {0, 1} |-> <<>>] /\ drawn = [b \in {0, 1} |-> <<>>]

-----------------------------------------------------------------------------
(* HAL_DMA2D_BlendingStart_IT refuses while a transfer runs; the result is  *)
(* ignored.  The task then waits without time-out.                         *)
Start(name, at, clip) ==
    /\ due' = [due EXCEPT ![frameBuffer] = Append(@, name)]
    /\ dma2d' = IF dma2d = Idle
                THEN [to |-> frameBuffer, name |-> name, at |-> at, clip |-> clip]
                ELSE dma2d
    /\ UNCHANGED <<frameBuffer, shown, xBinSem, drawn>>

Wait ==
    /\ xBinSem = 1
    /\ xBinSem' = 0
    /\ UNCHANGED <<frameBuffer, shown, dma2d, due, drawn>>

(* A byte of a word, 0 the lowest, is incremented by 2 and may wrap.       *)
ByteUp(v, k) ==
    LET weight == IF k = 0 THEN 1 ELSE AlphaByte
        byte   == (v \div weight) % AlphaByte
    IN  v + (((byte + 2) % AlphaByte) - byte) * weight

(* imagesAlpha[i] beyond the array is read and incremented all the same:   *)
(* the lowest bytes of the word behind it.                                 *)
AlphaIncrement ==
    local' = IF img > AlphaLength /\ behind # Elsewhere
               THEN [local EXCEPT ![behind] = ByteUp(@, img - AlphaLength - 1)]
               ELSE local

BlendImage ==
    /\ show = "image" /\ img <= NUM_IMAGES
    /\ show' = "imageWait"
    /\ Start(<<"image", img>>, local[<<"images", img>>], WholeScreen)
    /\ AlphaIncrement
    /\ UNCHANGED <<img, behind>>

ImageDone ==
    /\ show = "imageWait"
    /\ Wait
    /\ show' = "image" /\ img' = img + 1
    /\ UNCHANGED <<local, behind>>

FirstIcon ==
    /\ show = "image" /\ img > NUM_IMAGES
    /\ show' = "icon" /\ img' = 1
    /\ UNCHANGED <<local, behind, frameBuffer, shown, dma2d, xBinSem, due, drawn>>

IconClip ==
    Clip(local[<<"icons_x", img>>], local[<<"icons_y", img>>],
         local[<<"icons_size_x", img>>], local[<<"icons_size_y", img>>])

BlendIcon ==
    /\ show = "icon" /\ img <= NUM_ICONS
    /\ ~Hidden(IconClip)
    /\ show' = "iconWait"
    /\ Start(<<"icon", img>>, local[<<"icons", img>>], IconClip)
    /\ UNCHANGED <<img, local, behind>>

(* The rows of all three icons move in every turn; only the icon at hand   *)
(* is brought back.                                                        *)
IconSteps == <<1, -2, 4>>

Moved(word) ==
    IF word[1] = "icons_y" THEN local[word] + IconSteps[word[2]] ELSE local[word]

BroughtBack(at, size) ==
    CASE at > size + IconMargin -> -IconMargin
      [] at < -IconMargin       -> size + IconMargin
      [] OTHER                  -> at

NextIcon ==
    /\ show' = "icon" /\ img' = img + 1
    /\ local' = [word \in Words |->
                   CASE word = <<"icons_x", img>> -> BroughtBack(Moved(word), LCD_X_SIZE)
                     [] word = <<"icons_y", img>> -> BroughtBack(Moved(word), LCD_Y_SIZE)
                     [] OTHER -> Moved(word)]
    /\ UNCHANGED behind

IconDone ==
    /\ show = "iconWait"
    /\ Wait
    /\ NextIcon

(* Mutant: the task waits for an icon that was not drawn. *)
IconHiddenWaits ==
    /\ show = "icon" /\ img <= NUM_ICONS
    /\ Hidden(IconClip)
    /\ show' = "iconWait"
    /\ UNCHANGED <<img, local, behind, frameBuffer, shown, dma2d, xBinSem, due, drawn>>

IconHidden ==
    /\ show = "icon" /\ img <= NUM_ICONS
    /\ Hidden(IconClip)
    /\ NextIcon
    /\ UNCHANGED <<frameBuffer, shown, dma2d, xBinSem, due, drawn>>

(* BSP_LCD_SetLayerAddress takes effect at once.                           *)
ShowFrame ==
    /\ show = "icon" /\ img > NUM_ICONS
    /\ show' = "delay"
    /\ shown' = frameBuffer
    /\ UNCHANGED <<img, local, behind, frameBuffer, dma2d, xBinSem, due, drawn>>

(* After osDelay the other buffer is drawn; FillBuffer polls for its end.  *)
SwapBuffers ==
    /\ show = "delay"
    /\ show' = "image" /\ img' = 1
    /\ frameBuffer' = 1 - frameBuffer
    /\ due' = [due EXCEPT ![1 - frameBuffer] = <<>>]
    /\ drawn' = [drawn EXCEPT ![1 - frameBuffer] = <<>>]
    /\ UNCHANGED <<local, behind, shown, dma2d, xBinSem>>

ShowTask ==
    \/ BlendImage \/ ImageDone \/ FirstIcon
    \/ BlendIcon \/ IconDone \/ IconHidden
    \/ ShowFrame \/ SwapBuffers

TransferComplete ==
    /\ dma2d # Idle /\ show # "spin"
    /\ dma2d' = Idle
    /\ xBinSem' = 1
    /\ drawn' = [drawn EXCEPT ![dma2d.to] = Append(@, dma2d.name)]
    /\ UNCHANGED <<show, img, local, behind, frameBuffer, shown, due>>

(* The interrupt never returns.                                            *)
TransferError ==
    /\ dma2d # Idle /\ show # "spin"
    /\ show' = "spin"
    /\ UNCHANGED <<img, local, behind, frameBuffer, shown, dma2d, xBinSem, due, drawn>>

ShowNext == ShowTask \/ TransferComplete \/ TransferError

(* A transfer ends, the task is scheduled.                                 *)
ShowFairness == WF_showVars(ShowTask) /\ WF_showVars(TransferComplete)

ShowSpec == ShowInit /\ [][ShowNext]_showVars /\ ShowFairness

-----------------------------------------------------------------------------
Names == ({"image"} \X (1 .. NUM_IMAGES)) \union ({"icon"} \X (1 .. NUM_ICONS))

ShowTypeOK ==
    /\ show \in {"image", "imageWait", "icon", "iconWait", "delay", "spin"}
    /\ img \in Nat
    /\ local \in [Words -> Int] /\ behind \in Words \union {Elsewhere}
    /\ frameBuffer \in {0, 1} /\ shown \in {0, 1} /\ xBinSem \in {0, 1}
    /\ dma2d # Idle => dma2d.to \in {0, 1} /\ dma2d.name \in Names
    /\ due \in [{0, 1} -> Seq(Names)] /\ drawn \in [{0, 1} -> Seq(Names)]

(* The pixels of a picture that the screen shows, its last column and row  *)
(* excepted: myClip takes them for the screen's size (:258-280).           *)
Visible(x, y, w, h) ==
    {p \in (0 .. LCD_X_SIZE - 2) \X (0 .. LCD_Y_SIZE - 2) :
        p[1] \in x .. x + w - 1 /\ p[2] \in y .. y + h - 1}

Drawn(clip) == (clip.x .. clip.x + clip.w - 1) \X (clip.y .. clip.y + clip.h - 1)

(* The pixel p of a clipped picture of width w at x, y is its own.         *)
OwnPixel(clip, p, x, y, w) ==
    clip.from + (p[2] - clip.y) * w + (p[1] - clip.x) = (p[2] - y) * w + (p[1] - x)

(* Of an icon whose place, width and height are intact: the transfer takes *)
(* from the icon exactly what is visible of it.                            *)
IconRight(icon) ==
    LET x == local[<<"icons_x", icon>>]
        y == local[<<"icons_y", icon>>]
        w == IconW[icon]
    IN  /\ dma2d.at = IconAt[icon]
        /\ Drawn(dma2d.clip) = Visible(x, y, w, IconH[icon])
        /\ \A p \in Drawn(dma2d.clip) : OwnPixel(dma2d.clip, p, x, y, w)

Spoilt(name) ==
    behind \in (IF name[1] = "image" THEN {"images"}
               ELSE {"icons", "icons_size_x", "icons_size_y"}) \X {name[2]}

(* What is on display is whole: every picture and icon its frame asked for *)
(* has been drawn into it, in order, and no transfer touches it any more.  *)
(* No transfer leaves the screen, whatever the increments past the end of  *)
(* imagesAlpha do to the arrays; and a transfer takes a picture from its   *)
(* place and of an icon exactly what is visible, each pixel from its own,  *)
(* unless those increments hit that very picture's address or that icon's  *)
(* address, width or height (:253-295, :96-181).                           *)
PictureWhole ==
    /\ drawn[shown] = due[shown]
    /\ dma2d # Idle =>
         LET name == dma2d.name
         IN  /\ dma2d.to # shown
             /\ Drawn(dma2d.clip) \subseteq Drawn(WholeScreen)
             /\ ~Spoilt(name) /\ name[1] = "image" => dma2d.at = ImageAt[name[2]]
             /\ ~Spoilt(name) /\ name[1] = "icon" => IconRight(name[2])

(* The show goes on: each buffer is displayed again and again, whatever    *)
(* the increments past imagesAlpha do to the arrays (:107) and wherever    *)
(* the icons move, unless a transfer error stops it (:247).                *)
KeepsShowing == ([]<>(shown = 0) /\ []<>(shown = 1)) \/ <>(show = "spin")

=============================================================================
