-------------------------- MODULE SlideShow_proofs --------------------------
(* The clipping and the hand-over of the frame buffers, for every size of      *)
(* screen, picture and icon and any number of them.                            *)
EXTENDS SlideShow, TLAPS

-----------------------------------------------------------------------------
(* myClip.                                                                     *)

(* In one direction: what is left is what lies on the screen.                  *)
LEMMA CutIsOnScreen ==
    ASSUME NEW at \in Int, NEW size \in Int, NEW screen \in Nat \ {0}
    PROVE  LET c == Cut(at, size, screen)
           IN  /\ c.start \in Nat /\ c.size \in Int /\ c.skip = c.start - at
               /\ \A p \in Int : p \in c.start .. c.start + c.size - 1
                     <=> p \in 0 .. screen - 2 /\ p \in at .. at + size - 1
<1> DEFINE c == Cut(at, size, screen)
<1>1. CASE at < 0
  <2>1. c.start = 0 /\ c.skip = 0 - at
    BY <1>1 DEF Cut
  <2>2. CASE screen - 1 < size + at
    <3>1. c.size = screen - 1
      BY <1>1, <2>2 DEF Cut
    <3>2. ASSUME NEW p \in Int
          PROVE  p \in 0 .. 0 + (screen - 1) - 1
                   <=> p \in 0 .. screen - 2 /\ p \in at .. at + size - 1
      BY <1>1, <2>2
    <3> QED BY <1>1, <2>1, <2>2, <3>1, <3>2
  <2>3. CASE ~(screen - 1 < size + at)
    <3>1. c.size = size + at
      BY <1>1, <2>3 DEF Cut
    <3>2. ASSUME NEW p \in Int
          PROVE  p \in 0 .. 0 + (size + at) - 1
                   <=> p \in 0 .. screen - 2 /\ p \in at .. at + size - 1
      BY <1>1, <2>3
    <3> QED BY <1>1, <2>1, <2>3, <3>1, <3>2
  <2> QED BY <2>2, <2>3
<1>2. CASE ~(at < 0)
  <2>1. c.start = at /\ c.skip = 0
    BY <1>2 DEF Cut
  <2>2. CASE screen - 1 < at + size
    <3>1. c.size = screen - 1 - at
      BY <1>2, <2>2 DEF Cut
    <3>2. ASSUME NEW p \in Int
          PROVE  p \in at .. at + (screen - 1 - at) - 1
                   <=> p \in 0 .. screen - 2 /\ p \in at .. at + size - 1
      BY <1>2, <2>2
    <3> QED BY <1>2, <2>1, <2>2, <3>1, <3>2
  <2>3. CASE ~(screen - 1 < at + size)
    <3>1. c.size = size
      BY <1>2, <2>3 DEF Cut
    <3>2. ASSUME NEW p \in Int
          PROVE  p \in at .. at + (size) - 1
                   <=> p \in 0 .. screen - 2 /\ p \in at .. at + size - 1
      BY <1>2, <2>3
    <3> QED BY <1>2, <2>1, <2>3, <3>1, <3>2
  <2> QED BY <2>2, <2>3
<1> QED BY <1>1, <1>2

LEMMA Factor == \A a, b, w \in Int : w * a + b * w = (a + b) * w
OBVIOUS

(* A row further down in the clipped picture is a row further down in the      *)
(* whole one.                                                                  *)
LEMMA SameOffset ==
    ASSUME NEW w \in Int, NEW p1 \in Int, NEW p2 \in Int, NEW x \in Int, NEW y \in Int,
           NEW sx \in Int, NEW sy \in Int
    PROVE  ((sx - x) + w * (sy - y)) + (p2 - sy) * w + (p1 - sx) = (p2 - y) * w + (p1 - x)
<1>1. w * (sy - y) + (p2 - sy) * w = ((sy - y) + (p2 - sy)) * w
  BY Factor
<1>2. (sy - y) + (p2 - sy) = p2 - y
  OBVIOUS
<1>3. w * (sy - y) + (p2 - sy) * w = (p2 - y) * w
  BY <1>1, <1>2
<1> DEFINE a == w * (sy - y)  b == (p2 - sy) * w  d == (p2 - y) * w
<1>4. a \in Int /\ b \in Int /\ d \in Int /\ a + b = d
  BY <1>3
<1> HIDE DEF a, b, d
<1>5. ((sx - x) + a) + b + (p1 - sx) = d + (p1 - x)
  BY <1>4
<1> QED BY <1>5 DEF a, b, d

(* What myClip leaves of a picture is exactly what of it the screen shows, but *)
(* for the last column and row, each pixel from its own place; it says hidden  *)
(* when nothing is left (app_slideshow.c:253-295).                             *)
THEOREM ClipIsVisible ==
    ASSUME NEW x \in Int, NEW y \in Int, NEW w \in Int, NEW h \in Int
    PROVE  LET clip == Clip(x, y, w, h)
           IN  /\ Hidden(clip) <=> Visible(x, y, w, h) = {}
               /\ Drawn(clip) = Visible(x, y, w, h)
               /\ \A p \in Drawn(clip) : OwnPixel(clip, p, x, y, w)
<1> DEFINE clip == Clip(x, y, w, h)
           cx == Cut(x, w, LCD_X_SIZE)
           cy == Cut(y, h, LCD_Y_SIZE)
<1>1. /\ cx.start \in Nat /\ cx.size \in Int /\ cx.skip = cx.start - x
      /\ \A p \in Int : p \in cx.start .. cx.start + cx.size - 1
              <=> p \in 0 .. LCD_X_SIZE - 2 /\ p \in x .. x + w - 1
  BY CutIsOnScreen, ShowAssumption
<1>2. /\ cy.start \in Nat /\ cy.size \in Int /\ cy.skip = cy.start - y
      /\ \A p \in Int : p \in cy.start .. cy.start + cy.size - 1
              <=> p \in 0 .. LCD_Y_SIZE - 2 /\ p \in y .. y + h - 1
  BY CutIsOnScreen, ShowAssumption
<1>3. /\ clip.x = cx.start /\ clip.w = cx.size
      /\ clip.y = cy.start /\ clip.h = cy.size
      /\ clip.from = cx.skip + w * cy.skip
  BY DEF Clip
<1> HIDE DEF clip, cx, cy
<1>4. Drawn(clip) = Visible(x, y, w, h)
  <2>1. ASSUME NEW p \in Int, NEW q \in Int
        PROVE  <<p, q>> \in Drawn(clip) <=> <<p, q>> \in Visible(x, y, w, h)
    BY <1>1, <1>2, <1>3, ShowAssumption DEF Drawn, Visible
  <2>2. \A r \in Drawn(clip) : \E p, q \in Int : r = <<p, q>>
    BY <1>1, <1>2, <1>3 DEF Drawn
  <2>3. \A r \in Visible(x, y, w, h) : \E p, q \in Int : r = <<p, q>>
    BY DEF Visible
  <2> QED BY <2>1, <2>2, <2>3
<1>5. Hidden(clip) <=> Visible(x, y, w, h) = {}
  <2>1. CASE Hidden(clip)
    BY <1>1, <1>2, <1>3, <1>4, <2>1 DEF Hidden, Drawn
  <2>2. CASE ~Hidden(clip)
    <3>1. <<clip.x, clip.y>> \in Drawn(clip)
      BY <1>1, <1>2, <1>3, <2>2 DEF Hidden, Drawn
    <3> QED BY <1>4, <2>2, <3>1
  <2> QED BY <2>1, <2>2
<1>6. ASSUME NEW p \in Drawn(clip) PROVE OwnPixel(clip, p, x, y, w)
  <2>1. p[1] \in Int /\ p[2] \in Int
    BY <1>1, <1>2, <1>3, <1>6 DEF Drawn
  <2>2. w \in Int /\ cx.start \in Int /\ cy.start \in Int
    BY <1>1, <1>2
  <2>3. ((cx.start - x) + w * (cy.start - y)) + (p[2] - cy.start) * w + (p[1] - cx.start)
           = (p[2] - y) * w + (p[1] - x)
    BY <2>1, <2>2, SameOffset
  <2> QED BY <1>1, <1>2, <1>3, <2>3 DEF OwnPixel
<1> QED BY <1>4, <1>5, <1>6 DEF clip

-----------------------------------------------------------------------------
(* The frame buffers.                                                          *)

Places ==
    /\ show \in {"image", "imageWait", "icon", "iconWait", "delay", "spin"}
    /\ img \in Nat /\ img > 0
    /\ local \in [Words -> Int] /\ behind \in Words \union {Elsewhere}
    /\ frameBuffer \in {0, 1} /\ shown \in {0, 1} /\ xBinSem \in {0, 1}
    /\ due \in [{0, 1} -> Seq(Names)] /\ drawn \in [{0, 1} -> Seq(Names)]

Quiet == dma2d = Idle /\ xBinSem = 0 /\ drawn = due

(* The words of the arrays are those they were given, but for the one behind   *)
(* imagesAlpha and for the icons' places.                                      *)
Kept ==
    \A word \in Words :
        word # behind /\ word[1] \notin {"icons_x", "icons_y"} => local[word] = Given(word)

(* The transfer at hand is the last its frame asked for.                       *)
Running ==
    /\ dma2d # Idle /\ xBinSem = 0
    /\ dma2d.to = frameBuffer
    /\ dma2d.name \in Names
    /\ due = [drawn EXCEPT ![frameBuffer] = Append(@, dma2d.name)]
    /\ dma2d.name[1] = "image" =>
         /\ dma2d.clip = WholeScreen
         /\ behind # <<"images", dma2d.name[2]>> => dma2d.at = ImageAt[dma2d.name[2]]
    /\ dma2d.name[1] = "icon" =>
         /\ dma2d.name[2] = img
         /\ dma2d.clip = IconClip /\ dma2d.at = local[<<"icons", img>>]

Finished == dma2d = Idle /\ xBinSem = 1 /\ drawn = due

HandOver ==
    /\ show \in {"image", "icon"} => Quiet /\ frameBuffer # shown
    /\ show = "delay" => Quiet /\ frameBuffer = shown
    /\ show \in {"imageWait", "iconWait"} => (Running \/ Finished) /\ frameBuffer # shown
    /\ show = "spin" => Running /\ frameBuffer # shown

ShowInv == Places /\ Kept /\ HandOver

LEMMA IdleIsNoTransfer ==
    ASSUME NEW to \in {0, 1}, NEW name, NEW at, NEW clip
    PROVE  [to |-> to, name |-> name, at |-> at, clip |-> clip] # Idle
<1>1. [to |-> to, name |-> name, at |-> at, clip |-> clip].to # Idle.to
  BY DEF Idle
<1> QED BY <1>1

LEMMA WordsAreNumbers ==
    ASSUME NEW word \in Words
    PROVE  Given(word) \in Int
<1>1. CASE word[1] = "images"
  <2>1. word[2] \in 1 .. Len(ImageAt) /\ ImageAt \in Seq(Int)
    BY <1>1, ShowAssumption DEF Words, IconArrays
  <2>2. ImageAt[word[2]] \in Int
    BY <2>1
  <2> QED BY <1>1, <2>2 DEF Given
<1>2. CASE word[1] # "images"
  <2>1. word[1] \in IconArrays /\ word[2] \in 1 .. NUM_ICONS
    BY <1>2 DEF Words
  <2>2. ASSUME NEW words \in {IconAt, IconX, IconY, IconW, IconH}
        PROVE  words[word[2]] \in Int
    <3>1. words \in Seq(Int) /\ word[2] \in 1 .. Len(words)
      BY <2>1, <2>2, ShowAssumption
    <3> QED BY <3>1
  <2> QED BY <1>2, <2>2 DEF Given
<1> QED BY <1>1, <1>2

LEMMA IconWords ==
    ASSUME NEW icon \in 1 .. NUM_ICONS, NEW array \in IconArrays
    PROVE  <<array, icon>> \in Words
BY DEF Words

(* A transfer is started, for a free DMA2D.                                    *)
LEMMA StartRuns ==
    ASSUME Places, Quiet, NEW name \in Names, NEW at, NEW clip, Start(name, at, clip)
    PROVE  /\ dma2d' = [to |-> frameBuffer, name |-> name, at |-> at, clip |-> clip]
           /\ dma2d' # Idle /\ xBinSem' = 0
           /\ frameBuffer' = frameBuffer /\ shown' = shown
           /\ due' = [drawn' EXCEPT ![frameBuffer'] = Append(@, name)]
           /\ due' \in [{0, 1} -> Seq(Names)] /\ drawn' = drawn
<1>1. dma2d' = [to |-> frameBuffer, name |-> name, at |-> at, clip |-> clip]
  BY DEF Start, Quiet
<1>2. dma2d' # Idle
  BY <1>1, IdleIsNoTransfer DEF Places
<1> QED BY <1>1, <1>2 DEF Start, Quiet, Places

(* What the end of a transfer and the swap leave alone.                        *)
LEMMA KeptStays ==
    ASSUME Kept, UNCHANGED <<local, behind>>
    PROVE  Kept'
BY DEF Kept

LEMMA ByteIsNumber ==
    ASSUME NEW v \in Int, NEW k PROVE ByteUp(v, k) \in Int
<1> DEFINE weight == IF k = 0 THEN 1 ELSE AlphaByte
           byte == (v \div weight) % AlphaByte
<1>1. weight \in Nat \ {0} /\ AlphaByte \in Nat \ {0}
  BY ShowAssumption
<1>2. byte \in Int
  <2> HIDE DEF weight
  <2>1. v \div weight \in Int
    BY <1>1
  <2> HIDE DEF byte
  <2>2. \A q \in Int : q % AlphaByte \in Int
    BY <1>1
  <2> QED BY <2>1, <2>2 DEF byte
<1>3. (byte + 2) % AlphaByte \in Int
  <2> HIDE DEF byte
  <2> QED BY <1>1, <1>2
<1> HIDE DEF byte, weight
<1>4. \A a, b, c \in Int : a + (b - c) * weight \in Int
  BY <1>1
<1>5. v + (((byte + 2) % AlphaByte) - byte) * weight \in Int
  BY <1>2, <1>3, <1>4
<1> QED BY <1>5 DEF ByteUp, byte, weight

(* The increment past the array disturbs the word behind it alone.             *)
LEMMA AlphaHitsOne ==
    ASSUME Places, Kept, AlphaIncrement, behind' = behind
    PROVE  local' \in [Words -> Int] /\ Kept'
<1>1. CASE local' = local
  BY <1>1, KeptStays DEF Places
<1>2. CASE local' # local
  <2>1. PICK k : local' = [local EXCEPT ![behind] = ByteUp(@, k)]
    BY <1>2 DEF AlphaIncrement
  <2>2. behind \in Words
    BY <1>2 DEF AlphaIncrement, Places
  <2>3. ByteUp(local[behind], k) \in Int
    BY <2>2, ByteIsNumber DEF Places
  <2>4. local' \in [Words -> Int]
    BY <2>1, <2>2, <2>3 DEF Places
  <2>5. \A word \in Words : word # behind => local'[word] = local[word]
    BY <2>1 DEF Places
  <2> QED BY <2>4, <2>5 DEF Kept
<1> QED BY <1>1, <1>2

(* The icons move; every other word stays.                                     *)
LEMMA IconsMove ==
    ASSUME Places, Kept, NextIcon
    PROVE  local' \in [Words -> Int] /\ Kept'
<1>1. ASSUME NEW word \in Words PROVE Moved(word) \in Int
  <2>1. word[1] = "icons_y" => word[2] \in 1 .. NUM_ICONS
    BY DEF Words
  <2>2. word[1] = "icons_y" => IconSteps[word[2]] \in Int
    BY <2>1 DEF IconSteps, NUM_ICONS
  <2> QED BY <2>2 DEF Moved, Places
<1>2. ASSUME NEW at \in Int, NEW size \in Nat PROVE BroughtBack(at, size) \in Int
  <2>1. IconMargin \in Nat
    BY ShowAssumption
  <2>2. CASE at > size + IconMargin
    BY <2>1, <2>2 DEF BroughtBack
  <2>3. CASE ~(at > size + IconMargin)
    BY <2>1, <2>3 DEF BroughtBack
  <2> QED BY <2>2, <2>3
<1>3. ASSUME NEW word \in Words
      PROVE  /\ local'[word] \in Int
             /\ word[1] \notin {"icons_x", "icons_y"} => local'[word] = local[word]
  <2>1. local'[word] = CASE word = <<"icons_x", img>> -> BroughtBack(Moved(word), LCD_X_SIZE)
                          [] word = <<"icons_y", img>> -> BroughtBack(Moved(word), LCD_Y_SIZE)
                          [] OTHER -> Moved(word)
    BY DEF NextIcon
  <2>2. word[1] \notin {"icons_x", "icons_y"} =>
          word # <<"icons_x", img>> /\ word # <<"icons_y", img>> /\ Moved(word) = local[word]
    BY DEF Moved
  <2>3. LCD_X_SIZE \in Nat /\ LCD_Y_SIZE \in Nat
    BY ShowAssumption
  <2>4. /\ BroughtBack(Moved(word), LCD_X_SIZE) \in Int
        /\ BroughtBack(Moved(word), LCD_Y_SIZE) \in Int
    BY <1>1, <1>2, <2>3
  <2> QED BY <1>1, <2>1, <2>2, <2>4
<1>4. local' \in [Words -> Int]
  BY <1>3 DEF NextIcon
<1>5. Kept'
  BY <1>3 DEF Kept, NextIcon
<1> QED BY <1>4, <1>5

LEMMA ShowStep == ShowInv /\ [ShowNext]_showVars => ShowInv'
<1> SUFFICES ASSUME ShowInv, [ShowNext]_showVars PROVE ShowInv'
  OBVIOUS
<1> USE DEF ShowInv
<1>1. CASE BlendImage
  <2>1. Places /\ Quiet /\ frameBuffer # shown
    BY <1>1 DEF BlendImage, HandOver
  <2>2. <<"image", img>> \in Names /\ <<"images", img>> \in Words
    BY <1>1, <2>1 DEF BlendImage, Names, Places, Words
  <2> DEFINE at == local[<<"images", img>>]
  <2>3. /\ dma2d' = [to |-> frameBuffer, name |-> <<"image", img>>, at |-> at,
                    clip |-> WholeScreen]
        /\ dma2d' # Idle /\ xBinSem' = 0
        /\ frameBuffer' = frameBuffer /\ shown' = shown
        /\ due' = [drawn' EXCEPT ![frameBuffer'] = Append(@, <<"image", img>>)]
        /\ due' \in [{0, 1} -> Seq(Names)] /\ drawn' = drawn
    <3> HIDE DEF at
    <3>1. Start(<<"image", img>>, at, WholeScreen)
      BY <1>1 DEF BlendImage, at
    <3> QED BY <2>1, <2>2, <3>1, StartRuns
  <2>4. local' \in [Words -> Int] /\ Kept' /\ behind' = behind
    BY <1>1, <2>1, AlphaHitsOne DEF BlendImage
  <2>5. Places'
    BY <1>1, <2>1, <2>3, <2>4 DEF BlendImage, Places
  <2>6. behind # <<"images", img>> => at = ImageAt[img]
    BY <2>2 DEF Kept, Given
  <2>7. WholeScreen' = WholeScreen
    BY DEF WholeScreen
  <2>8. Running'
    <3> HIDE DEF at
    <3> QED BY <2>2, <2>3, <2>4, <2>6, <2>7 DEF Running
  <2> QED BY <1>1, <2>1, <2>3, <2>4, <2>5, <2>8 DEF BlendImage, HandOver
<1>2. CASE ImageDone
  <2>1. Finished /\ frameBuffer # shown
    BY <1>2 DEF ImageDone, Wait, HandOver, Running
  <2>2. Kept'
    BY <1>2, KeptStays DEF ImageDone
  <2> QED BY <1>2, <2>1, <2>2 DEF ImageDone, Wait, HandOver, Places, Finished, Quiet
<1>3. CASE FirstIcon
  <2>1. Kept'
    BY <1>3, KeptStays DEF FirstIcon
  <2> QED BY <1>3, <2>1 DEF FirstIcon, HandOver, Places, Quiet
<1>4. CASE BlendIcon
  <2>1. Places /\ Quiet /\ frameBuffer # shown
    BY <1>4 DEF BlendIcon, HandOver
  <2>2. <<"icon", img>> \in Names
    BY <1>4, <2>1 DEF BlendIcon, Names, Places
  <2> DEFINE at == local[<<"icons", img>>]
  <2>3. /\ dma2d' = [to |-> frameBuffer, name |-> <<"icon", img>>, at |-> at, clip |-> IconClip]
        /\ dma2d' # Idle /\ xBinSem' = 0
        /\ frameBuffer' = frameBuffer /\ shown' = shown
        /\ due' = [drawn' EXCEPT ![frameBuffer'] = Append(@, <<"icon", img>>)]
        /\ due' \in [{0, 1} -> Seq(Names)] /\ drawn' = drawn
    <3> HIDE DEF at
    <3>1. Start(<<"icon", img>>, at, IconClip)
      BY <1>4 DEF BlendIcon, at
    <3> QED BY <2>1, <2>2, <3>1, StartRuns
  <2>4. UNCHANGED <<img, local, behind>>
    BY <1>4 DEF BlendIcon
  <2>5. IconClip' = IconClip /\ at' = at /\ Kept'
    BY <2>4, KeptStays DEF IconClip
  <2>6. Places'
    BY <1>4, <2>1, <2>3, <2>4 DEF BlendIcon, Places
  <2>7. Running'
    BY <2>2, <2>3, <2>4, <2>5 DEF Running
  <2> QED BY <1>4, <2>1, <2>3, <2>5, <2>6, <2>7 DEF BlendIcon, HandOver
<1>5. CASE IconDone
  <2>1. Finished /\ frameBuffer # shown
    BY <1>5 DEF IconDone, Wait, HandOver, Running
  <2>2. local' \in [Words -> Int] /\ Kept' /\ behind' = behind
    BY <1>5, IconsMove DEF IconDone, NextIcon
  <2>3. img' = img + 1 /\ show' = "icon"
    BY <1>5 DEF IconDone, NextIcon
  <2> QED BY <1>5, <2>1, <2>2, <2>3 DEF IconDone, Wait, HandOver, Places, Finished, Quiet
<1>6. CASE IconHidden
  <2>1. local' \in [Words -> Int] /\ Kept' /\ behind' = behind
    BY <1>6, IconsMove DEF IconHidden, NextIcon
  <2>2. img' = img + 1 /\ show' = "icon"
    BY <1>6 DEF IconHidden, NextIcon
  <2> QED BY <1>6, <2>1, <2>2 DEF IconHidden, HandOver, Places, Quiet
<1>7. CASE ShowFrame
  <2>1. Kept'
    BY <1>7, KeptStays DEF ShowFrame
  <2> QED BY <1>7, <2>1 DEF ShowFrame, HandOver, Places, Quiet
<1>8. CASE SwapBuffers
  <2>1. frameBuffer' \in {0, 1} /\ frameBuffer' # shown'
    BY <1>8 DEF SwapBuffers, HandOver, Places
  <2>2. due' \in [{0, 1} -> Seq(Names)] /\ drawn' \in [{0, 1} -> Seq(Names)] /\ drawn' = due'
    BY <1>8 DEF SwapBuffers, HandOver, Places, Quiet
  <2>3. Kept'
    BY <1>8, KeptStays DEF SwapBuffers
  <2> QED BY <1>8, <2>1, <2>2, <2>3 DEF SwapBuffers, HandOver, Places, Quiet
<1>9. CASE TransferComplete
  <2>1. Running /\ frameBuffer # shown
    BY <1>9 DEF TransferComplete, HandOver, Quiet, Finished, Places
  <2>2. drawn' = due' /\ drawn' \in [{0, 1} -> Seq(Names)]
    BY <1>9, <2>1 DEF TransferComplete, Running, Places
  <2>3. Finished'
    BY <1>9, <2>2 DEF TransferComplete, Finished
  <2>4. show' \in {"imageWait", "iconWait"}
    BY <1>9 DEF TransferComplete, HandOver, Quiet, Places
  <2>5. Kept'
    BY <1>9, KeptStays DEF TransferComplete
  <2> QED BY <1>9, <2>1, <2>2, <2>3, <2>4, <2>5 DEF TransferComplete, HandOver, Places
<1>10. CASE TransferError
  <2>1. Running /\ frameBuffer # shown
    BY <1>10 DEF TransferError, HandOver, Quiet, Finished, Places
  <2>2. Running'
    BY <1>10, <2>1 DEF TransferError, Running, IconClip, WholeScreen
  <2>3. Kept'
    BY <1>10, KeptStays DEF TransferError
  <2> QED BY <1>10, <2>1, <2>2, <2>3 DEF TransferError, HandOver, Places
<1>11. CASE UNCHANGED showVars
  <2>1. Kept'
    BY <1>11, KeptStays DEF showVars
  <2> QED BY <1>11, <2>1 DEF showVars, HandOver, Places, Quiet, Running, Finished, IconClip,
                             WholeScreen
<1> QED BY <1>1, <1>2, <1>3, <1>4, <1>5, <1>6, <1>7, <1>8, <1>9, <1>10, <1>11
        DEF ShowNext, ShowTask

(* What the screen shows of a picture lies on the screen.                      *)
LEMMA VisibleIsOnScreen ==
    ASSUME NEW x \in Int, NEW y \in Int, NEW w \in Int, NEW h \in Int
    PROVE  Visible(x, y, w, h) \subseteq Drawn(WholeScreen)
<1>1. LCD_X_SIZE \in Nat /\ LCD_Y_SIZE \in Nat
  BY ShowAssumption
<1>2. /\ 0 .. LCD_X_SIZE - 2 \subseteq 0 .. 0 + LCD_X_SIZE - 1
      /\ 0 .. LCD_Y_SIZE - 2 \subseteq 0 .. 0 + LCD_Y_SIZE - 1
  BY <1>1
<1>3. Drawn(WholeScreen) = (0 .. 0 + LCD_X_SIZE - 1) \X (0 .. 0 + LCD_Y_SIZE - 1)
  BY DEF Drawn, WholeScreen
<1> QED BY <1>2, <1>3 DEF Visible

LEMMA WholeOnDisplay == ShowInv => PictureWhole
<1> SUFFICES ASSUME ShowInv PROVE PictureWhole
  OBVIOUS
<1> USE DEF ShowInv
<1> DEFINE name == dma2d.name
<1>1. drawn[shown] = due[shown]
  BY DEF HandOver, Places, Quiet, Running, Finished
<1>2. ASSUME dma2d # Idle PROVE Running /\ dma2d.to # shown
  BY <1>2 DEF HandOver, Places, Quiet, Running, Finished
<1>3. ASSUME dma2d # Idle, name[1] = "image"
      PROVE  /\ Drawn(dma2d.clip) \subseteq Drawn(WholeScreen)
             /\ ~Spoilt(name) => dma2d.at = ImageAt[name[2]]
  <2>1. Running
    BY <1>2, <1>3
  <2>2. ~Spoilt(name) => behind # <<"images", name[2]>>
    BY <1>3 DEF Spoilt
  <2> QED BY <1>3, <2>1, <2>2 DEF Running
<1>4. ASSUME dma2d # Idle, name[1] = "icon"
      PROVE  /\ Drawn(dma2d.clip) \subseteq Drawn(WholeScreen)
             /\ ~Spoilt(name) => IconRight(name[2])
  <2>1. /\ name[2] = img /\ name \in Names
        /\ dma2d.clip = IconClip /\ dma2d.at = local[<<"icons", img>>]
    BY <1>2, <1>4 DEF Running
  <2>2. img \in 1 .. NUM_ICONS
    BY <1>4, <2>1 DEF Names
  <2> DEFINE x == local[<<"icons_x", img>>]
             y == local[<<"icons_y", img>>]
             w == local[<<"icons_size_x", img>>]
             h == local[<<"icons_size_y", img>>]
  <2>3. x \in Int /\ y \in Int /\ w \in Int /\ h \in Int
    BY <2>2, IconWords DEF Places, IconArrays
  <2>4. dma2d.clip = Clip(x, y, w, h)
    BY <2>1 DEF IconClip
  <2>5. ASSUME ~Spoilt(name)
        PROVE  w = IconW[img] /\ h = IconH[img] /\ local[<<"icons", img>>] = IconAt[img]
    <3>1. /\ behind # <<"icons", img>> /\ behind # <<"icons_size_x", img>>
          /\ behind # <<"icons_size_y", img>>
      BY <1>4, <2>1, <2>5 DEF Spoilt
    <3>2. /\ <<"icons", img>> \in Words /\ <<"icons_size_x", img>> \in Words
          /\ <<"icons_size_y", img>> \in Words
      BY <2>2, IconWords DEF IconArrays
    <3> QED BY <3>1, <3>2 DEF Kept, Given
  <2> HIDE DEF x, y, w, h, name
  <2>6. /\ Drawn(dma2d.clip) = Visible(x, y, w, h)
        /\ \A p \in Drawn(dma2d.clip) : OwnPixel(dma2d.clip, p, x, y, w)
    BY <2>3, <2>4, ClipIsVisible
  <2>7. Drawn(dma2d.clip) \subseteq Drawn(WholeScreen)
    BY <2>3, <2>6, VisibleIsOnScreen
  <2>8. ASSUME ~Spoilt(name) PROVE IconRight(name[2])
    BY <2>1, <2>5, <2>6, <2>8 DEF IconRight, x, y
  <2> QED BY <2>7, <2>8
<1>5. ASSUME dma2d # Idle PROVE name[1] \in {"image", "icon"}
  BY <1>2, <1>5 DEF Running, Names
<1> QED BY <1>1, <1>2, <1>3, <1>4, <1>5 DEF PictureWhole

LEMMA ShowInitially == ShowInit => ShowInv
<1> SUFFICES ASSUME ShowInit PROVE Places /\ Kept /\ HandOver
  BY DEF ShowInv
<1>1. [word \in Words |-> Given(word)] \in [Words -> Int]
  BY WordsAreNumbers
<1>2. [b \in {0, 1} |-> <<>>] \in [{0, 1} -> Seq(Names)]
  OBVIOUS
<1>3. Places
  BY <1>1, <1>2 DEF ShowInit, Places
<1>4. HandOver
  BY DEF ShowInit, HandOver, Quiet
<1>5. Kept
  BY DEF ShowInit, Kept
<1> QED BY <1>3, <1>4, <1>5

(* Whatever is on display is whole and nobody draws into it, no transfer       *)
(* leaves the screen wherever the compiler has put the array that the task     *)
(* overruns, and a transfer takes of a picture or icon what it should, unless  *)
(* the overrun hits where that picture or icon lies or how large it is         *)
(* (app_slideshow.c:96-181).                                                   *)
THEOREM DisplayIsWhole == ShowSpec => []PictureWhole
BY ShowInitially, ShowStep, WholeOnDisplay, PTL DEF ShowSpec

=============================================================================
