----------------------------- MODULE VncPicture -----------------------------
(***************************************************************************)
(* The desktop a VNC server draws and the one the client has of it         *)
(* (crates/proto-vnc/src: session.rs, decode.rs).  An update is a list of  *)
(* rectangles, each in one of the encodings; the server is whoever chose   *)
(* how to encode what it has, well or badly.                               *)
(*                                                                         *)
(* A picture is a function from the points of the desktop to colours.  The *)
(* compressor is left out: a ZRLE rectangle is what its data inflates to.  *)
(* A length is written in bytes of which the greatest, MaxByte, says that  *)
(* another follows.                                                        *)
(***************************************************************************)
EXTENDS Integers, SequencesExt

CONSTANTS
  Colours, Unpainted,   \* what a new framebuffer is filled with
  DesktopSizes,     \* <<width, height>>
  TileSize,         \* TILE
  MaxByte,          \* 255
  MaxRectangles     \* bound: rectangles in one update

ASSUME PictureAssumption ==
  /\ Unpainted \in Colours
  /\ DesktopSizes \subseteq (Nat \ {0}) \X (Nat \ {0})
  /\ TileSize \in Nat \ {0} /\ MaxByte \in Nat \ {0} /\ MaxRectangles \in Nat

Points(size) == (0 .. size[1] - 1) \X (0 .. size[2] - 1)
Empty(size) == [p \in Points(size) |-> Unpainted]

Rect(x, y, w, h) == [x |-> x, y |-> y, w |-> w, h |-> h]
InRect(r) == (r.x .. r.x + r.w - 1) \X (r.y .. r.y + r.h - 1)

\* The points of a rectangle, row by row.
Scan(r) == [i \in 1 .. r.w * r.h |-> <<r.x + ((i - 1) % r.w), r.y + ((i - 1) \div r.w)>>]

\* Framebuffer::check.
Fits(r, size) == r.x + r.w <= size[1] /\ r.y + r.h <= size[2]

Write(picture, points, colours) ==
  [p \in DOMAIN picture |->
     IF \E i \in DOMAIN points : points[i] = p
     THEN colours[CHOOSE i \in DOMAIN points : points[i] = p] ELSE picture[p]]

Drawn(picture) == [drawn |-> TRUE, picture |-> picture]
Malformed == [drawn |-> FALSE]

-----------------------------------------------------------------------------
(* CopyRect                                                                *)

\* One row, as a block.
CopyRow(picture, r, from, row) ==
  [p \in DOMAIN picture |->
     IF p[2] = r.y + row /\ p[1] \in r.x .. r.x + r.w - 1
     THEN picture[<<p[1] - r.x + from[1], from[2] + row>>] ELSE picture[p]]

\* Mutant: always from the top.
RowsDown(r, from) == [k \in 1 .. r.h |-> k - 1]

\* Upwards when the rows move down, as the two may overlap.
RowsInOrder(r, from) ==
  IF from[2] < r.y THEN [k \in 1 .. r.h |-> r.h - k] ELSE [k \in 1 .. r.h |-> k - 1]

ApplyCopy(picture, r, from) ==
  LET rows == RowsInOrder(r, from)
      upTo[k \in 0 .. r.h] == IF k = 0 THEN picture ELSE CopyRow(upTo[k - 1], r, from, rows[k])
  IN  upTo[r.h]

-----------------------------------------------------------------------------
(* ZRLE: a rectangle is a list of tiles, and a tile says how it is packed: *)
(*   [packing |-> "raw", colours], [packing |-> "solid", colour],          *)
(*   [packing |-> "palette", palette, indices], and in runs,               *)
(*   [packing |-> "runs", runs] or [packing |-> "palette runs", palette,   *)
(*   runs], a run being a colour or an index, and its length.  In palettes *)
(*   the first index is 1, and a run without a length has none.            *)

\* The tiles of a rectangle, left to right and top to bottom.
TilesOf(r) ==
  LET across == (r.w + TileSize - 1) \div TileSize
      down == (r.h + TileSize - 1) \div TileSize
      least(a, b) == IF a < b THEN a ELSE b
  IN  [i \in 1 .. across * down |->
         LET x == TileSize * ((i - 1) % across)
             y == TileSize * ((i - 1) \div across)
         IN  Rect(r.x + x, r.y + y, least(TileSize, r.w - x), least(TileSize, r.h - y))]

Total(bytes) == FoldLeft(LAMBDA a, b : a + b, 0, bytes)

\* run_length: one more than the bytes come to.
RunLength(bytes) == 1 + Total(bytes)

\* The colours of a run-length-encoded tile, in order.  Runs are read until the
\* tile is full; fill_run refuses one that is longer than what is left of it.
RunsOf(runs, colour(_), pixels) ==
  LET full(r) == ~r.ok \/ Len(r.colours) = pixels
      length(run) == IF run.length = <<>> THEN 1 ELSE RunLength(run.length)
      filled(r, run) ==
        IF Len(r.colours) + length(run) > pixels THEN [r EXCEPT !.ok = FALSE]
        ELSE [r EXCEPT !.colours = @ \o [i \in 1 .. length(run) |-> colour(run.what)]]
      upTo[k \in 0 .. Len(runs)] ==
        IF k = 0 THEN [ok |-> TRUE, colours |-> <<>>]
        ELSE IF full(upTo[k - 1]) THEN upTo[k - 1] ELSE filled(upTo[k - 1], runs[k])
  IN  upTo[Len(runs)]

\* What a tile is unpacked to, if it is one.  A server sends no tile that says
\* less than its pixels, and nothing after a tile is full: the bytes of the next
\* tile would be taken for what is missing, or what is left over for the next tile.
Unpack(tile, pixels) ==
  LET whole(colours) == [ok |-> Len(colours) = pixels, colours |-> colours]
      listed(indices) == \A i \in DOMAIN indices : indices[i] \in DOMAIN tile.palette
      checked(r) == [r EXCEPT !.ok = @ /\ Len(r.colours) = pixels]
  IN  CASE tile.packing = "raw" -> whole(tile.colours)
        [] tile.packing = "solid" -> whole([i \in 1 .. pixels |-> tile.colour])
        [] tile.packing = "palette" ->
             IF Len(tile.palette) \in 2 .. 16 /\ listed(tile.indices)
             THEN whole([i \in DOMAIN tile.indices |-> tile.palette[tile.indices[i]]])
             ELSE whole(<<>>)
        [] tile.packing = "runs" -> checked(RunsOf(tile.runs, LAMBDA c : c, pixels))
        [] tile.packing = "palette runs" ->
             IF listed([i \in DOMAIN tile.runs |-> tile.runs[i].what])
             THEN checked(RunsOf(tile.runs, LAMBDA i : tile.palette[i], pixels))
             ELSE whole(<<>>)

\* Tile after tile; what was drawn before a bad one stays, but the session ends.
ApplyZrle(picture, r, data) ==
  LET tiles == TilesOf(r)
      upTo[k \in 0 .. Len(tiles)] ==
        IF k = 0 THEN Drawn(picture)
        ELSE IF ~upTo[k - 1].drawn \/ k > Len(data) THEN Malformed
        ELSE LET tile == tiles[k]
                 unpacked == Unpack(data[k], tile.w * tile.h)
             IN  IF unpacked.ok
                 THEN Drawn(Write(upTo[k - 1].picture, Scan(tile), unpacked.colours))
                 ELSE Malformed
  IN  upTo[Len(tiles)]

-----------------------------------------------------------------------------
(* What a server may send for the colours of a tile.                       *)

LengthOf(n) == [i \in 1 .. ((n - 1) \div MaxByte) + 1 |->
                  IF i <= (n - 1) \div MaxByte THEN MaxByte ELSE (n - 1) % MaxByte]

\* Where a colour is first, last and how often: the runs of a tile.
RunStarts(colours) == {i \in DOMAIN colours : i = 1 \/ colours[i] # colours[i - 1]}
RunsIn(colours, name(_)) ==
  LET starts == SetToSortSeq(RunStarts(colours), <)
      stop(k) == IF k = Len(starts) THEN Len(colours) + 1 ELSE starts[k + 1]
  IN  [k \in DOMAIN starts |->
         [what |-> name(colours[starts[k]]), length |-> LengthOf(stop(k) - starts[k])]]

PaletteOf(colours) == SetToSeq({colours[i] : i \in DOMAIN colours})
IndexIn(colours, c) == CHOOSE i \in DOMAIN PaletteOf(colours) : PaletteOf(colours)[i] = c

\* A run of one pixel by its index may go without a length.
Brief(runs) == [k \in DOMAIN runs |->
                  IF runs[k].length = <<0>> THEN [runs[k] EXCEPT !.length = <<>>] ELSE runs[k]]
\* What fill_run refuses: one pixel more than the tile has left.
LastRunLonger(runs) == [runs EXCEPT ![Len(runs)].length = LengthOf(RunLength(@) + 1)]
Packings == {"raw", "solid", "palette", "runs", "palette runs", "overrun"}

PackedAs(packing, colours) ==
  LET palette == PaletteOf(colours)
      index(c) == IndexIn(colours, c)
      runs == RunsIn(colours, LAMBDA c : c)
  IN  CASE packing = "raw" \/ (packing = "palette" /\ Len(palette) = 1) ->
             [packing |-> "raw", colours |-> colours]
        [] packing = "solid" /\ Len(palette) = 1 -> [packing |-> "solid", colour |-> palette[1]]
        [] packing = "palette" ->
             [packing |-> "palette", palette |-> palette,
              indices |-> [i \in DOMAIN colours |-> index(colours[i])]]
        [] packing = "overrun" ->
             [packing |-> "runs", runs |-> LastRunLonger(runs)]
        [] packing = "palette runs" ->
             [packing |-> "palette runs", palette |-> palette, runs |-> Brief(RunsIn(colours, index))]
        [] OTHER -> [packing |-> "runs", runs |-> runs]

-----------------------------------------------------------------------------
(* The connection                                                          *)

VARIABLES
  screen,    \* [size, picture]: the server's
  shown,     \* and the framebuffer here
  damage,    \* the points of the rectangles read in this update
  unseen,    \* the points that changed and were in no rectangle that is reported
  rest,      \* rectangles still to come in this update
  session,   \* "up" or "ended"
  wrong      \* whether the server sent what is no rectangle of its desktop
pictureVars == <<screen, shown, damage, unseen, rest, session, wrong>>

PictureInit ==
  \E size \in DesktopSizes :
    /\ screen = [size |-> size, picture |-> Empty(size)] /\ shown = screen
    /\ damage = {} /\ unseen = {} /\ rest = 0 /\ session = "up" /\ wrong = FALSE

\* The header of an update; what the last one said has been acted on.
UpdateBegins ==
  /\ session = "up" /\ rest = 0
  /\ rest' \in 1 .. MaxRectangles /\ damage' = {}
  /\ UNCHANGED <<screen, shown, unseen, session, wrong>>

\* What a server draws.
Patterns(n) ==
  {[i \in 1 .. n |-> c] : c \in Colours}
    \cup {[i \in 1 .. n |-> IF i % k = 0 THEN c ELSE Unpainted] : c \in Colours, k \in {2, 3}}

\* Rectangles of a desktop, and one that is a column too wide for it.
Rectangles(size) ==
  {r \in {Rect(x, y, w, h) : x \in 0 .. size[1] - 1, y \in 0 .. size[2] - 1,
                             w \in 1 .. size[1], h \in 1 .. size[2]} : Fits(r, size)}
TooWide(size) == Rect(1, 0, size[1], 1)

Draws(r, colours) == [screen EXCEPT !.picture = Write(@, Scan(r), colours)]

\* A rectangle that could not be drawn ends the session.
Read(r, result) ==
  /\ session = "up" /\ rest > 0
  /\ rest' = rest - 1
  /\ IF Fits(r, shown.size) /\ result.drawn
     THEN /\ shown' = [shown EXCEPT !.picture = result.picture]
          /\ damage' = damage \cup InRect(r)
          /\ unseen' = {p \in DOMAIN result.picture :
                          (p \in unseen \/ result.picture[p] # shown.picture[p]) /\ p \notin damage'}
          /\ UNCHANGED session
     ELSE session' = "ended" /\ UNCHANGED <<shown, damage, unseen>>

ReadRaw(r, colours) ==
  /\ Read(r, Drawn(Write(shown.picture, Scan(r), colours)))
  /\ screen' = Draws(r, colours) /\ UNCHANGED wrong

ReadZrle(r, colours, packing) ==
  LET tiles == TilesOf(r)
      drawn == Draws(r, colours).picture
      data == [k \in DOMAIN tiles |->
                 PackedAs(packing, [i \in 1 .. tiles[k].w * tiles[k].h |-> drawn[Scan(tiles[k])[i]]])]
  IN  /\ Read(r, ApplyZrle(shown.picture, r, data))
      /\ screen' = Draws(r, colours) /\ wrong' = (packing = "overrun")

\* The server copies the rectangle as a whole.
ReadCopy(r, from) ==
  /\ Fits(Rect(from[1], from[2], r.w, r.h), screen.size)
  /\ Read(r, Drawn(ApplyCopy(shown.picture, r, from)))
  /\ screen' = Draws(r, [i \in 1 .. r.w * r.h |->
                           screen.picture[Scan(Rect(from[1], from[2], r.w, r.h))[i]]])
  /\ UNCHANGED wrong

ReadTooWide ==
  /\ Read(TooWide(shown.size), Drawn(shown.picture))
  /\ wrong' = TRUE /\ UNCHANGED screen

\* The damage before it is handed over before it; afterwards all is new.
ReadDesktopSize(size) ==
  /\ session = "up" /\ rest > 0
  /\ screen' = [size |-> size, picture |-> Empty(size)]
  /\ shown' = [size |-> size, picture |-> Empty(size)]
  /\ damage' = {} /\ unseen' = {} /\ rest' = rest - 1
  /\ UNCHANGED <<session, wrong>>

PictureNext ==
  \/ UpdateBegins \/ ReadTooWide
  \/ \E size \in DesktopSizes : ReadDesktopSize(size)
  \/ \E r \in Rectangles(screen.size) :
       \/ \E colours \in Patterns(r.w * r.h) :
            \/ ReadRaw(r, colours)
            \/ \E packing \in Packings : ReadZrle(r, colours, packing)
       \/ \E from \in Points(screen.size) : ReadCopy(r, from)

-----------------------------------------------------------------------------
\* While the session is up the client shows what the server shows, whichever way
\* the server says it and however a copy overlaps itself; every point that changed
\* is among those it reports; and what ends the session is a rectangle that is
\* none (decode.rs; session.rs, read_framebuffer_update).
TheSameDesktop ==
  /\ session = "up" => shown = screen
  /\ unseen = {}
  /\ session = "ended" <=> wrong
=============================================================================
