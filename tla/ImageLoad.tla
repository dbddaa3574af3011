----------------------------- MODULE ImageLoad -----------------------------
(***************************************************************************)
(* jcimageload.c: loading one image file into memory, by the JPEG decoder  *)
(* (jcil_load_jpeg) or by one of cjpeg's readers                           *)
(* (jcil_load_via_cjpeg_reader).  Both set up a setjmp handler, open the   *)
(* file, create a libjpeg object, read the header, allocate the pixel      *)
(* arrays and copy the rows; both may leave through an early return or     *)
(* through the handler.  held is what the process then still owns.         *)
(***************************************************************************)
EXTENDS Integers, FiniteSets

CONSTANTS Files,            \* records [format, layout, precision, height]
          READER_ROWS       \* rows one get_pixel_rows call may deliver

ASSUME FileAssumption ==
  /\ Files \subseteq [format : {"jpeg", "bmp", "png", "pnm", "other"},
                      layout : {"gray", "color", "color_alpha", "palette_color"},
                      precision : {8, 12},
                      height : Nat \ {0}]
  /\ READER_ROWS \in Nat \ {0}

VARIABLES file,             \* the file named by the caller
          lpc,              \* position in the loader
          held,             \* resources held
          img,              \* the caller's jcil_loaded_image
          scanline          \* rows copied so far

loadVars == <<file, lpc, held, img, scanline>>

NoImage == [color_space |-> "none", height |-> 0, filled |-> 0]

ViaReader == file.format \in {"bmp", "png", "pnm"}

\* The colour space of the rows: chosen by jcil_load_jpeg from the number of
\* components, otherwise by the reader, left to choose by JCS_UNKNOWN.  rdpng.c
\* chooses none for a palette that is not gray.
ColorSpaceOf(f) ==
  IF f.layout = "gray" THEN "GRAYSCALE"
  ELSE CASE f.format = "jpeg" -> "RGB"
         [] f.format = "bmp" /\ f.layout = "color" -> "EXT_BGR"
         [] f.format = "bmp" /\ f.layout = "color_alpha" -> "EXT_BGRA"
         [] f.format = "png" /\ f.layout = "palette_color" -> "UNKNOWN"
         [] OTHER             -> "EXT_RGB"

-----------------------------------------------------------------------------

\* jcil_load_image: the extension selects the loader, which opens the file.
LoadOpen ==
  /\ lpc = "idle" /\ file.format # "other"
  /\ lpc' = "header" /\ held' = held \cup {"file", "cinfo"}
  /\ img' = NoImage
  /\ UNCHANGED <<file, scanline>>

\* An unknown extension, or a file that cannot be opened.
LoadRefused ==
  /\ lpc = "idle"
  /\ lpc' = "failed" /\ img' = IF file.format = "other" THEN img ELSE NoImage
  /\ UNCHANGED <<file, held, scanline>>

\* A JPEG whose samples are not 8 bits wide.  (cjpeg's readers scale to the
\* 8 bits the loader asked for, so the same test after them never applies.)
LoadBadPrecision ==
  /\ lpc = "header" /\ file.format = "jpeg" /\ file.precision # 8
  /\ lpc' = "failed" /\ held' = held \ {"file", "cinfo"}
  /\ UNCHANGED <<file, img, scanline>>

\* start_input_png asks for sample rows of no component at all: alloc_sarray
\* divides by zero.  The processor raises a signal, or yields the zero that
\* ends in the error exit (LoadError).
LoadCrash ==
  /\ lpc = "header" /\ ColorSpaceOf(file) = "UNKNOWN"
  /\ lpc' = "crashed"
  /\ UNCHANGED <<file, held, img, scanline>>

\* The header was read and the decoder or reader is ready to deliver rows.
HeaderRead ==
  /\ lpc = "header" /\ ColorSpaceOf(file) # "UNKNOWN"
  /\ file.format = "jpeg" => file.precision = 8

\* rdpng.c's libspng context, which only finish_input_png frees.
PngContext == IF file.format = "png" THEN {"spng"} ELSE {}

\* The image's fields are set and its two arrays allocated.
LoadAlloc ==
  /\ HeaderRead
  /\ img' = [color_space |-> ColorSpaceOf(file), height |-> file.height, filled |-> 0]
  /\ lpc' = "rows" /\ held' = held \cup {"data", "rows"} \cup PngContext
  /\ scanline' = 0
  /\ UNCHANGED file

\* Mutant: the array that was allocated is kept when the other was not.
LoadAllocFail_Leak ==
  /\ HeaderRead
  /\ \E got \in {{}, {"data"}, {"rows"}} :
       held' = (held \ {"file", "cinfo"}) \cup got \cup PngContext
  /\ lpc' = "failed" /\ img' = NoImage
  /\ UNCHANGED <<file, scanline>>

\* One of the two mallocs fails: jcil_free_loaded_image frees the other.
LoadAllocFail ==
  /\ HeaderRead
  /\ held' = (held \ {"file", "cinfo"}) \cup PngContext
  /\ lpc' = "failed" /\ img' = NoImage
  /\ UNCHANGED <<file, scanline>>

\* Mutant: the rows of a call are copied without a look at the height.
LoadRows_Unchecked ==
  /\ lpc = "rows" /\ scanline < img.height
  /\ \E delivered \in 1..(IF ViaReader THEN READER_ROWS ELSE 1) :
       /\ scanline' = scanline + delivered
       /\ img' = [img EXCEPT !.filled = @ + delivered]
  /\ UNCHANGED <<file, lpc, held>>

\* One call of jpeg_read_scanlines (one row) or get_pixel_rows (one or more,
\* of which those past the image's height are dropped).
LoadRows ==
  /\ lpc = "rows" /\ scanline < img.height
  /\ \E delivered \in 1..(IF ViaReader THEN READER_ROWS ELSE 1) :
       LET copied == IF scanline + delivered > img.height
                     THEN img.height - scanline ELSE delivered
       IN  /\ scanline' = scanline + copied
           /\ img' = [img EXCEPT !.filled = @ + copied]
  /\ UNCHANGED <<file, lpc, held>>

\* Mutant: the file is left open.
LoadFinish_KeepsFile ==
  /\ lpc = "rows" /\ scanline = img.height
  /\ lpc' = "loaded" /\ held' = held \ {"cinfo", "spng"}
  /\ UNCHANGED <<file, img, scanline>>

\* Every row is there: the decoder or reader and its file are done with.
LoadFinish ==
  /\ lpc = "rows" /\ scanline = img.height
  /\ lpc' = "loaded" /\ held' = held \ {"file", "cinfo", "spng"}
  /\ UNCHANGED <<file, img, scanline>>

\* The setjmp branch, reachable from every call into libjpeg; while the header
\* is read, before or after the PNG reader has made its context.
LoadError ==
  /\ lpc \in {"header", "rows"}
  /\ lpc' = "failed"
  /\ \E context \in (IF lpc = "rows" THEN {PngContext} ELSE {{}, PngContext}) :
       held' = (held \ {"file", "cinfo", "data", "rows"}) \cup context
  /\ img' = NoImage
  /\ UNCHANGED <<file, scanline>>

Load ==
  LoadOpen \/ LoadRefused \/ LoadBadPrecision \/ LoadCrash \/ LoadAlloc \/ LoadAllocFail
    \/ LoadRows \/ LoadFinish \/ LoadError

=============================================================================
