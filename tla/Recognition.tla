---------------------------- MODULE Recognition ------------------------------
(***************************************************************************)
(* The stages between the picture of a page and the translated text: text  *)
(* boxes, their reading order, the text of a line, its tokens, and the     *)
(* calls of the translator into the model runtime.  They share no state;   *)
(* what theorems say of them together is stated here.                      *)
(***************************************************************************)
EXTENDS TextBoxes, ReadingOrder, CtcDecode, Tokenizer, Translation

(* ocr_postproc.c, ocr_rec.c, tokenizer.c and translator.c: the boxes are the
   best whole regions of the map and stand row by row, a line's text is what
   the labels mean in the alphabet of the model, the tokens stand for the text
   or as much of it as there is room for, and a translation is made of its own
   call's tensors. *)
RecognitionSound ==
  /\ RegionsWhole /\ PageInOrder /\ TextMeant
  /\ TokensKept /\ TranslationSound
=============================================================================
