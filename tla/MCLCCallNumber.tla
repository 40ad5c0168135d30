--------------------------- MODULE MCLCCallNumber ---------------------------
(* Strings put together from captions, cutters and specifications.         *)
EXTENDS LCCallNumber

CaptionTexts ==
  {"Q", "qa 76.5", "QA076", "QA76 1990", "QA76,5 15th", "QA76 1990-95a", "QA76 1990b",
   "QA76 1990 Jan."}

CutterTexts ==
  {"", ".", ".A1", " .a12B2", " A1 B2C3D4", ".A1bc", ".A1bc B2", ".A1b", ".A1 1990 B2",
   ".A1 1990.B2", ".A1 15th B2", ".A", ".A1 1990-95B2", ".A1 1990a B2", ". B2"}

FirstTexts ==
  {"", " 1990", " 1990a", " 1990/95", " 1990/0095", " 1990, Sept. 5", " 1990 Jan 45", " 1990 Ed. 2",
   " 1st.", " 1st",
   " v. 1", " vol.1, etc.", " Suppl. 1", " Suppl 1, etc.", " Suppl", " ab.c", " v.12x",
   " abcdefghij.1234567x", " abcdefghijk-1234567x"}

RestTexts == {"", " 2nd.ed. v.1", " word Suppl 2 1990-95 x"}

MCTexts ==
  {Codes(c) \o Codes(a) \o Codes(f) \o Codes(r) :
     c \in CaptionTexts, a \in CutterTexts, f \in FirstTexts, r \in RestTexts}

MCShelved ==
  {Codes("q"), Codes("QA76.A1B"), Codes("QA76.A1"), Codes("QA76.5 A1BC"),
   Codes("qa76.a1 1990.b2"), Codes("QA76.A1 15TH B2 1990"), Codes("QA76 1990/95A .A12B2"),
   Codes("QA76 1990B 1990-95"), Codes("QA76 AB.C"), Codes("QA76 1990-0095A .A12B2"),
   Codes("QA76 1990-95"), Codes("QA76 1990-1995"), Codes("QA76 vol. 1, etc."),
   Codes("QA76 Suppl 1"), Codes("QA76 Suppl 1, etc."), Codes("QA76 v. 1 2ND.ED. v. 1")}

MCStyles ==
  {DefaultStyle,
   [DefaultStyle EXCEPT !.splitSubject = TRUE, !.splitCutters = TRUE, !.splitSections = TRUE],
   [DefaultStyle EXCEPT !.separator = 10, !.splitCutters = TRUE],
   [DefaultStyle EXCEPT !.splitSections = TRUE, !.extraCutpoint = TRUE],
   [DefaultStyle EXCEPT !.extraCutpoint = TRUE]}
=============================================================================
