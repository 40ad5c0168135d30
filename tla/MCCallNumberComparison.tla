----------------------- MODULE MCCallNumberComparison -----------------------
(* Call numbers whose captions, cutters and specifications vary one part   *)
(* against the next: with and without it, and with another one.            *)
EXTENDS CallNumberComparison

NoDate == [kind |-> "none"]
Year(y, mark) == [kind |-> "date", form |-> "year", year |-> y, mark |-> mark]
Span(y, span) == [kind |-> "date", form |-> "span", year |-> y, span |-> span, mark |-> << >>]
Day(y, month, day) ==
  [kind |-> "date", form |-> "day", year |-> y, month |-> month, day |-> day, mark |-> << >>]
Ordinal(n, suffix) == [kind |-> "ordinal", number |-> n, suffix |-> suffix]

NoCutter == [letter |-> 0, number |-> << >>, mark |-> << >>, dateord |-> NoDate]
Cutter(letter, number, mark, dateord) ==
  [letter |-> letter, number |-> number, mark |-> mark, dateord |-> dateord]

None == [kind |-> "none"]
Word(w) == [kind |-> "word", word |-> w]
Volume(n, etc) == [kind |-> "volume", prefix |-> <<118>>, number |-> n, hasetc |-> etc]
Supplement(n, etc) == [kind |-> "supplement", prefix |-> <<83>>, number |-> n, hasetc |-> etc]

Bare == [letters |-> <<81>>, integer |-> Absent, decimal |-> << >>, dateord |-> NoDate,
         cutters |-> <<NoCutter, NoCutter, NoCutter>>,
         specifications |-> <<None, None>>, remainder |-> << >>]

(* What the parser tells apart: a single letter ends a call number as a    *)
(* cutter, and a date or an ordinal after the caption belongs to it.       *)
Dates ==
  {NoDate, Year(1989, << >>), Year(1990, << >>), Year(1990, <<97>>),
   Span(1990, 1995), Span(1990, 1996),
   Day(1990, 1, 0), Day(1990, 1, 2), Day(1990, 1, 3), Day(1990, 2, 1), Ordinal(<<49>>, <<84>>)}

UndatedCaptions ==
  {[Bare EXCEPT !.letters = a, !.integer = n, !.decimal = d] :
     a \in {<<81>>, <<81, 65>>}, n \in {7, 76}, d \in {<< >>, <<53>>}}
  \cup {[Bare EXCEPT !.letters = a] : a \in {<<81>>, <<81, 65>>}}
  \cup {[Bare EXCEPT !.integer = 76, !.decimal = <<53, 49>>]}

DatedCaptions ==
  {[Bare EXCEPT !.integer = 76, !.dateord = date] : date \in Dates}
  \cup {[Bare EXCEPT !.integer = 76, !.decimal = <<53>>, !.dateord = date] :
          date \in {Year(1989, << >>), Year(1990, << >>), Day(1990, 1, 2), Day(1990, 1, 3),
                    Ordinal(<<49>>, <<84>>)}}

WithCutters(first, second) ==
  [Bare EXCEPT !.integer = 76, !.cutters = <<first, second, NoCutter>>]

CutterA1 == Cutter(65, <<49>>, << >>, NoDate)
CutterA1In1990 == Cutter(65, <<49>>, << >>, Year(1990, << >>))

Cutters ==
  {WithCutters(Cutter(65, << >>, << >>, NoDate), NoCutter),
   WithCutters(CutterA1, Cutter(65, <<49>>, << >>, Ordinal(<<49>>, <<84>>)))}
  \cup {WithCutters(first, second) :
          first \in {CutterA1, CutterA1In1990, Cutter(65, <<49>>, <<98, 99>>, NoDate),
                     Cutter(66, <<49>>, << >>, NoDate),
                     Cutter(65, <<49>>, <<98, 99>>, Year(1990, << >>)),
                     Cutter(65, <<49>>, <<98, 99>>, Day(1990, 1, 2))},
          second \in {NoCutter, CutterA1}}

SpecifiedWith(first, second, rest) ==
  [WithCutters(CutterA1In1990, NoCutter)
     EXCEPT !.specifications = <<first, second>>, !.remainder = rest]

ab == Word(<<97, 98>>)
Abc == Word(<<65, 98, 99>>)

Specified ==
  {SpecifiedWith(first, second, << >>) :
     first \in {Year(1990, << >>), ab, Abc, Ordinal(<<49>>, <<84, 46>>),
                Volume(<<49>>, FALSE), Volume(<<49>>, TRUE), Volume(<<49, 50>>, FALSE),
                Supplement(<<49>>, FALSE), Supplement(<<49>>, TRUE)},
     second \in {None, Year(1990, << >>)}}
  \cup {SpecifiedWith(first, None, << >>) :
          first \in {Supplement(<<49, 50>>, FALSE), Supplement(<<49, 50>>, TRUE),
                     Volume(<<49, 50>>, TRUE), Volume(<<49, 50, 51>>, TRUE)}}
  \cup {SpecifiedWith(ab, Volume(<<49, 50>>, FALSE), rest) : rest \in {<< >>, <<Abc>>}}
  \cup {SpecifiedWith(ab, second, rest) :
          second \in {Volume(<<49>>, FALSE), Volume(<<49, 50>>, FALSE)},
          rest \in {<<ab>>, <<ab, Abc>>}}

MCCallNumbers == UndatedCaptions \cup DatedCaptions \cup Cutters \cup Specified
=============================================================================
