-------------------------- MODULE MCFlightCalendar --------------------------
(* First days of flights for FlightCalendar. *)
EXTENDS FlightCalendar

FirstOfJanuary(year) == [day |-> 1, month |-> 1, year |-> year]

(* A leap year that ends a century, before and after it, and the years on  *)
(* both sides of an ordinary leap year.                                    *)
YearsOfTheRun == {FirstOfJanuary(year) : year \in {1950, 1999, 2000, 2010, 2011, 2012, 2048}}

OrdinaryYear == {FirstOfJanuary(2010)}
=============================================================================
