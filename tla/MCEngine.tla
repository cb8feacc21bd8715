------------------------------ MODULE MCEngine ------------------------------
(***************************************************************************)
(* TLC instances of Engine.  Azimuths are eighths of a turn.  A day     *)
(* frame shows the Sun; a solved night frame shows two stars; an unsolved   *)
(* one yields nothing, and one of its peaks may pass for the Sun.           *)
(***************************************************************************)
EXTENDS Engine

LineOf(body, azimuth, intercept, sigma) ==
  [body |-> body, azimuth |-> azimuth, intercept |-> intercept, sigma |-> sigma]

Sun == [kind |-> "Day", sigma_key |-> 2, shows_sun |-> TRUE,
         lines |-> <<LineOf("Sun", 0, 2, 2)>>]
TwoStars == [kind |-> "IdentifiedStars", sigma_key |-> 1, shows_sun |-> FALSE,
             lines |-> <<LineOf("Vega", 2, 1, 1), LineOf("Deneb", 7, 1, 4)>>]
Night == [kind |-> "Night", sigma_key |-> 1, shows_sun |-> TRUE, lines |-> <<>>]

MCBodies == {Sun, TwoStars, Night}
MCRestartBodies == {Sun, TwoStars}
MCHorizons == {[sigma_key |-> 1]}

=============================================================================
