\* The screen of the EV3; messages with two texts; every press of the buttons.
SPECIFICATION Spec
CONSTANTS
  Width = 178
  Height = 128
  t1 = t1
  t2 = t2
  Texts <- MCTexts
INVARIANTS IInv SelectedRowVisible LoopsEnd ThumbShowsPosition
PROPERTIES DrawnIsCurrent ClickIsOnWhatIsShown BackToOpener
CHECK_DEADLOCK FALSE
