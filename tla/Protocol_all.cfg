CONSTANTS
  Commands = {"a", "b", "c"}
  Checked = {"b"}
  Jumps = {"c"}
  LineMax = 2
  Settle = 2
SPECIFICATION Spec
INVARIANTS OncePerLine LineSound
PROPERTIES AlwaysAnswered
