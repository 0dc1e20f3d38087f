\* One GET and one mutation on two paths of one resource.
SPECIFICATION Spec
CONSTANTS
  s1 = s1
  s2 = s2
  Slots = {s1, s2}
  list = list
  one = one
  Paths = {list, one}
  Matches <- SameResource
PROPERTY MissFills
