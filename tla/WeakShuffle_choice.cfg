SPECIFICATION Spec
CONSTANT Objects = {o1, o2, o3, o4}
INVARIANTS ChoiceFromSet
